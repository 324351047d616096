\* One loss of supply; the transactions of MCVaultSystem; no resets of the
\* main MCU without a STOP (bus_restart has them).
SPECIFICATION SystemSpec
CONSTANTS
  ContextSize = 2
  OffsetModulus = 8
  PointerByte = {}
  PayloadByte = {}
  Writes <- MCWrites
  Reads <- MCReads
  MaxRestarts = 0
  MaxLosses = 1
PROPERTIES
  CoreImplemented
  StoreImplemented

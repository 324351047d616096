\* The master may reset itself once in mid-transaction, without a STOP.
SPECIFICATION BusSpec
CONSTANTS
  ContextSize = 2
  OffsetModulus = 8
  PointerByte = {}
  PayloadByte = {}
  Writes <- MCWrites
  Reads <- MCReads
  MaxRestarts = 1
INVARIANT
  DoneOnlyWhenCommanded

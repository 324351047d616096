\* Every transaction ends in a STOP or in the power cut that follows DONE.
SPECIFICATION BusSpec
CONSTANTS
  ContextSize = 2
  OffsetModulus = 8
  PointerByte = {}
  PayloadByte = {}
  Writes <- MCWrites
  Reads <- MCReads
  MaxRestarts = 0
INVARIANTS
  DoneOnlyWhenCommanded
  ValidMeansWholeTransfer
  NoTornField
PROPERTY
  Transactional

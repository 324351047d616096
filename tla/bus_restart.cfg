\* The master may reset itself once in mid-transaction, without a STOP; the
\* offset wraps at 5.
SPECIFICATION BusSpec
CONSTANTS
  ContextSize = 2
  OffsetModulus = 5
  PointerByte = {}
  PayloadByte = {}
  Writes <- MCFewWrites
  Reads <- MCFewReads
  MaxRestarts = 1
INVARIANTS
  TypeOK
  FlagsBelongToTransaction
  InStep
  SpoilsAtMostOneEach
  HintOnlyForLastByte
PROPERTIES
  RaisedOnlyByOwnStop
  HintPrecedesCommit

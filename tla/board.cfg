\* The four boards; numbers of up to three decimal digits.
SPECIFICATION BoardSpec
CONSTANTS
  Interval <- MCInterval
  Radix = 10
INVARIANTS
  BoardTypeOK
  BoardAsBelieved
PROPERTIES
  LinesArriveWhole
  AlwaysComesRound

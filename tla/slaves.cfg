\* The three drivers; reads that open with their own START on the LPC810 and
\* the STM32s only.
SPECIFICATION DriversSpec
CONSTANTS
  BareReads = FALSE
INVARIANTS
  TXBLBracketsTransmitter
  ReadsInOrder
PROPERTIES
  CallsFollowWire
  StopIsHeard
  ClockIsReleased
  MasterGoesOn

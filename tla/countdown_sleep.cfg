\* Three backends, intervals as long as their timers can serve.
SPECIFICATION FairSpec
CONSTANTS
  Backends <- MCWithinCeiling
  LogTicks <- MCLogTicks
  Horizon = 100
INVARIANTS
  TypeOK
  WaitsLightly
  AsleepUntilDue
PROPERTIES
  SleepsAsLongAsAsked
  SleepEnds

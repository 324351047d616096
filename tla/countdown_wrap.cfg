\* Requests of 17 seconds to timers that can serve 15 and do not clamp.
SPECIFICATION Spec
CONSTANTS
  Backends <- MCBeyondCeiling
  LogTicks <- MCLogTicks
  Horizon = 100
PROPERTY
  SleepsAsLongAsAsked

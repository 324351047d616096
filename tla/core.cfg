\* The four boards, two intervals, one loss of the vault's own supply.
SPECIFICATION PinsFairSpec
CONSTANTS
  Interval = {60, 300}
  DefaultInterval = 60
  SkipWait = FALSE
  MaxLosses = 1
INVARIANTS
  TypeOK
  PoweredMainFindsSlave
  PinsBearOut
  SleepsSafely
  DoneLatchIsThisCycles
PROPERTIES
  PowerCutOnlyAfterDone
  DoneIsHeard
  CycleImplemented

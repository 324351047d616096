\* A day of six seconds; requests within it, at the ceiling and beyond it.
SPECIFICATION Spec
CONSTANTS
  Day = 6
  Requests = {2, 3, 5, 6, 8}
  TicksInArm = 1
INVARIANTS
  TypeOK
  AsleepUntilDue
  LatchIsThisAlarms
PROPERTY
  FiresWhenAsked

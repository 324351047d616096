\* A request of one second, and the RTC's seconds advance while it is armed.
SPECIFICATION Spec
CONSTANTS
  Day = 6
  Requests = {1}
  TicksInArm = 1
INVARIANT
  AsleepUntilDue

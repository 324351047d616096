\* SysTick becomes pending after the interrupts are masked for the sleep.
SPECIFICATION Spec
CONSTANTS
  Day = 6
  Requests = {3}
  TicksInArm = 1
INVARIANT
  AwakeOnlyAfterAlarm

----------------------------- MODULE AlarmSleep -----------------------------
(***************************************************************************)
(* The STM32C011 backend's sleep (platform/stm32c011).  This part has no   *)
(* wake-up counter: "in so many seconds" becomes Alarm A at a time of day, *)
(* which matches once a day, so an alarm that is missed costs a day.       *)
(*                                                                         *)
(* The RTC's clock ticks on while the code runs.  The alarm is compared    *)
(* when the seconds advance (its subseconds are masked), so setting it to  *)
(* the second that is already running does not raise it.  SysTick runs     *)
(* whenever the CPU is awake and its tick is not suspended.                *)
(***************************************************************************)
EXTENDS Integers

CONSTANTS
  Day,          \* seconds in a day: 86400
  Requests,     \* the intervals platform_wakeup_timer_arm is called with
  TicksInArm    \* bound on RTC seconds between reading the time and setting the alarm

ASSUME AlarmAssumption ==
  /\ Day \in Nat /\ Day > 2
  /\ Requests \subseteq Nat
  /\ TicksInArm \in Nat

MAX_SECONDS == Day - 1      \* STM32C011_WAKEUP_TIMER_MAX_SECONDS

VARIABLES
  pc,             \* "awake" is all of the cycle between a sleep and the next arming
  requested,      \* the interval asked for
  seconds,        \* the same, after the clamp
  now_of_day,     \* the time read while arming
  s_alarm_fired,  \* the latch: this alarm has fired and has been served
  irq_masked,     \* PRIMASK
  clock,          \* the RTC's time of day
  alarm_on,       \* Alarm A is active
  target_of_day,  \* the time it matches
  ALRAF,          \* it has matched, its handler has not run
  tick_pending,   \* SysTick is pending
  \* History, for the properties only:
  h_elapsed,      \* RTC seconds since the time was read, up to Day + 1
  h_fired         \* the alarm has matched since then

code == <<pc, requested, seconds, now_of_day, irq_masked>>
rtc  == <<clock, alarm_on, target_of_day>>
hist == <<h_elapsed, h_fired>>
vars == <<code, rtc, hist, s_alarm_fired, ALRAF, tick_pending>>

Label == {"awake", "get_time", "set_alarm", "logging", "check", "suspend_tick", "stop"}

Init ==
  /\ pc = "awake"
  /\ requested = 0 /\ seconds = 0 /\ now_of_day = 0
  /\ s_alarm_fired = FALSE
  /\ irq_masked = FALSE
  /\ clock \in 0 .. Day - 1
  /\ alarm_on = FALSE /\ target_of_day = 0 /\ ALRAF = FALSE
  /\ tick_pending = FALSE
  /\ h_elapsed = 0 /\ h_fired = TRUE

Goto(from, to) == pc = from /\ pc' = to

-----------------------------------------------------------------------------
(* platform_wakeup_timer_arm *)
\* Mutants: no clamp; the latch of the last alarm is kept.
ArmUnclamped(s) ==
  /\ Goto("awake", "get_time")
  /\ requested' = s
  /\ seconds' = s
  /\ alarm_on' = FALSE /\ ALRAF' = FALSE
  /\ s_alarm_fired' = FALSE
  /\ UNCHANGED <<now_of_day, irq_masked, clock, target_of_day, tick_pending, hist>>
ArmKeepsLatch(s) ==
  /\ Goto("awake", "get_time")
  /\ requested' = s
  /\ seconds' = IF s > MAX_SECONDS THEN MAX_SECONDS ELSE s
  /\ alarm_on' = FALSE /\ ALRAF' = FALSE
  /\ UNCHANGED <<now_of_day, irq_masked, clock, target_of_day, tick_pending, hist,
                 s_alarm_fired>>

\* The alarm is off from here on, and what it had pending is gone.
Arm(s) ==
  /\ Goto("awake", "get_time")
  /\ requested' = s
  /\ seconds' = IF s > MAX_SECONDS THEN MAX_SECONDS ELSE s
  /\ alarm_on' = FALSE /\ ALRAF' = FALSE
  /\ s_alarm_fired' = FALSE
  /\ UNCHANGED <<now_of_day, irq_masked, clock, target_of_day, tick_pending, hist>>

GetTime ==
  /\ Goto("get_time", "set_alarm")
  /\ now_of_day' = clock
  /\ h_elapsed' = 0 /\ h_fired' = FALSE
  /\ UNCHANGED <<requested, seconds, irq_masked, rtc, s_alarm_fired, ALRAF, tick_pending>>

SetAlarm ==
  /\ Goto("set_alarm", "logging")
  /\ target_of_day' = (now_of_day + seconds) % Day
  /\ alarm_on' = TRUE
  /\ UNCHANGED <<requested, seconds, now_of_day, irq_masked, clock, s_alarm_fired,
                 ALRAF, tick_pending, hist>>

(* platform_enter_low_power_sleep, after the core has written its log line *)
IrqDisable ==
  /\ Goto("logging", "check")
  /\ irq_masked' = TRUE
  /\ UNCHANGED <<requested, seconds, now_of_day, rtc, hist, s_alarm_fired, ALRAF,
                 tick_pending>>

\* Mutant: Stop mode is entered without asking the latch.
SleepRegardless ==
  /\ Goto("check", "suspend_tick")
  /\ UNCHANGED <<requested, seconds, now_of_day, irq_masked, rtc, hist, s_alarm_fired,
                 ALRAF, tick_pending>>

CheckFired ==
  /\ IF s_alarm_fired
       THEN Goto("check", "awake") /\ irq_masked' = FALSE
       ELSE Goto("check", "suspend_tick") /\ UNCHANGED irq_masked
  /\ UNCHANGED <<requested, seconds, now_of_day, rtc, hist, s_alarm_fired, ALRAF,
                 tick_pending>>

\* HAL_SuspendTick stops further ticks; one that is pending stays pending.
SuspendTick ==
  /\ Goto("suspend_tick", "stop")
  /\ UNCHANGED <<requested, seconds, now_of_day, irq_masked, rtc, hist, s_alarm_fired,
                 ALRAF, tick_pending>>

\* WFI in Stop mode ends on any pending interrupt, masked or not.
LeaveStop ==
  /\ Goto("stop", "awake")
  /\ ALRAF \/ tick_pending
  /\ irq_masked' = FALSE
  /\ UNCHANGED <<requested, seconds, now_of_day, rtc, hist, s_alarm_fired, ALRAF,
                 tick_pending>>

-----------------------------------------------------------------------------
\* The HAL clears ALRAF before it calls the callback that sets the latch.
RTC_IRQHandler ==
  /\ ALRAF /\ ~irq_masked
  /\ ALRAF' = FALSE
  /\ s_alarm_fired' = TRUE
  /\ UNCHANGED <<code, rtc, hist, tick_pending>>

SysTick_Handler ==
  /\ tick_pending /\ ~irq_masked
  /\ tick_pending' = FALSE
  /\ UNCHANGED <<code, rtc, hist, s_alarm_fired, ALRAF>>

SysTickRaised ==
  /\ ~tick_pending
  /\ pc # "stop"
  /\ tick_pending' = TRUE
  /\ UNCHANGED <<code, rtc, hist, s_alarm_fired, ALRAF>>

\* The alarm stays on after a match: it will match again a day later.
ClockTicks ==
  /\ pc = "set_alarm" => h_elapsed < TicksInArm
  /\ clock' = (clock + 1) % Day
  /\ h_elapsed' = IF h_elapsed > Day THEN h_elapsed ELSE h_elapsed + 1
  /\ LET match == alarm_on /\ clock' = target_of_day
     IN  ALRAF' = (ALRAF \/ match) /\ h_fired' = (h_fired \/ match)
  /\ UNCHANGED <<code, alarm_on, target_of_day, s_alarm_fired, tick_pending>>

Next ==
  \/ \E s \in Requests : Arm(s)
  \/ GetTime \/ SetAlarm
  \/ IrqDisable \/ CheckFired \/ SuspendTick \/ LeaveStop
  \/ RTC_IRQHandler \/ SysTick_Handler \/ SysTickRaised
  \/ ClockTicks

Spec == Init /\ [][Next]_vars

-----------------------------------------------------------------------------
TypeOK ==
  /\ pc \in Label
  /\ requested \in Requests \cup {0}
  /\ seconds \in 0 .. MAX_SECONDS
  /\ now_of_day \in 0 .. Day - 1 /\ clock \in 0 .. Day - 1 /\ target_of_day \in 0 .. Day - 1
  /\ h_elapsed \in 0 .. Day + 1
  /\ s_alarm_fired \in BOOLEAN /\ irq_masked \in BOOLEAN /\ alarm_on \in BOOLEAN
  /\ ALRAF \in BOOLEAN /\ tick_pending \in BOOLEAN /\ h_fired \in BOOLEAN

\* The interval the alarm can serve.
Due == IF requested > MAX_SECONDS THEN MAX_SECONDS ELSE requested

\* The alarm matches for the first time exactly when it was asked to, counted
\* from the moment the time was read: never sooner through the wrap at
\* midnight, never a day later (the ceiling comment, lines 106-118).
FiresWhenAsked == [][~h_fired /\ h_fired' => h_elapsed' = Due]_vars

\* The vault is in Stop mode only while its alarm is still to come, within the
\* requested time, or is about to be served: "never longer" (lines 706-711).
AsleepUntilDue == pc = "stop" /\ ~ALRAF => h_elapsed < Due

\* The latch speaks of the alarm that is being waited for, never of the last
\* one: a stale latch would end a sleep before it has begun (lines 336-343).
LatchIsThisAlarms == s_alarm_fired => h_fired

\* platform_enter_low_power_sleep "blocks until the armed wakeup timer fires"
\* (platform.h:69-73): a vault that is awake again has had its alarm.
AwakeOnlyAfterAlarm == pc = "awake" => h_fired
=============================================================================

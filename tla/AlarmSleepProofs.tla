--------------------------- MODULE AlarmSleepProofs ---------------------------
(***************************************************************************)
(* The STM32C011's sleep, for a day of any length, any set of intervals    *)
(* and any delay between reading the time and setting the alarm.           *)
(*                                                                         *)
(* Two layers.  AlarmInv says which alarm the latch and the flag speak of  *)
(* and needs no assumption.  AlarmTimely says where the clock stands with  *)
(* respect to the target; it holds when the time is read and the alarm set *)
(* within less than the interval asked for, which is just what an interval *)
(* of one second does not grant (platform_stm32c011.c:372).                *)
(***************************************************************************)
EXTENDS AlarmSleep, TLAPS

\* A time of day, from seconds since a midnight that is at most a day ago.
Wrap(x) == IF x < Day THEN x ELSE x - Day

\* Times of day, counted on past midnight.
LEMMA ModDay ==
  ASSUME NEW a \in 0 .. Day - 1, NEW b \in 0 .. Day - 1
  PROVE  (a + b) % Day = Wrap(a + b)
  BY AlarmAssumption DEF Wrap

\* One second later the alarm is one second nearer, or a day away.
LEMMA NextSecond ==
  ASSUME NEW c \in 0 .. Day - 1
  PROVE  (c + 1) % Day = Wrap(c + 1)
  BY AlarmAssumption DEF Wrap

-----------------------------------------------------------------------------
Asleep == {"check", "suspend_tick", "stop"}

AlarmInv ==
  /\ TypeOK
  /\ seconds = Due
  /\ irq_masked <=> pc \in Asleep
  /\ s_alarm_fired \/ ALRAF => h_fired
  /\ pc \in {"get_time", "set_alarm"} =>
       requested \in Requests /\ ~alarm_on /\ ~s_alarm_fired /\ ~ALRAF
  /\ pc = "set_alarm" => ~h_fired
  /\ pc \in {"logging"} \cup Asleep => alarm_on
  /\ pc \in {"logging", "check"} => (h_fired => ALRAF \/ s_alarm_fired)
  /\ pc \in {"suspend_tick", "stop"} => (h_fired => ALRAF)

\* The alarm is off at start.
LEMMA AlarmInvInit == Init => AlarmInv
<1>1. 0 \in 0 .. Day - 1 /\ 0 \in 0 .. Day + 1
  BY AlarmAssumption
<1>2. Init => TypeOK
  BY <1>1, AlarmAssumption DEF Init, TypeOK, Label, MAX_SECONDS
<1>3. Init => seconds = Due
  BY AlarmAssumption DEF Init, Due, MAX_SECONDS
<1>. QED
  BY <1>2, <1>3 DEF Init, AlarmInv, Asleep

\* Every step keeps the alarm and its latch with the arming they belong to.
LEMMA AlarmInvInductive == AlarmInv /\ [Next]_vars => AlarmInv'
<1>. SUFFICES ASSUME AlarmInv, [Next]_vars PROVE AlarmInv'
  OBVIOUS
<1>. USE AlarmAssumption
     DEF AlarmInv, TypeOK, Due, Label, Asleep, MAX_SECONDS, Goto, code, rtc, hist
<1>1. CASE \E s \in Requests : Arm(s)
  <2>. PICK s \in Requests : Arm(s)
    BY <1>1
  <2>1. seconds' \in 0 .. Day - 1 /\ seconds' = Due'
    BY DEF Arm
  <2>. QED
    BY <2>1 DEF Arm
<1>2. CASE GetTime
  <2>1. 0 \in 0 .. Day + 1
    OBVIOUS
  <2>. QED
    BY <1>2, <2>1 DEF GetTime
<1>3. CASE SetAlarm
  <2>1. (now_of_day + seconds) % Day \in 0 .. Day - 1
    OBVIOUS
  <2>. QED
    BY <1>3, <2>1 DEF SetAlarm
<1>4. CASE IrqDisable
  BY <1>4 DEF IrqDisable
<1>5. CASE CheckFired
  BY <1>5 DEF CheckFired
<1>6. CASE SuspendTick
  BY <1>6 DEF SuspendTick
<1>7. CASE LeaveStop
  BY <1>7 DEF LeaveStop
<1>8. CASE RTC_IRQHandler
  BY <1>8 DEF RTC_IRQHandler
<1>9. CASE SysTick_Handler \/ SysTickRaised
  <2>1. CASE SysTick_Handler
    BY <2>1 DEF SysTick_Handler
  <2>2. CASE SysTickRaised
    BY <2>2 DEF SysTickRaised
  <2>. QED
    BY <1>9, <2>1, <2>2
<1>10. CASE ClockTicks
  <2>1. clock' \in 0 .. Day - 1 /\ h_elapsed' \in 0 .. Day + 1
    BY <1>10 DEF ClockTicks
  <2>2. ALRAF' \in BOOLEAN /\ h_fired' \in BOOLEAN
    BY <1>10, Zenon DEF ClockTicks
  <2>3. /\ ALRAF => ALRAF'
        /\ h_fired' => h_fired \/ ALRAF'
        /\ ALRAF' \/ h_fired => h_fired'
        /\ ~alarm_on => ALRAF' = ALRAF /\ h_fired' = h_fired
    BY <1>10, Zenon DEF ClockTicks
  <2>4. UNCHANGED <<code, alarm_on, target_of_day, s_alarm_fired, tick_pending>>
    BY <1>10 DEF ClockTicks
  <2>5. TypeOK'
    BY <2>1, <2>2, <2>4
  <2>6. seconds' = Due'
    BY <2>4
  <2>. QED
    BY <2>3, <2>4, <2>5, <2>6
<1>11. CASE UNCHANGED vars
  BY <1>11 DEF vars
<1>. QED
  BY <1>1, <1>2, <1>3, <1>4, <1>5, <1>6, <1>7, <1>8, <1>9, <1>10, <1>11 DEF Next

\* So it is in every reachable state.
LEMMA AlarmInvHolds == Spec => []AlarmInv
  BY AlarmInvInit, AlarmInvInductive, PTL DEF Spec

\* The latch speaks of the alarm that is being waited for, whatever the length
\* of the day, the intervals and the pace of the clock: arming switches the old
\* alarm off before it clears the latch, so that the old one cannot set it again.
THEOREM AlarmLatchSafe == Spec => [](TypeOK /\ LatchIsThisAlarms)
<1>1. AlarmInv => TypeOK /\ LatchIsThisAlarms
  BY DEF AlarmInv, LatchIsThisAlarms
<1>. QED
  BY <1>1, AlarmInvHolds, PTL

-----------------------------------------------------------------------------
\* The alarm is set before the interval has passed.
Unhurried ==
  /\ \A s \in Requests : TicksInArm < s
  /\ TicksInArm < MAX_SECONDS

\* The clock is ahead of the time that was read by the seconds since then, and
\* an alarm that is still to come is as far ahead as it was asked to be.
AlarmTimely ==
  /\ pc = "set_alarm" => h_elapsed <= TicksInArm
  /\ pc = "set_alarm" \/ (alarm_on /\ ~h_fired) =>
       /\ h_elapsed < Due
       /\ clock = Wrap(now_of_day + h_elapsed)
  /\ alarm_on /\ ~h_fired => target_of_day = Wrap(now_of_day + seconds)

\* The only step that moves the clock: the alarm matches exactly when due.
LEMMA ClockMeetsTarget ==
  ASSUME AlarmInv, AlarmTimely, ClockTicks
  PROVE  /\ ~h_fired /\ h_fired' => h_elapsed' = Due
         /\ alarm_on /\ ~h_fired' =>
              h_elapsed' < Due /\ clock' = Wrap(now_of_day + h_elapsed')
<1>1. clock' = Wrap(clock + 1)
  BY NextSecond DEF AlarmInv, TypeOK, ClockTicks
<1>2. /\ h_fired' <=> h_fired \/ (alarm_on /\ clock' = target_of_day)
      /\ h_fired' \in BOOLEAN
  BY Zenon DEF ClockTicks, AlarmInv, TypeOK
<1>3. h_elapsed' = IF h_elapsed > Day THEN h_elapsed ELSE h_elapsed + 1
  BY DEF ClockTicks
<1>4. CASE alarm_on /\ ~h_fired
  <2>1. /\ h_elapsed < seconds
        /\ clock = Wrap(now_of_day + h_elapsed)
        /\ target_of_day = Wrap(now_of_day + seconds)
    BY <1>4 DEF AlarmTimely, AlarmInv
  <2>2. h_elapsed' = h_elapsed + 1 /\ clock' = Wrap(now_of_day + h_elapsed')
    BY <2>1, <1>1, <1>3, AlarmAssumption DEF AlarmInv, TypeOK, MAX_SECONDS, Wrap
  <2>3. clock' = target_of_day <=> h_elapsed' = seconds
    BY <2>1, <2>2, AlarmAssumption DEF AlarmInv, TypeOK, MAX_SECONDS, Wrap
  <2>4. h_elapsed' <= seconds /\ seconds = Due
    BY <2>1, <2>2, AlarmAssumption DEF AlarmInv, TypeOK, MAX_SECONDS
  <2>5. h_elapsed' = seconds \/ h_elapsed' < seconds
    BY <2>1, <2>2, AlarmAssumption DEF AlarmInv, TypeOK, MAX_SECONDS
  <2>. QED
    BY <1>2, <1>4, <2>2, <2>3, <2>4, <2>5
<1>5. CASE ~alarm_on \/ h_fired
  BY <1>2, <1>5
<1>. QED
  BY <1>4, <1>5

\* Every step of an unhurried day keeps the target ahead of the clock.
LEMMA AlarmTimelyInductive ==
  ASSUME Unhurried
  PROVE  AlarmInv /\ AlarmTimely /\ [Next]_vars => AlarmTimely'
<1>. SUFFICES ASSUME AlarmInv, AlarmTimely, [Next]_vars PROVE AlarmTimely'
  OBVIOUS
<1>. USE AlarmAssumption DEF AlarmTimely, Goto, code, rtc, hist
<1>1. CASE \E s \in Requests : Arm(s)
  BY <1>1 DEF Arm
<1>2. CASE GetTime
  <2>1. 0 < Due /\ Due' = Due
    BY <1>2 DEF GetTime, AlarmInv, Unhurried, Due, MAX_SECONDS
  <2>2. now_of_day' = clock /\ clock' = clock /\ clock = Wrap(clock + 0)
    BY <1>2 DEF GetTime, AlarmInv, TypeOK, Wrap
  <2>3. pc' = "set_alarm" /\ h_elapsed' = 0 /\ ~alarm_on'
    BY <1>2 DEF GetTime, AlarmInv
  <2>. QED
    BY <2>1, <2>2, <2>3
<1>3. CASE SetAlarm
  <2>1. target_of_day' = Wrap(now_of_day + seconds)
    BY <1>3, ModDay DEF SetAlarm, AlarmInv, TypeOK, MAX_SECONDS
  <2>. QED
    BY <1>3, <2>1 DEF SetAlarm, AlarmInv, Due
<1>4. CASE ClockTicks
  <2>1. Due' = Due /\ UNCHANGED <<code, alarm_on, target_of_day>>
    BY <1>4 DEF ClockTicks, Due
  <2>2. CASE pc = "set_alarm"
    <3>1. h_elapsed' = h_elapsed + 1 /\ h_elapsed < TicksInArm
      BY <1>4, <2>2 DEF ClockTicks, AlarmInv, TypeOK, Unhurried, MAX_SECONDS
    <3>2. TicksInArm < Due
      BY <2>2 DEF AlarmInv, TypeOK, Unhurried, Due, MAX_SECONDS
    <3>3. clock' = Wrap(clock + 1)
      BY <1>4, NextSecond DEF ClockTicks, AlarmInv, TypeOK
    <3>4. clock' = Wrap(now_of_day + h_elapsed')
      BY <2>2, <3>1, <3>2, <3>3 DEF AlarmInv, TypeOK, Due, MAX_SECONDS, Wrap
    <3>5. h_elapsed' <= TicksInArm /\ h_elapsed' < Due
      BY <3>1, <3>2 DEF AlarmInv, TypeOK, Due, MAX_SECONDS
    <3>6. ~alarm_on
      BY <2>2 DEF AlarmInv
    <3>. QED
      BY <2>1, <3>4, <3>5, <3>6
  <2>3. CASE pc # "set_alarm"
    <3>1. h_fired => h_fired'
      BY <1>4, Zenon DEF ClockTicks
    <3>. QED
      BY <1>4, <2>1, <2>3, <3>1, ClockMeetsTarget
  <2>. QED
    BY <2>2, <2>3
<1>5. CASE \/ IrqDisable \/ CheckFired \/ SuspendTick \/ LeaveStop
           \/ RTC_IRQHandler \/ SysTick_Handler \/ SysTickRaised
  BY <1>5 DEF IrqDisable, CheckFired, SuspendTick, LeaveStop, RTC_IRQHandler,
              SysTick_Handler, SysTickRaised, Due
<1>6. CASE UNCHANGED vars
  BY <1>6 DEF vars, Due
<1>. QED
  BY <1>1, <1>2, <1>3, <1>4, <1>5, <1>6 DEF Next

\* So it is in every reachable state.
LEMMA AlarmTimelyHolds ==
  ASSUME Unhurried
  PROVE  Spec => [](AlarmInv /\ AlarmTimely)
<1>1. Init => AlarmTimely
  BY DEF Init, AlarmTimely
<1>2. AlarmInv /\ AlarmTimely /\ [Next]_vars => AlarmTimely'
  BY AlarmTimelyInductive
<1>. QED
  BY <1>1, <1>2, AlarmInvInit, AlarmInvInductive, PTL DEF Spec

\* While the vault is in Stop mode its alarm is still to come, within the
\* interval asked for, or pending: no sleep is a day too long.
THEOREM AlarmSleepsWithinDue ==
  ASSUME Unhurried
  PROVE  Spec => []AsleepUntilDue
<1>1. AlarmInv /\ AlarmTimely => AsleepUntilDue
  BY DEF AlarmInv, AlarmTimely, AsleepUntilDue, Asleep
<1>. QED
  BY <1>1, AlarmTimelyHolds, PTL

\* The alarm matches for the first time exactly when it was asked to, on any
\* day and through midnight.
THEOREM AlarmFiresOnTime ==
  ASSUME Unhurried
  PROVE  Spec => FiresWhenAsked
<1>. DEFINE Step == ~h_fired /\ h_fired' => h_elapsed' = Due
<1>1. AlarmInv /\ AlarmTimely /\ [Next]_vars => [Step]_vars
  <2>. SUFFICES ASSUME AlarmInv, AlarmTimely, Next PROVE Step
    OBVIOUS
  <2>1. CASE ClockTicks
    BY <2>1, ClockMeetsTarget
  <2>2. CASE ~ClockTicks
    BY <2>2 DEF Next, Arm, GetTime, SetAlarm, IrqDisable, CheckFired, SuspendTick,
                LeaveStop, RTC_IRQHandler, SysTick_Handler, SysTickRaised, hist
  <2>. QED
    BY <2>1, <2>2
<1>. QED
  BY <1>1, AlarmTimelyHolds, PTL DEF Spec, FiresWhenAsked
=============================================================================

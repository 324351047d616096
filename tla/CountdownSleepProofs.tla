------------------------- MODULE CountdownSleepProofs -------------------------
(***************************************************************************)
(* The three counting timers, for any rate, register width, ceiling and    *)
(* set of intervals.                                                       *)
(*                                                                         *)
(* CountdownInv needs no assumption.  CountsDown follows the counter from  *)
(* arming to the end of the sleep; it holds for intervals that the timer   *)
(* can serve (Fits), which is what the backends without a clamp leave to   *)
(* their caller, and for a log line that is shorter than the interval.     *)
(***************************************************************************)
EXTENDS CountdownSleep, TLAPS

\* What the counter is loaded with for s seconds, if nothing is cut off.
Load(b, s) ==
  IF b.name = "stm32u031"
    THEN s + 1
    ELSE b.rate * (IF s > b.ceiling THEN b.ceiling ELSE s)

Fits ==
  \A b \in Backends :
    /\ b.name = "stm32u031" => b.rate = 1
    /\ \A s \in b.requests :
         /\ b.name = "efm32g210" \/ s <= b.ceiling
         /\ LogTicks[b.name] < Load(b, s)
         /\ Load(b, s) <= Horizon

-----------------------------------------------------------------------------
(* Arithmetic of the three ways to load the counter. *)
LEMMA ProductMonotone ==
  ASSUME NEW m \in Nat, NEW n \in Nat, m <= n, NEW k \in Nat
  PROVE  k * m \in Nat /\ k * m <= k * n
<1>1. PICK d \in Nat : n = m + d
  <2>. n - m \in Nat /\ n = m + (n - m)
    OBVIOUS
  <2>. QED
    OBVIOUS
<1>2. k * n = k * m + k * d /\ k * d \in Nat /\ k * m \in Nat
  BY <1>1
<1>. QED
  BY <1>2

\* What a backend's record holds.
LEMMA BackendTypes ==
  ASSUME NEW b \in Backends
  PROVE  /\ b.name \in {"lpc810", "stm32u031", "efm32g210"}
         /\ b.rate \in Nat \ {0} /\ b.size \in Nat \ {0} /\ b.ceiling \in Nat
         /\ b.ceiling * b.rate \in Nat
         /\ b.ceiling * b.rate < b.size
         /\ b.requests \subseteq Nat \ {0}
         /\ LogTicks[b.name] \in Nat
  BY CountdownAssumption

\* A clamped interval fits the register.
LEMMA ClampFits ==
  ASSUME NEW b \in Backends, NEW s \in b.requests
  PROVE  LET ticks == b.rate * (IF s > b.ceiling THEN b.ceiling ELSE s)
         IN  ticks \in Nat /\ ticks < b.size
<1>. DEFINE c == IF s > b.ceiling THEN b.ceiling ELSE s
<1>1. /\ b.rate \in Nat /\ b.size \in Nat /\ b.ceiling \in Nat /\ s \in Nat
      /\ b.ceiling * b.rate < b.size
  BY BackendTypes
<1>2. c \in Nat /\ c <= b.ceiling
  BY <1>1
<1>. HIDE DEF c
<1>3. b.rate * c \in Nat /\ b.rate * c <= b.rate * b.ceiling
  BY <1>1, <1>2, ProductMonotone
<1>4. b.rate * b.ceiling = b.ceiling * b.rate /\ b.rate * b.ceiling \in Nat
  BY <1>1
<1>5. b.rate * c < b.size
  BY <1>1, <1>3, <1>4
<1>. QED
  BY <1>3, <1>5 DEF c

\* What is loaded stays within the register, cut off or not.
LEMMA LoadsFit ==
  ASSUME NEW b \in Backends, NEW s \in b.requests
  PROVE  /\ (s * b.rate) % b.size \in 0 .. b.size
         /\ (s % b.size) + 1 \in 0 .. b.size
         /\ LET COMP0 == b.rate * (IF s > b.ceiling THEN b.ceiling ELSE s)
            IN  COMP0 \in 0 .. b.size /\ COMP0 + 1 \in 0 .. b.size
<1>1. b.rate \in Nat /\ b.size \in Nat \ {0} /\ s \in Nat /\ s * b.rate \in Nat
  BY BackendTypes
<1>2. (s * b.rate) % b.size \in 0 .. b.size - 1
  BY <1>1
<1>3. s % b.size \in 0 .. b.size - 1
  BY <1>1
<1>4. (s * b.rate) % b.size \in 0 .. b.size /\ (s % b.size) + 1 \in 0 .. b.size
  BY <1>1, <1>2, <1>3
<1>. QED
  BY <1>1, <1>4, ClampFits

-----------------------------------------------------------------------------
CountdownInv ==
  /\ TypeOK
  /\ WaitsLightly
  /\ alarm_a => pc = "platform_init" /\ backend.name = "stm32u031"
  /\ pc = "deep_wfi" => ~systick
  /\ pc \in {"logging", "deep_wfi"} => requested \in backend.requests

\* Before set-up nothing counts.
LEMMA CountdownInvInit == Init => CountdownInv
<1>. SUFFICES ASSUME Init PROVE CountdownInv
  OBVIOUS
<1>1. backend.size \in Nat /\ Horizon \in Nat
  BY BackendTypes, CountdownAssumption DEF Init
<1>2. 0 \in 0 .. backend.size /\ 0 \in 0 .. Horizon
  BY <1>1
<1>3. TypeOK
  <2>1. alarm_a \in BOOLEAN /\ (alarm_a => backend.name = "stm32u031")
    BY DEF Init
  <2>. QED
    BY <1>2, <2>1 DEF Init, TypeOK, Label, HasSysTick
<1>. QED
  BY <1>3 DEF Init, CountdownInv, WaitsLightly

\* Arming loads a counter that fits its register.
LEMMA ArmKeepsInv ==
  ASSUME CountdownInv, NEW s \in backend.requests,
         NEW ticks \in 0 .. backend.size, NEW again \in 0 .. backend.size,
         Arm(s, ticks, again)
  PROVE  CountdownInv'
<1>1. 0 \in 0 .. Horizon
  BY CountdownAssumption
<1>. QED
  BY <1>1 DEF Arm, Goto, CountdownInv, TypeOK, WaitsLightly, Label, cpu, setup

\* One tick of the timer's clock.
LEMMA TickTypes ==
  ASSUME CountdownInv, Tick
  PROVE  /\ h_elapsed' \in 0 .. Horizon
         /\ count' \in 0 .. backend.size
         /\ fired' \in BOOLEAN
<1>1. backend.size \in Nat /\ Horizon \in Nat
  BY BackendTypes, CountdownAssumption DEF CountdownInv, TypeOK
<1>2. h_elapsed' \in 0 .. Horizon
  BY <1>1 DEF Tick, CountdownInv, TypeOK
<1>3. count' \in 0 .. backend.size
  BY <1>1 DEF Tick, CountdownInv, TypeOK
<1>4. fired' \in BOOLEAN
  BY Zenon DEF Tick
<1>. QED
  BY <1>2, <1>3, <1>4

\* Every step keeps the deep-sleep bit and the interrupts with the place in the cycle.
LEMMA CountdownInvInductive == CountdownInv /\ [Next]_vars => CountdownInv'
<1>. SUFFICES ASSUME CountdownInv, [Next]_vars PROVE CountdownInv'
  OBVIOUS
<1>0. backend \in Backends
  BY DEF CountdownInv, TypeOK
<1>. USE DEF Goto, cpu, setup, timer
<1>1. CASE lpc810_timer_init \/ rtc_init \/ efm32g210_rtc_init
  <2>1. alarm_a' \in BOOLEAN /\ ~alarm_a'
    <3>1. CASE rtc_init
      BY <3>1 DEF rtc_init, Ready
    <3>2. CASE lpc810_timer_init \/ efm32g210_rtc_init
      <4>1. backend.name # "stm32u031" /\ alarm_a' = alarm_a
        BY <3>2 DEF lpc810_timer_init, efm32g210_rtc_init, Ready
      <4>. QED
        BY <4>1 DEF CountdownInv, TypeOK
    <3>. QED
      BY <1>1, <3>1, <3>2
  <2>2. /\ pc' = "wake_main" /\ wakes' = TRUE
        /\ UNCHANGED <<backend, cpu, timer, fired, requested, h_elapsed>>
    BY <1>1 DEF lpc810_timer_init, rtc_init, efm32g210_rtc_init, Ready
  <2>. QED
    BY <2>1, <2>2 DEF CountdownInv, TypeOK, WaitsLightly, Label
<1>2. CASE \E s \in backend.requests : Lpc810Arm(s) \/ Stm32u031Arm(s) \/ Efm32g210Arm(s)
  <2>. PICK s \in backend.requests : Lpc810Arm(s) \/ Stm32u031Arm(s) \/ Efm32g210Arm(s)
    BY <1>2
  <2>1. backend.size \in Nat /\ 0 \in 0 .. backend.size
    BY <1>0, BackendTypes
  <2>2. CASE Lpc810Arm(s)
    BY <1>0, <2>1, <2>2, LoadsFit, ArmKeepsInv DEF Lpc810Arm
  <2>3. CASE Stm32u031Arm(s)
    BY <1>0, <2>3, LoadsFit, ArmKeepsInv DEF Stm32u031Arm
  <2>4. CASE Efm32g210Arm(s)
    BY <1>0, <2>4, LoadsFit, ArmKeepsInv DEF Efm32g210Arm
  <2>. QED
    BY <2>2, <2>3, <2>4
<1>3. CASE Lpc810EnterSleep \/ Stm32u031EnterSleep \/ Efm32g210EnterSleep
  <2>1. Sleep(FALSE)
    BY <1>3 DEF Lpc810EnterSleep, Stm32u031EnterSleep, Efm32g210EnterSleep
  <2>. QED
    BY <2>1 DEF Sleep, CountdownInv, TypeOK, WaitsLightly, Label
<1>4. CASE WaitForInterrupt \/ I2cWakes
  <2>1. CASE WaitForInterrupt
    BY <2>1 DEF WaitForInterrupt, CountdownInv, TypeOK, WaitsLightly, Label
  <2>2. CASE I2cWakes
    BY <2>2 DEF I2cWakes, CountdownInv, TypeOK, WaitsLightly, Label
  <2>. QED
    BY <1>4, <2>1, <2>2
<1>5. CASE TimerInterrupt
  BY <1>5 DEF TimerInterrupt, Awake, HasSysTick, CountdownInv, TypeOK, WaitsLightly, Label
<1>6. CASE OtherInterrupt
  BY <1>6 DEF OtherInterrupt, Awake, HasSysTick, CountdownInv, TypeOK, WaitsLightly, Label
<1>7. CASE Tick
  <2>1. UNCHANGED <<backend, pc, cpu, setup, reload, requested>>
    BY <1>7 DEF Tick
  <2>. QED
    BY <1>7, <2>1, TickTypes DEF CountdownInv, TypeOK, WaitsLightly
<1>8. CASE UNCHANGED vars
  BY <1>8 DEF vars, CountdownInv, TypeOK, WaitsLightly
<1>. QED
  BY <1>1, <1>2, <1>3, <1>4, <1>5, <1>6, <1>7, <1>8 DEF Next

\* So it is in every reachable state.
LEMMA CountdownInvHolds == Spec => []CountdownInv
  BY CountdownInvInit, CountdownInvInductive, PTL DEF Spec

\* Types, widths of the registers included, whatever interval is asked for; and
\* the wait for the main MCU is never a deep sleep in which the bus is dead,
\* although every sleep leaves SLEEPDEEP set.
THEOREM CountdownSafe == Spec => [](TypeOK /\ WaitsLightly)
<1>1. CountdownInv => TypeOK /\ WaitsLightly
  BY DEF CountdownInv
<1>. QED
  BY <1>1, CountdownInvHolds, PTL

-----------------------------------------------------------------------------
\* From arming to the end of the sleep the ticks that have passed and those to
\* come are what was loaded, and nothing but the timer can end the sleep.
CountsDown ==
  pc \in {"logging", "deep_wfi"} =>
    /\ fired => pc = "deep_wfi" /\ h_elapsed >= Load(backend, requested)
    /\ ~fired => count > 0 /\ h_elapsed + count = Load(backend, requested)
    /\ pc = "logging" => h_elapsed <= LogTicks[backend.name]

\* What Fits gives for one interval.
LEMMA LoadServes ==
  ASSUME Fits, NEW b \in Backends, NEW s \in b.requests
  PROVE  /\ Load(b, s) \in Nat /\ Load(b, s) > 0 /\ Load(b, s) <= Horizon
         /\ LogTicks[b.name] < Load(b, s)
         /\ b.rate * (IF s > b.ceiling THEN b.ceiling ELSE s) <= Load(b, s)
         /\ Load(b, s) <= s * b.rate + 1
<1>1. /\ b.rate \in Nat /\ b.size \in Nat /\ b.ceiling \in Nat /\ s \in Nat
      /\ LogTicks[b.name] \in Nat
  BY BackendTypes
<1>2. LogTicks[b.name] < Load(b, s) /\ Load(b, s) <= Horizon
  BY DEF Fits
<1>3. CASE b.name = "stm32u031"
  <2>1. b.rate = 1 /\ s <= b.ceiling /\ Load(b, s) = s + 1
    BY <1>3 DEF Fits, Load
  <2>. QED
    BY <1>1, <1>2, <2>1
<1>4. CASE b.name # "stm32u031"
  <2>. DEFINE c == IF s > b.ceiling THEN b.ceiling ELSE s
  <2>1. Load(b, s) = b.rate * c
    BY <1>4 DEF Load
  <2>2. c \in Nat /\ c <= s
    BY <1>1
  <2>. HIDE DEF c
  <2>3. b.rate * c \in Nat /\ b.rate * c <= b.rate * s /\ b.rate * s \in Nat
    BY <1>1, <2>2, ProductMonotone
  <2>4. b.rate * s = s * b.rate
    BY <1>1
  <2>5. /\ Load(b, s) \in Nat /\ Load(b, s) > 0
        /\ Load(b, s) <= s * b.rate + 1
        /\ b.rate * c <= Load(b, s)
    BY <1>1, <1>2, <2>1, <2>3, <2>4
  <2>. QED
    BY <1>2, <2>5 DEF c
<1>. QED
  BY <1>3, <1>4

\* None of the three registers cuts off an interval that fits.
LEMMA NothingCutOff ==
  ASSUME Fits, NEW b \in Backends, NEW s \in b.requests
  PROVE  /\ b.name = "lpc810" => (s * b.rate) % b.size = Load(b, s)
         /\ b.name = "stm32u031" => (s % b.size) + 1 = Load(b, s)
<1>1. /\ b.rate \in Nat /\ b.size \in Nat \ {0} /\ b.ceiling \in Nat /\ s \in Nat
      /\ b.ceiling * b.rate < b.size
  BY BackendTypes
<1>2. ASSUME NEW x \in Nat, x < b.size PROVE x % b.size = x
  BY <1>1, <1>2
<1>3. CASE b.name = "lpc810"
  <2>1. Load(b, s) = b.rate * s
    BY <1>1, <1>3 DEF Load, Fits
  <2>2. Load(b, s) < b.size /\ Load(b, s) \in Nat
    BY <1>3, ClampFits DEF Load
  <2>3. s * b.rate = b.rate * s
    BY <1>1
  <2>. QED
    BY <1>2, <1>3, <2>1, <2>2, <2>3
<1>4. CASE b.name = "stm32u031"
  <2>1. b.rate = 1 /\ s <= b.ceiling /\ Load(b, s) = s + 1
    BY <1>4 DEF Fits, Load
  <2>2. s < b.size
    BY <1>1, <2>1
  <2>. QED
    BY <1>1, <1>2, <1>4, <2>1, <2>2
<1>. QED
  BY <1>3, <1>4

\* Every step keeps the counter's distance to the time asked for.
LEMMA CountsDownInductive ==
  ASSUME Fits
  PROVE  CountdownInv /\ CountsDown /\ [Next]_vars => CountsDown'
<1>. SUFFICES ASSUME CountdownInv, CountsDown, [Next]_vars PROVE CountsDown'
  OBVIOUS
<1>0. /\ backend \in Backends /\ backend' = backend
      /\ LogTicks[backend.name] \in Nat
  <2>1. backend \in Backends
    BY DEF CountdownInv, TypeOK
  <2>2. backend' = backend
    BY DEF Next, vars, lpc810_timer_init, rtc_init, efm32g210_rtc_init, Ready, Lpc810Arm,
           Stm32u031Arm, Efm32g210Arm, Arm, Lpc810EnterSleep, Stm32u031EnterSleep,
           Efm32g210EnterSleep, Sleep, WaitForInterrupt, I2cWakes, TimerInterrupt,
           OtherInterrupt, Tick, Goto
  <2>. QED
    BY <2>1, <2>2, BackendTypes
<1>. USE DEF CountsDown, Goto, cpu, setup, timer
<1>1. CASE lpc810_timer_init \/ rtc_init \/ efm32g210_rtc_init
  BY <1>1 DEF lpc810_timer_init, rtc_init, efm32g210_rtc_init, Ready
<1>2. CASE \E s \in backend.requests : Lpc810Arm(s) \/ Stm32u031Arm(s) \/ Efm32g210Arm(s)
  <2>. PICK s \in backend.requests : Lpc810Arm(s) \/ Stm32u031Arm(s) \/ Efm32g210Arm(s)
    BY <1>2
  <2>1. \E again : Arm(s, Load(backend, s), again)
    <3>1. CASE Lpc810Arm(s)
      BY <1>0, <3>1, NothingCutOff DEF Lpc810Arm
    <3>2. CASE Stm32u031Arm(s)
      BY <1>0, <3>2, NothingCutOff DEF Stm32u031Arm
    <3>3. CASE Efm32g210Arm(s)
      BY <3>3 DEF Efm32g210Arm, Load
    <3>. QED
      BY <3>1, <3>2, <3>3
  <2>2. /\ pc' = "logging" /\ count' = Load(backend, s) /\ requested' = s
        /\ h_elapsed' = 0 /\ ~fired'
    BY <2>1 DEF Arm
  <2>3. Load(backend, s) \in Nat /\ Load(backend, s) > 0
    BY <1>0, LoadServes
  <2>. QED
    BY <1>0, <2>2, <2>3
<1>3. CASE Lpc810EnterSleep \/ Stm32u031EnterSleep \/ Efm32g210EnterSleep
  BY <1>0, <1>3 DEF Lpc810EnterSleep, Stm32u031EnterSleep, Efm32g210EnterSleep, Sleep
<1>4. CASE WaitForInterrupt \/ I2cWakes
  BY <1>4 DEF WaitForInterrupt, I2cWakes
<1>5. CASE TimerInterrupt
  <2>1. pc' \notin {"logging", "deep_wfi"}
    BY <1>5 DEF TimerInterrupt, Awake, Served
  <2>. QED
    BY <2>1
<1>6. CASE OtherInterrupt
  BY <1>6 DEF OtherInterrupt, Awake
<1>7. CASE Tick /\ pc \in {"logging", "deep_wfi"}
  <2>. DEFINE load == Load(backend, requested)
  <2>1. /\ load \in Nat /\ load <= Horizon /\ LogTicks[backend.name] < load
    BY <1>0, <1>7, LoadServes DEF CountdownInv
  <2>2. /\ load' = load
        /\ pc' = pc
        /\ pc = "logging" => h_elapsed < LogTicks[backend.name]
        /\ h_elapsed' = IF h_elapsed < Horizon THEN h_elapsed + 1 ELSE h_elapsed
    BY <1>0, <1>7 DEF Tick
  <2>3. h_elapsed \in Nat /\ count \in Nat /\ Horizon \in Nat
    BY <1>0, BackendTypes, CountdownAssumption DEF CountdownInv, TypeOK
  <2>. HIDE DEF load
  <2>4. CASE fired
    <3>1. fired' /\ pc' = "deep_wfi" /\ h_elapsed >= load
      BY <1>7, <2>2, <2>4 DEF Tick, load
    <3>2. h_elapsed' >= load
      BY <2>1, <2>2, <2>3, <3>1
    <3>. QED
      BY <2>2, <3>1, <3>2 DEF load
  <2>5. CASE ~fired
    <3>1. count > 0 /\ h_elapsed + count = load
      BY <1>7, <2>5 DEF load
    <3>2. h_elapsed' = h_elapsed + 1
      BY <2>1, <2>2, <2>3, <3>1
    <3>3. CASE count = 1
      <4>1. fired'
        BY <1>7, <3>3 DEF Tick
      <4>2. h_elapsed' = load
        BY <2>1, <2>3, <3>1, <3>2, <3>3
      <4>3. pc' = "deep_wfi"
        BY <1>0, <1>7, <2>1, <2>2, <2>3, <3>2, <4>2
      <4>. QED
        BY <2>1, <2>2, <4>1, <4>2, <4>3 DEF load
    <3>4. CASE count # 1
      <4>1. ~fired'
        BY <1>7, <2>5, <3>4 DEF Tick
      <4>2. count' = count - 1
        BY <1>7, <2>3, <3>1, <3>4 DEF Tick
      <4>3. count' > 0 /\ h_elapsed' + count' = load
        BY <2>1, <2>3, <3>1, <3>2, <3>4, <4>2
      <4>4. pc' = "logging" => h_elapsed' <= LogTicks[backend.name]
        BY <1>0, <2>2, <2>3, <3>2
      <4>. QED
        BY <1>0, <2>2, <4>1, <4>3, <4>4 DEF load
    <3>. QED
      BY <3>3, <3>4
  <2>. QED
    BY <2>4, <2>5
<1>8. CASE Tick /\ pc \notin {"logging", "deep_wfi"}
  BY <1>8 DEF Tick
<1>9. CASE UNCHANGED vars
  BY <1>9 DEF vars
<1>. QED
  BY <1>1, <1>2, <1>3, <1>4, <1>5, <1>6, <1>7, <1>8, <1>9 DEF Next

\* So it is in every reachable state.
LEMMA CountsDownHolds ==
  ASSUME Fits
  PROVE  Spec => [](CountdownInv /\ CountsDown)
<1>1. Init => CountsDown
  BY DEF Init, CountsDown
<1>2. CountdownInv /\ CountsDown /\ [Next]_vars => CountsDown'
  BY CountsDownInductive
<1>. QED
  BY <1>1, <1>2, CountdownInvInit, CountdownInvInductive, PTL DEF Spec

\* While the vault is asleep its timer will still fire, within the interval and
\* a tick, although no backend asks before the WFI whether it has fired already.
THEOREM CountdownSleepsWithinDue ==
  ASSUME Fits
  PROVE  Spec => []AsleepUntilDue
<1>1. CountdownInv /\ CountsDown => AsleepUntilDue
  <2>. SUFFICES ASSUME CountdownInv, CountsDown, pc = "deep_wfi", ~fired
                PROVE  count > 0 /\ h_elapsed + count <= requested * backend.rate + 1
    BY DEF AsleepUntilDue
  <2>1. backend \in Backends /\ requested \in backend.requests
    BY DEF CountdownInv, TypeOK
  <2>2. Load(backend, requested) <= requested * backend.rate + 1
    BY <2>1, LoadServes
  <2>. QED
    BY <2>2 DEF CountsDown
<1>. QED
  BY <1>1, CountsDownHolds, PTL

\* No sleep ends before the interval has passed, or the longest one the timer
\* can serve.
THEOREM CountdownSleepsLongEnough ==
  ASSUME Fits
  PROVE  Spec => SleepsAsLongAsAsked
<1>. DEFINE Ends == pc = "deep_wfi" /\ pc' # pc => h_elapsed >= backend.rate * Due
<1>1. CountdownInv /\ CountsDown /\ [Next]_vars => [Ends]_vars
  <2>. SUFFICES ASSUME CountdownInv, CountsDown, Next, pc = "deep_wfi", pc' # pc
                PROVE  h_elapsed >= backend.rate * Due
    OBVIOUS
  <2>1. backend \in Backends /\ requested \in backend.requests /\ h_elapsed \in Nat
    BY CountdownAssumption DEF CountdownInv, TypeOK
  <2>2. fired
    BY DEF CountdownInv, Next, lpc810_timer_init, rtc_init, efm32g210_rtc_init, Ready,
           Lpc810Arm, Stm32u031Arm, Efm32g210Arm, Arm, Lpc810EnterSleep,
           Stm32u031EnterSleep, Efm32g210EnterSleep, Sleep, WaitForInterrupt, I2cWakes,
           TimerInterrupt, OtherInterrupt, Tick, Goto, Served
  <2>3. h_elapsed >= Load(backend, requested)
    BY <2>2 DEF CountsDown
  <2>4. backend.rate * Due <= Load(backend, requested) /\ Load(backend, requested) \in Nat
    BY <2>1, LoadServes DEF Due
  <2>5. backend.rate \in Nat /\ Due \in Nat /\ backend.rate * Due \in Nat
    BY <2>1, BackendTypes DEF Due
  <2>. QED
    BY <2>1, <2>3, <2>4, <2>5
<1>. QED
  BY <1>1, CountsDownHolds, PTL DEF Spec, SleepsAsLongAsAsked
===============================================================================

--------------------------- MODULE CountdownSleep ---------------------------
(***************************************************************************)
(* Arming, sleeping and waking on the three backends whose wake timer      *)
(* counts: LPC810 (WKT, one shot), STM32U031 (RTC wake-up timer, reloads)  *)
(* and EFM32G210 (RTC COMP0, reloads).  A behaviour is one of the three.   *)
(*                                                                         *)
(* Time passes in ticks of the timer's own clock.  All three enter a deep  *)
(* sleep with SLEEPDEEP set, and none clears it afterwards: the same bit   *)
(* decides how deep the WFI of the next I2C wait is.  On the STM32U031     *)
(* SysTick interrupts every millisecond and would end any sleep.           *)
(***************************************************************************)
EXTENDS Integers

CONSTANTS
  Backends,    \* [name, rate, size, ceiling, requests], see CountdownAssumption
  LogTicks,    \* bound on the ticks between arming and sleeping, by name
  Horizon      \* bound on the ticks that are counted for the properties

\* rate is ticks per second (10000, 1, 1024), size the number of values the
\* timer's register holds (2^32, 2^16, 2^24), ceiling the longest interval it
\* can serve in seconds, requests what platform_wakeup_timer_arm is called with.
ASSUME CountdownAssumption ==
  /\ \A b \in Backends :
       /\ b.name \in {"lpc810", "stm32u031", "efm32g210"}
       /\ b.rate \in Nat \ {0} /\ b.size \in Nat \ {0}
       /\ b.ceiling \in Nat /\ b.ceiling * b.rate < b.size
       /\ b.requests \subseteq Nat \ {0}
       /\ LogTicks[b.name] \in Nat
  /\ Horizon \in Nat

VARIABLES
  backend,    \* the backend this build is for: never changes
  pc,         \* "wake_main" is all of the cycle but the two waits and the arming
  sleepdeep,  \* SCB->SCR bit 2
  systick,    \* SysTick's interrupt is enabled
  wakes,      \* the timer's interrupt is enabled, in deep sleep too
  alarm_a,    \* the STM32U031's Alarm A is on
  count,      \* ticks until the timer fires; 0 when it is stopped
  reload,     \* ticks from one fire to the next; 0 for one shot
  fired,      \* its interrupt is pending
  requested,  \* the interval asked for
  h_elapsed   \* history: ticks since it was armed

timer == <<count, reload>>
cpu   == <<sleepdeep, systick>>
setup == <<wakes, alarm_a>>
vars == <<backend, pc, cpu, setup, timer, fired, requested, h_elapsed>>

Label == {"platform_init", "wake_main", "light_wfi", "logging", "deep_wfi"}

\* Only the STM32's HAL starts it.
HasSysTick == backend.name = "stm32u031"

\* Alarm A is kept through a reset: an earlier firmware may have left it on.
Init ==
  /\ backend \in Backends
  /\ pc = "platform_init"
  /\ wakes = FALSE
  /\ alarm_a \in IF backend.name = "stm32u031" THEN BOOLEAN ELSE {FALSE}
  /\ sleepdeep = FALSE
  /\ systick = HasSysTick
  /\ count = 0 /\ reload = 0 /\ fired = FALSE
  /\ requested = 0 /\ h_elapsed = 0

\* Interrupts are enabled: a pending one is served before the next step.
Goto(from, to) ==
  /\ pc = from
  /\ ~fired
  /\ pc' = to
  /\ UNCHANGED backend

-----------------------------------------------------------------------------
(* platform_init, as far as the timer goes: its interrupt line is enabled *)
Ready(wake, alarm) ==
  /\ Goto("platform_init", "wake_main")
  /\ wakes' = wake
  /\ alarm_a' = alarm
  /\ UNCHANGED <<cpu, timer, fired, requested, h_elapsed>>

\* Mutants: the start logic does not know the timer; Alarm A is left on.
lpc810_timer_init_nvic_only == backend.name = "lpc810" /\ Ready(FALSE, alarm_a)
rtc_init_keeping_alarm      == backend.name = "stm32u031" /\ Ready(TRUE, alarm_a)

\* And the start logic in front of it, without which Power-down does not end.
lpc810_timer_init == backend.name = "lpc810" /\ Ready(TRUE, alarm_a)

\* The backup domain is reset, and Alarm A, which nothing would clear, is off.
rtc_init == backend.name = "stm32u031" /\ Ready(TRUE, FALSE)

\* The counter stays disabled until it is armed.
efm32g210_rtc_init == backend.name = "efm32g210" /\ Ready(TRUE, alarm_a)

(* platform_wakeup_timer_arm *)
Arm(s, ticks, again) ==
  /\ Goto("wake_main", "logging")
  /\ count' = ticks
  /\ reload' = again
  /\ requested' = s
  /\ h_elapsed' = 0
  /\ UNCHANGED <<cpu, setup, fired>>

\* Mutants: the seconds are loaded as ticks; the counter runs on from where it
\* is, perhaps beyond the new COMP0; the seconds are not clamped.
Lpc810ArmSeconds(s) ==
  /\ backend.name = "lpc810"
  /\ Arm(s, s, 0)
Efm32g210ArmNoRestart(s) ==
  LET COMP0 == backend.rate * (IF s > backend.ceiling THEN backend.ceiling ELSE s)
      CNT == reload - count
  IN  /\ backend.name = "efm32g210"
      /\ Arm(s, IF CNT < COMP0 THEN COMP0 - CNT ELSE COMP0 + backend.size - CNT, COMP0 + 1)
Efm32g210ArmUnclamped(s) ==
  /\ backend.name = "efm32g210"
  /\ Arm(s, s * backend.rate, s * backend.rate + 1)

\* The product is taken in 32 bits.
Lpc810Arm(s) ==
  /\ backend.name = "lpc810"
  /\ Arm(s, (s * backend.rate) % backend.size, 0)

\* The seconds go to a 16-bit reload register; it fires every WUTR + 1 ticks.
Stm32u031Arm(s) ==
  LET period == (s % backend.size) + 1
  IN  /\ backend.name = "stm32u031"
      /\ Arm(s, period, period)

\* Clamped; the counter restarts from 0 and, once it has matched, is its own top.
Efm32g210Arm(s) ==
  LET COMP0 == backend.rate * (IF s > backend.ceiling THEN backend.ceiling ELSE s)
  IN  /\ backend.name = "efm32g210"
      /\ Arm(s, COMP0, COMP0 + 1)

(* platform_enter_low_power_sleep *)
Sleep(ticking) ==
  /\ Goto("logging", "deep_wfi")
  /\ sleepdeep' = TRUE
  /\ systick' = ticking
  /\ UNCHANGED <<setup, timer, fired, requested, h_elapsed>>

\* Power-down.
Lpc810EnterSleep == backend.name = "lpc810" /\ Sleep(FALSE)

\* Mutant: SysTick goes on.
Stm32u031SleepTicking == backend.name = "stm32u031" /\ Sleep(TRUE)

\* HAL_SuspendTick, then Stop 2.
Stm32u031EnterSleep == backend.name = "stm32u031" /\ Sleep(FALSE)

\* EM2.
Efm32g210EnterSleep == backend.name = "efm32g210" /\ Sleep(FALSE)

\* HAL_ResumeTick once the WFI has ended.
Awake(wfi) ==
  /\ pc' = "wake_main"
  /\ systick' = (systick \/ (wfi = "deep_wfi" /\ HasSysTick))

\* Mutant: SLEEPDEEP is taken to be clear.
WfiAsItIs ==
  /\ Goto("wake_main", "light_wfi")
  /\ UNCHANGED <<cpu, setup, timer, fired, requested, h_elapsed>>

(* platform_wait_for_interrupt *)
WaitForInterrupt ==
  /\ Goto("wake_main", "light_wfi")
  /\ sleepdeep' = FALSE
  /\ UNCHANGED <<systick, setup, timer, fired, requested, h_elapsed>>

\* The main MCU's traffic ends the light wait; a deep one would not hear it.
I2cWakes ==
  /\ Goto("light_wfi", "wake_main")
  /\ ~sleepdeep
  /\ UNCHANGED <<cpu, setup, timer, fired, requested, h_elapsed>>

-----------------------------------------------------------------------------
Served == fired /\ (pc = "deep_wfi" => wakes)

\* The timer's interrupt: it ends either WFI, and its flag is cleared.
TimerInterrupt ==
  /\ Served
  /\ fired' = FALSE
  /\ IF pc \in {"light_wfi", "deep_wfi"} THEN Awake(pc) ELSE UNCHANGED <<pc, systick>>
  /\ UNCHANGED <<backend, sleepdeep, setup, timer, requested, h_elapsed>>

\* SysTick and Alarm A, which do nothing but end the WFI.
OtherInterrupt ==
  /\ systick \/ alarm_a
  /\ ~fired
  /\ pc \in {"light_wfi", "deep_wfi"}
  /\ Awake(pc)
  /\ UNCHANGED <<backend, sleepdeep, setup, timer, fired, requested, h_elapsed>>

\* A pending interrupt is served long before the next tick.
Tick ==
  /\ ~Served
  /\ pc = "logging" => h_elapsed < LogTicks[backend.name]
  /\ h_elapsed' = IF h_elapsed < Horizon THEN h_elapsed + 1 ELSE h_elapsed
  /\ count' = CASE count > 1 -> count - 1
                [] count = 1 -> reload
                [] OTHER -> 0
  /\ fired' = (fired \/ count = 1)
  /\ UNCHANGED <<backend, pc, cpu, setup, reload, requested>>

Next ==
  \/ lpc810_timer_init \/ rtc_init \/ efm32g210_rtc_init
  \/ \E s \in backend.requests : Lpc810Arm(s) \/ Stm32u031Arm(s) \/ Efm32g210Arm(s)
  \/ Lpc810EnterSleep \/ Stm32u031EnterSleep \/ Efm32g210EnterSleep
  \/ WaitForInterrupt \/ I2cWakes
  \/ TimerInterrupt \/ OtherInterrupt \/ Tick

Spec == Init /\ [][Next]_vars

\* Time passes and the timer's interrupt is served.
FairSpec == Spec /\ WF_vars(Tick) /\ WF_vars(TimerInterrupt)

-----------------------------------------------------------------------------
TypeOK ==
  /\ backend \in Backends
  /\ pc \in Label
  /\ sleepdeep \in BOOLEAN
  /\ systick \in BOOLEAN
  /\ wakes \in BOOLEAN
  /\ alarm_a \in BOOLEAN
  /\ count \in 0 .. backend.size
  /\ reload \in 0 .. backend.size
  /\ fired \in BOOLEAN
  /\ requested \in backend.requests \cup {0}
  /\ h_elapsed \in 0 .. Horizon

\* The wait for the main MCU's I2C traffic is never a deep sleep, in which the
\* bus would be dead, although the last sleep has left SLEEPDEEP set.
WaitsLightly == pc = "light_wfi" => ~sleepdeep

\* While the vault is asleep its timer will still fire, within the requested
\* time (the U031's counter takes one tick more).  Nothing asks before the WFI
\* whether it has fired already; that it has not rests on the interval being
\* longer than the log line that is written in between.
AsleepUntilDue ==
  pc = "deep_wfi" /\ ~fired =>
    /\ count > 0
    /\ h_elapsed + count <= requested * backend.rate + 1

\* The interval the backend can serve.
Due == IF requested > backend.ceiling THEN backend.ceiling ELSE requested

\* The vault does not wake before the requested time has passed, or the longest
\* interval its timer can serve (the EFM32's clamp "errs toward waking sooner
\* than requested"): a long request is never served by what is left of it after
\* a register has cut it off.
SleepsAsLongAsAsked ==
  [][pc = "deep_wfi" /\ pc' # pc => h_elapsed >= backend.rate * Due]_vars

\* Every sleep ends: platform_enter_low_power_sleep returns once the timer has
\* fired, whatever it takes on this backend for the interrupt to get through.
SleepEnds == pc = "deep_wfi" ~> pc = "wake_main"
=============================================================================

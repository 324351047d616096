------------------------------ MODULE VaultCore ------------------------------
(***************************************************************************)
(* The core state machine (core/src/vault_core.c), one atomic step per     *)
(* platform call, with the I2C interrupt free to run between any two of    *)
(* them, the main MCU on the other end of the bus, and the wake timer.     *)
(*                                                                         *)
(* The register file is reduced to what the loop reads: the done latch and *)
(* the wake interval.  VaultRegisters has the rest.  The platform calls    *)
(* follow their contract in core/include/vault/platform.h; the backends    *)
(* have modules of their own.                                              *)
(***************************************************************************)
EXTENDS Naturals

CONSTANTS
  Interval,         \* wake intervals a main MCU may write
  DefaultInterval,  \* VAULT_DEFAULT_WAKE_INTERVAL_SEC
  SkipWait,         \* VAULT_DIAGNOSTIC_SKIP_I2C_WAIT is defined
  MaxLosses         \* bound on supply losses

ASSUME CoreAssumption ==
  /\ DefaultInterval \in Interval
  /\ SkipWait \in BOOLEAN
  /\ MaxLosses \in Nat

VARIABLES
  pc,               \* the platform call the core makes next
  irq_masked,       \* PRIMASK
  irq,              \* what the pending I2C interrupt will find, or "none"
  other_irq,        \* some other interrupt is pending (SysTick on STM32)
  done_requested,   \* s_done_requested
  wake_interval,    \* s_wake_interval_sec
  rail,             \* the main MCU has power
  slave_on,         \* the I2C slave is initialised and its interrupt enabled
  isolated,         \* SDA/SCL are high-impedance
  timer,            \* "idle", "armed" or "fired"
  armed_interval,   \* what the timer was last armed with
  main,             \* the main MCU: "off", "working", "finished"
  losses            \* supply losses so far

bus   == <<rail, slave_on, isolated>>
cpu   == <<irq_masked, irq, other_irq>>
regs  == <<done_requested, wake_interval>>
alarm == <<timer, armed_interval>>
vars  == <<pc, cpu, regs, bus, alarm, main, losses>>

Label == {"reset_for_cycle", "slave_init", "rail_on", "irq_disable", "check_done",
          "wait_for_interrupt", "irq_enable", "irq_enable_break", "rail_off",
          "slave_deinit", "bus_isolate", "timer_arm", "sleep"}

\* The state in which vault_core_init leaves a vault that has just got power;
\* platform_init has driven the rail pin low.
Init ==
  /\ pc = "reset_for_cycle"
  /\ irq_masked = FALSE /\ irq = "none" /\ other_irq = FALSE
  /\ done_requested = FALSE /\ wake_interval = DefaultInterval
  /\ rail = FALSE /\ slave_on = FALSE /\ isolated = FALSE
  /\ timer = "idle" /\ armed_interval = DefaultInterval
  /\ main = "off"
  /\ losses = 0

Goto(from, to) ==
  /\ pc = from
  /\ pc' = to
  /\ UNCHANGED losses

-----------------------------------------------------------------------------
\* Mutants: the done latch of the last cycle is kept; the rail comes first, in
\* the order the design document gives.
ResetKeepingDone ==
  /\ Goto("reset_for_cycle", "slave_init")
  /\ UNCHANGED <<cpu, regs, bus, alarm, main>>
RailBeforeSlave ==
  /\ Goto("reset_for_cycle", "slave_init")
  /\ done_requested' = FALSE
  /\ rail' = TRUE
  /\ main' = "working"
  /\ UNCHANGED <<cpu, wake_interval, slave_on, isolated, alarm>>

(* WAKE_MAIN *)
ResetForCycle ==
  /\ Goto("reset_for_cycle", "slave_init")
  /\ done_requested' = FALSE
  /\ UNCHANGED <<cpu, wake_interval, bus, alarm, main>>

SlaveInit ==
  /\ Goto("slave_init", "rail_on")
  /\ slave_on' = TRUE
  /\ isolated' = FALSE
  /\ UNCHANGED <<cpu, regs, rail, alarm, main>>

\* The main MCU boots from reset.
RailOn ==
  /\ Goto("rail_on", IF SkipWait THEN "rail_off" ELSE "irq_disable")
  /\ rail' = TRUE
  /\ main' = "working"
  /\ UNCHANGED <<cpu, regs, slave_on, isolated, alarm>>

\* Mutant: DONE is polled without masking the interrupt.
IrqStaysEnabled ==
  /\ Goto("irq_disable", "check_done")
  /\ UNCHANGED <<cpu, regs, bus, alarm, main>>

IrqDisable ==
  /\ Goto("irq_disable", "check_done")
  /\ irq_masked' = TRUE
  /\ UNCHANGED <<irq, other_irq, regs, bus, alarm, main>>

CheckDone ==
  /\ Goto("check_done", IF done_requested THEN "irq_enable_break" ELSE "wait_for_interrupt")
  /\ UNCHANGED <<cpu, regs, bus, alarm, main>>

\* WFI has no memory, but a pending interrupt ends it even while masked.
WaitForInterrupt ==
  /\ Goto("wait_for_interrupt", "irq_enable")
  /\ irq # "none" \/ other_irq
  /\ UNCHANGED <<cpu, regs, bus, alarm, main>>

\* Mutant: the loop is left with the interrupt masked.
IrqStaysMasked ==
  \/ /\ Goto("irq_enable", "irq_disable")
     /\ irq_masked' = FALSE
     /\ UNCHANGED <<irq, other_irq, regs, bus, alarm, main>>
  \/ /\ Goto("irq_enable_break", "rail_off")
     /\ UNCHANGED <<cpu, regs, bus, alarm, main>>

IrqEnable ==
  /\ \/ Goto("irq_enable", "irq_disable")
     \/ Goto("irq_enable_break", "rail_off")
  /\ irq_masked' = FALSE
  /\ UNCHANGED <<irq, other_irq, regs, bus, alarm, main>>

(* BUS_ISOLATION *)
RailOff ==
  /\ Goto("rail_off", "slave_deinit")
  /\ rail' = FALSE
  /\ main' = "off"
  /\ UNCHANGED <<cpu, regs, slave_on, isolated, alarm>>

\* The slave's interrupt is switched off: what was pending is not served.
SlaveDeinit ==
  /\ Goto("slave_deinit", "bus_isolate")
  /\ slave_on' = FALSE
  /\ irq' = "none"
  /\ UNCHANGED <<irq_masked, other_irq, regs, rail, isolated, alarm, main>>

BusIsolate ==
  /\ Goto("bus_isolate", "timer_arm")
  /\ isolated' = TRUE
  /\ UNCHANGED <<cpu, regs, rail, slave_on, alarm, main>>

\* Mutants: seconds taken for milliseconds; the interval of the last sleep.
TimerArmMilliseconds ==
  /\ Goto("timer_arm", "sleep")
  /\ timer' = "armed"
  /\ armed_interval' = 1000 * wake_interval
  /\ UNCHANGED <<cpu, regs, bus, main>>
TimerArmStale ==
  /\ Goto("timer_arm", "sleep")
  /\ timer' = "armed"
  /\ UNCHANGED <<cpu, regs, bus, armed_interval, main>>

(* ARM_SLEEP *)
TimerArm ==
  /\ Goto("timer_arm", "sleep")
  /\ timer' = "armed"
  /\ armed_interval' = wake_interval
  /\ UNCHANGED <<cpu, regs, bus, main>>

\* platform_enter_low_power_sleep returns once the armed timer has fired.
WakeFromSleep ==
  /\ Goto("sleep", "reset_for_cycle")
  /\ timer = "fired"
  /\ timer' = "idle"
  /\ UNCHANGED <<cpu, regs, bus, armed_interval, main>>

vault_core_step ==
  \/ ResetForCycle \/ SlaveInit \/ RailOn
  \/ IrqDisable \/ CheckDone \/ WaitForInterrupt \/ IrqEnable
  \/ RailOff \/ SlaveDeinit \/ BusIsolate
  \/ TimerArm \/ WakeFromSleep

-----------------------------------------------------------------------------
\* Mutant: any event latches DONE.
I2CInterruptAlwaysDone ==
  /\ irq # "none"
  /\ ~irq_masked
  /\ irq' = "none"
  /\ done_requested' = TRUE
  /\ wake_interval' \in IF irq = "interval" THEN Interval ELSE {wake_interval}
  /\ UNCHANGED <<pc, irq_masked, other_irq, bus, alarm, main, losses>>

(* The I2C interrupt handler: serves the event that raised it. *)
I2CInterrupt ==
  /\ irq # "none"
  /\ ~irq_masked
  /\ irq' = "none"
  /\ done_requested' = (done_requested \/ irq = "done")
  /\ wake_interval' \in IF irq = "interval" THEN Interval ELSE {wake_interval}
  /\ UNCHANGED <<pc, irq_masked, other_irq, bus, alarm, main, losses>>

\* Any other handler: it has nothing to do with the vault's state.
OtherInterrupt ==
  /\ other_irq
  /\ ~irq_masked
  /\ other_irq' = FALSE
  /\ UNCHANGED <<pc, irq_masked, irq, regs, bus, alarm, main, losses>>

OtherRaised ==
  /\ ~other_irq
  /\ other_irq' = TRUE
  /\ UNCHANGED <<pc, irq_masked, irq, regs, bus, alarm, main, losses>>

(* The main MCU, external.  The slave stretches the clock until an event   *)
(* has been served, so at most one is pending.                             *)
BusEvent(event) ==
  /\ rail /\ slave_on
  /\ irq = "none"
  /\ irq' = event
  /\ UNCHANGED <<pc, irq_masked, other_irq, regs, bus, alarm, losses>>

\* A byte or a STOP; also after DONE, though the guide asks it to keep quiet.
MainTransfers ==
  /\ main # "off"
  /\ \E event \in {"byte", "interval"} : BusEvent(event)
  /\ UNCHANGED main

\* The STOP that completes COMMAND = DONE.
MainFinishes ==
  /\ main = "working"
  /\ BusEvent("done")
  /\ main' = "finished"

TimerFires ==
  /\ timer = "armed"
  /\ timer' = "fired"
  /\ UNCHANGED <<pc, cpu, regs, bus, armed_interval, main, losses>>

\* The vault's own supply fails and comes back; its SRAM is lost.
SupplyLost ==
  /\ losses < MaxLosses
  /\ losses' = losses + 1
  /\ pc' = "reset_for_cycle"
  /\ irq_masked' = FALSE /\ irq' = "none" /\ other_irq' = FALSE
  /\ done_requested' = FALSE /\ wake_interval' = DefaultInterval
  /\ rail' = FALSE /\ slave_on' = FALSE /\ isolated' = FALSE
  /\ timer' = "idle" /\ armed_interval' = DefaultInterval
  /\ main' = "off"

Next ==
  \/ vault_core_step
  \/ I2CInterrupt \/ OtherInterrupt \/ OtherRaised
  \/ MainTransfers \/ MainFinishes
  \/ TimerFires
  \/ SupplyLost

Spec == Init /\ [][Next]_vars

\* The CPU runs; a pending interrupt is taken at the latest when the loop
\* unmasks it (strong: the loop masks again); the timer fires.  Nothing is
\* asked of the main MCU.
Fairness ==
  /\ WF_vars(vault_core_step)
  /\ SF_vars(I2CInterrupt)
  /\ WF_vars(TimerFires)

FairSpec == Spec /\ Fairness

-----------------------------------------------------------------------------
TypeOK ==
  /\ pc \in Label
  /\ irq_masked \in BOOLEAN
  /\ irq \in {"none", "byte", "interval", "done"}
  /\ other_irq \in BOOLEAN
  /\ done_requested \in BOOLEAN
  /\ wake_interval \in Interval
  /\ rail \in BOOLEAN
  /\ slave_on \in BOOLEAN
  /\ isolated \in BOOLEAN
  /\ timer \in {"idle", "armed", "fired"}
  /\ armed_interval \in Interval
  /\ main \in {"off", "working", "finished"}
  /\ losses \in 0 .. MaxLosses

\* As long as the main MCU has power the slave answers and its pins are on the
\* bus, from before its first instruction until after its last: a master that
\* found the bus dead would block (vault_core.c:14-23 and 71-81).
PoweredMainFindsSlave == rail => slave_on /\ ~isolated

\* The vault never sleeps with the main MCU powered, a pin driven, interrupts
\* masked or no timer running, and the timer runs with the interval that a
\* read of WAKE_INTERVAL_SEC would have given at the end of the session
\* (guide 3.3: what is read back is what the next sleep uses).
SleepsSafely ==
  pc = "sleep" =>
    /\ ~rail /\ ~slave_on /\ isolated
    /\ ~irq_masked
    /\ timer # "idle"
    /\ armed_interval = wake_interval

\* The main MCU loses its power only after it has said DONE in this very power
\* cycle (not so in the diagnostic build): a done latch left over from the last
\* cycle, or one raised by anything else, would cut it short.
PowerCutOnlyAfterDone ==
  [][rail /\ ~rail' /\ losses' = losses => main = "finished"]_vars

\* The done latch is up only for a main MCU that has finished, or while the
\* vault is tearing down the session it ended.
DoneLatchIsThisCycles ==
  done_requested =>
    \/ main = "finished"
    \/ pc \in {"slave_deinit", "bus_isolate", "timer_arm", "sleep", "reset_for_cycle"}

\* The lost wake-up that vault_core.c:47-57 describes: once the main MCU has
\* finished, its power is cut, whatever the loop was doing when DONE arrived.
DoneIsHeard == main = "finished" ~> ~rail

\* The core implements the wake cycle of the design, liveness included.
Cycle == INSTANCE WakeCycle WITH
  Default  <- DefaultInterval,
  interval <- wake_interval,
  slept    <- armed_interval,
  phase    <- CASE rail -> main
                [] pc \in {"slave_deinit", "bus_isolate", "timer_arm"} -> "isolating"
                [] pc = "sleep" -> "asleep"
                [] OTHER -> "starting"
CycleImplemented == Cycle!Spec
=============================================================================

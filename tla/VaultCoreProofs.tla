--------------------------- MODULE VaultCoreProofs ---------------------------
(***************************************************************************)
(* The safety of the core loop, for every set of intervals, any number of  *)
(* supply losses and both builds.                                          *)
(*                                                                         *)
(* None of the invariants of VaultCore is inductive by itself: each speaks *)
(* of one place in the cycle and has to know how the core got there.       *)
(* CoreInv therefore ties every piece of hardware state to the program     *)
(* counter (HardwareFollowsPc), and the done latch and the pending         *)
(* interrupt to the main MCU of this cycle (DoneFollowsMain).              *)
(***************************************************************************)
EXTENDS VaultCore, TLAPS

Starting == {"reset_for_cycle", "slave_init", "rail_on"}
Powered  == {"irq_disable", "check_done", "wait_for_interrupt", "irq_enable",
             "irq_enable_break", "rail_off"}
Masked   == {"check_done", "wait_for_interrupt", "irq_enable", "irq_enable_break"}
Leaving  == {"irq_enable_break", "rail_off", "slave_deinit", "bus_isolate", "timer_arm",
             "sleep"}
Serving  == Powered \cup {"rail_on", "slave_deinit"}

HardwareFollowsPc ==
  /\ rail <=> pc \in Powered
  /\ main # "off" <=> pc \in Powered
  /\ slave_on <=> pc \in Serving
  /\ irq_masked <=> pc \in Masked
  /\ pc \in Serving => ~isolated
  /\ pc \in {"timer_arm", "sleep"} => isolated
  /\ timer # "idle" <=> pc = "sleep"
  /\ pc = "sleep" => armed_interval = wake_interval

DoneFollowsMain ==
  /\ irq # "none" => pc \in Powered \cup {"slave_deinit"}
  /\ irq = "done" \/ done_requested => main = "finished" \/ pc \notin Powered
  /\ main = "finished" => irq = "done" \/ done_requested
  /\ done_requested => pc \notin {"slave_init", "rail_on"}
  /\ ~SkipWait /\ pc \in Leaving => done_requested

CoreInv == TypeOK /\ HardwareFollowsPc /\ DoneFollowsMain

-----------------------------------------------------------------------------
\* Every call of the loop keeps the hardware, the latch and the program counter
\* in step.
LEMMA StepKeepsCoreInv ==
  ASSUME CoreInv, vault_core_step
  PROVE  CoreInv'
<1>. USE CoreAssumption
     DEF CoreInv, TypeOK, HardwareFollowsPc, DoneFollowsMain, Goto, Label,
         Powered, Masked, Leaving, Serving, cpu, regs, bus, alarm
<1>1. CASE ResetForCycle
  BY <1>1 DEF ResetForCycle
<1>2. CASE SlaveInit
  BY <1>2 DEF SlaveInit
<1>3. CASE RailOn
  BY <1>3 DEF RailOn
<1>4. CASE IrqDisable
  BY <1>4 DEF IrqDisable
<1>5. CASE CheckDone
  BY <1>5 DEF CheckDone
<1>6. CASE WaitForInterrupt
  BY <1>6 DEF WaitForInterrupt
<1>7. CASE IrqEnable
  BY <1>7 DEF IrqEnable
<1>8. CASE RailOff
  BY <1>8 DEF RailOff
<1>9. CASE SlaveDeinit
  BY <1>9 DEF SlaveDeinit
<1>10. CASE BusIsolate
  BY <1>10 DEF BusIsolate
<1>11. CASE TimerArm
  BY <1>11 DEF TimerArm
<1>12. CASE WakeFromSleep
  BY <1>12 DEF WakeFromSleep
<1>. QED
  BY <1>1, <1>2, <1>3, <1>4, <1>5, <1>6, <1>7, <1>8, <1>9, <1>10, <1>11, <1>12
     DEF vault_core_step

\* Every step of the loop, of an interrupt or of the main MCU keeps CoreInv.
LEMMA CoreInvInductive == CoreInv /\ [Next]_vars => CoreInv'
<1>. SUFFICES ASSUME CoreInv, [Next]_vars PROVE CoreInv'
  OBVIOUS
<1>1. CASE vault_core_step
  BY <1>1, StepKeepsCoreInv
<1>. USE CoreAssumption
     DEF CoreInv, TypeOK, HardwareFollowsPc, DoneFollowsMain, Label,
         Powered, Masked, Leaving, Serving, cpu, regs, bus, alarm
<1>2. CASE I2CInterrupt
  BY <1>2 DEF I2CInterrupt
<1>3. CASE OtherInterrupt
  BY <1>3 DEF OtherInterrupt
<1>4. CASE OtherRaised
  BY <1>4 DEF OtherRaised
<1>5. CASE MainTransfers
  BY <1>5 DEF MainTransfers, BusEvent
<1>6. CASE MainFinishes
  BY <1>6 DEF MainFinishes, BusEvent
<1>7. CASE TimerFires
  BY <1>7 DEF TimerFires
<1>8. CASE SupplyLost
  <2>1. TypeOK'
    <3>1. losses' \in 0 .. MaxLosses
      BY <1>8 DEF SupplyLost
    <3>. QED
      BY <1>8, <3>1 DEF SupplyLost
  <2>2. HardwareFollowsPc' /\ DoneFollowsMain'
    BY <1>8 DEF SupplyLost
  <2>. QED
    BY <2>1, <2>2
<1>9. CASE UNCHANGED vars
  BY <1>9 DEF vars
<1>. QED
  BY <1>1, <1>2, <1>3, <1>4, <1>5, <1>6, <1>7, <1>8, <1>9 DEF Next

\* A vault that has just got its supply satisfies CoreInv.
LEMMA CoreInvInit == Init => CoreInv
<1>1. 0 \in 0 .. MaxLosses
  BY CoreAssumption
<1>. QED
  BY <1>1, CoreAssumption
     DEF Init, CoreInv, TypeOK, HardwareFollowsPc, DoneFollowsMain, Label,
         Powered, Masked, Leaving, Serving

\* So it is in every reachable state.
LEMMA CoreInvHolds == Spec => []CoreInv
  BY CoreInvInit, CoreInvInductive, PTL DEF Spec

-----------------------------------------------------------------------------
\* All of the core's state invariants: the types, a main MCU with power always
\* has a live slave, a sleeping vault is isolated, unmasked, armed and armed
\* with the interval in force, and no done latch outlives its cycle.  It holds
\* for the diagnostic build too, which does not wait for DONE.
THEOREM CoreSafe ==
  Spec => [](/\ TypeOK
             /\ PoweredMainFindsSlave
             /\ SleepsSafely
             /\ DoneLatchIsThisCycles)
<1>1. CoreInv => /\ TypeOK
                 /\ PoweredMainFindsSlave
                 /\ SleepsSafely
                 /\ DoneLatchIsThisCycles
  BY DEF CoreInv, TypeOK, HardwareFollowsPc, DoneFollowsMain, Label, Powered, Masked,
         Leaving, Serving, PoweredMainFindsSlave, SleepsSafely, DoneLatchIsThisCycles
<1>. QED
  BY <1>1, CoreInvHolds, PTL

\* Power is cut only after DONE: no step of the loop takes the rail away from a
\* main MCU that has not finished.
THEOREM PowerCutNeedsDone ==
  ASSUME ~SkipWait
  PROVE  Spec => PowerCutOnlyAfterDone
<1>. DEFINE Step == rail /\ ~rail' /\ losses' = losses => main = "finished"
<1>1. CoreInv /\ [Next]_vars => [Step]_vars
  <2>. SUFFICES ASSUME CoreInv, Next PROVE Step
    OBVIOUS
  <2>1. CASE vault_core_step
    <3>1. CASE RailOff
      BY <3>1 DEF RailOff, Goto, CoreInv, DoneFollowsMain, Powered, Leaving
    <3>2. CASE ~RailOff
      BY <2>1, <3>2
         DEF vault_core_step, ResetForCycle, SlaveInit, RailOn, IrqDisable, CheckDone,
             WaitForInterrupt, IrqEnable, SlaveDeinit, BusIsolate, TimerArm,
             WakeFromSleep, bus
    <3>. QED
      BY <3>1, <3>2
  <2>2. CASE I2CInterrupt \/ OtherInterrupt \/ OtherRaised \/ TimerFires
    BY <2>2 DEF I2CInterrupt, OtherInterrupt, OtherRaised, TimerFires, bus
  <2>3. CASE MainTransfers \/ MainFinishes
    BY <2>3 DEF MainTransfers, MainFinishes, BusEvent, bus
  <2>4. CASE SupplyLost
    BY <2>4, CoreAssumption DEF SupplyLost, CoreInv, TypeOK
  <2>. QED
    BY <2>1, <2>2, <2>3, <2>4 DEF Next
<1>. QED
  BY <1>1, CoreInvHolds, PTL DEF Spec, PowerCutOnlyAfterDone

-----------------------------------------------------------------------------
(* The refinement of WakeCycle, step by step. *)
\* Where the cycle is, as CycleImplemented maps it.
Phase ==
  CASE rail -> main
    [] pc \in {"slave_deinit", "bus_isolate", "timer_arm"} -> "isolating"
    [] pc = "sleep" -> "asleep"
    [] OTHER -> "starting"

\* The program counter alone says where, but for the main MCU's own progress.
LEMMA PhaseFollowsPc ==
  ASSUME CoreInv
  PROVE  /\ pc \in Powered => Phase = main /\ main \in {"working", "finished"}
         /\ pc \in {"slave_deinit", "bus_isolate", "timer_arm"} => Phase = "isolating"
         /\ pc = "sleep" => Phase = "asleep"
         /\ pc \in Starting => Phase = "starting"
  BY DEF CoreInv, TypeOK, HardwareFollowsPc, Powered, Starting, Phase

\* The same of the state a step leads to.
LEMMA PhaseFollowsPcNext ==
  ASSUME CoreInv'
  PROVE  /\ pc' \in Powered => Phase' = main' /\ main' \in {"working", "finished"}
         /\ pc' \in {"slave_deinit", "bus_isolate", "timer_arm"} => Phase' = "isolating"
         /\ pc' = "sleep" => Phase' = "asleep"
         /\ pc' \in Starting => Phase' = "starting"
  BY DEF CoreInv, TypeOK, HardwareFollowsPc, Powered, Starting, Phase

\* Of the loop's calls three move the cycle on, and so does waking up.
LEMMA LoopStepRefines ==
  ASSUME ~SkipWait, CoreInv, CoreInv', vault_core_step
  PROVE  \/ /\ UNCHANGED <<Phase, wake_interval, armed_interval>>
         \/ /\ Phase = "starting" /\ Phase' = "working"
            /\ UNCHANGED <<wake_interval, armed_interval>>
         \/ /\ Phase = "finished" /\ Phase' = "isolating"
            /\ UNCHANGED <<wake_interval, armed_interval>>
         \/ /\ Phase = "isolating" /\ Phase' = "asleep"
            /\ armed_interval' = wake_interval /\ wake_interval' = wake_interval
         \/ /\ Phase = "asleep" /\ Phase' = "starting"
            /\ UNCHANGED <<wake_interval, armed_interval>>
<1>. USE PhaseFollowsPc, PhaseFollowsPcNext
     DEF Goto, Powered, Starting, regs, alarm
<1>1. CASE ResetForCycle
  BY <1>1 DEF ResetForCycle
<1>2. CASE SlaveInit
  BY <1>2 DEF SlaveInit
<1>3. CASE RailOn
  BY <1>3 DEF RailOn
<1>4. CASE IrqDisable
  BY <1>4 DEF IrqDisable
<1>5. CASE CheckDone
  BY <1>5 DEF CheckDone
<1>6. CASE WaitForInterrupt
  BY <1>6 DEF WaitForInterrupt
<1>7. CASE IrqEnable
  BY <1>7 DEF IrqEnable
<1>8. CASE RailOff
  <2>1. main = "finished"
    BY <1>8 DEF RailOff, CoreInv, DoneFollowsMain, Leaving
  <2>. QED
    BY <1>8, <2>1 DEF RailOff
<1>9. CASE SlaveDeinit
  BY <1>9 DEF SlaveDeinit
<1>10. CASE BusIsolate
  BY <1>10 DEF BusIsolate
<1>11. CASE TimerArm
  BY <1>11 DEF TimerArm
<1>12. CASE WakeFromSleep
  BY <1>12 DEF WakeFromSleep
<1>. QED
  BY <1>1, <1>2, <1>3, <1>4, <1>5, <1>6, <1>7, <1>8, <1>9, <1>10, <1>11, <1>12
     DEF vault_core_step

\* Every step of the core is a step of the wake cycle or none.
LEMMA CoreStepRefines ==
  ASSUME ~SkipWait
  PROVE  CoreInv /\ [Next]_vars => [Cycle!Next]_(Cycle!cycleVars)
<1>. SUFFICES ASSUME CoreInv, [Next]_vars PROVE [Cycle!Next]_(Cycle!cycleVars)
  OBVIOUS
<1>1. CoreInv'
  BY CoreInvInductive
<1>. USE DEF Cycle!Next, Cycle!cycleVars, Cycle!Move, Phase
<1>2. CASE vault_core_step
  BY <1>1, <1>2, LoopStepRefines
     DEF Cycle!PowerUp, Cycle!CutPower, Cycle!FallAsleep, Cycle!WakeUp
<1>3. CASE I2CInterrupt
  <2>1. CASE irq = "interval"
    <3>1. pc \in Powered \cup {"slave_deinit"} /\ UNCHANGED <<pc, rail, main, armed_interval>>
      BY <1>3, <2>1 DEF I2CInterrupt, CoreInv, DoneFollowsMain, bus, alarm
    <3>2. Phase \in {"working", "finished", "isolating"}
      BY <3>1, PhaseFollowsPc
    <3>3. wake_interval' \in Interval
      BY <1>3, <2>1 DEF I2CInterrupt
    <3>. QED
      BY <3>1, <3>2, <3>3 DEF Cycle!SetInterval
  <2>2. CASE irq # "interval"
    BY <1>3, <2>2 DEF I2CInterrupt, bus, alarm
  <2>. QED
    BY <2>1, <2>2
<1>4. CASE OtherInterrupt \/ OtherRaised \/ MainTransfers \/ TimerFires
  BY <1>4 DEF OtherInterrupt, OtherRaised, MainTransfers, BusEvent, TimerFires,
              regs, bus, alarm
<1>5. CASE MainFinishes
  BY <1>5 DEF MainFinishes, BusEvent, regs, bus, alarm, Cycle!Finish
<1>6. CASE SupplyLost
  BY <1>6 DEF SupplyLost, Cycle!LosePower
<1>7. CASE UNCHANGED vars
  BY <1>7 DEF vars, regs, bus, alarm
<1>. QED
  BY <1>2, <1>3, <1>4, <1>5, <1>6, <1>7 DEF Next

\* Outside the diagnostic build the core takes no step that the wake cycle of the
\* design does not allow: the main MCU gets power, keeps it until it has said
\* DONE, and gets it again after a sleep of the interval in force when the vault
\* fell asleep.  (That it takes the steps is a matter of fairness, and TLC's.)
THEOREM CoreFollowsCycle ==
  ASSUME ~SkipWait
  PROVE  Spec => Cycle!Init /\ [][Cycle!Next]_(Cycle!cycleVars)
<1>1. Init => Cycle!Init
  BY DEF Init, Cycle!Init
<1>. QED
  BY <1>1, CoreInvHolds, CoreStepRefines, PTL DEF Spec
=============================================================================

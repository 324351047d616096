----------------------------- MODULE VaultSystem -----------------------------
(***************************************************************************)
(* The whole vault: the core's loop (VaultCore), the register file in full *)
(* (VaultRegisters) and a main MCU that runs whole transactions (VaultBus) *)
(* and loses its power when the loop says so.                              *)
(*                                                                         *)
(* VaultBus serves each thing that happens on the wire at once.  Here it   *)
(* is first raised as an interrupt, and the clock is stretched until the   *)
(* handler has run, which the loop may put off by masking it, or prevent   *)
(* by shutting the slave down.  (A STOP stretches nothing and may be       *)
(* raised on top of a last byte; SlaveDrivers shows that the two still     *)
(* reach the register file one after the other.)                           *)
(*                                                                         *)
(* VaultCore sees the register file as a done latch and an interval, and   *)
(* the wire as events of three kinds.  That it may is what CoreImplemented *)
(* says.  The loop's steps that leave the register file alone are taken    *)
(* from VaultCore as they are; every other one is given in full.           *)
(***************************************************************************)
EXTENDS VaultBus

CONSTANTS MaxLosses   \* bound on supply losses

ASSUME SystemAssumption == MaxLosses \in Nat

VARIABLES
  pc, irq_masked, other_irq, rail, slave_on, isolated,   \* as in VaultCore
  timer, armed_interval, main, losses,
  event       \* what waits on the wire for the handler, or NoEvent

loopVars   == <<pc, irq_masked, other_irq, rail, slave_on, isolated,
                timer, armed_interval, losses>>
systemVars == <<busVars, loopVars, main, event>>

NoEvent == [kind |-> "none"]

\* The transfer in progress is one that says DONE once its STOP is there.
SaysDone ==
  /\ m_phase = "write"
  /\ m_txn.reg = REG_COMMAND
  /\ m_txn.payload # <<>> /\ m_txn.payload[1] = VAULT_CMD_DONE

\* What the pending event is to VaultCore: a DONE counts once.
EventKind ==
  CASE event.kind = "none" -> "none"
    [] event.kind = "stop" /\ SaysDone /\ ~h_done -> "done"
    [] /\ event.kind = "byte" /\ m_phase = "write"
       /\ m_txn.reg = REG_WAKE_INTERVAL_SEC /\ m_moved = 3 -> "interval"
    [] OTHER -> "byte"

\* The intervals that some transaction writes as a whole.
WholeIntervals ==
  {DefaultInterval} \cup
  {[i \in IntervalOffset |-> w.payload[i + 1]] :
     w \in {v \in Writes : v.reg = REG_WAKE_INTERVAL_SEC /\ Len(v.payload) >= 4}}

Loop == INSTANCE VaultCore WITH
  Interval       <- WholeIntervals,
  SkipWait       <- FALSE,
  done_requested <- s_done_requested,
  wake_interval  <- s_wake_interval_sec,
  irq            <- EventKind

SystemInit ==
  /\ BusInit
  /\ pc = "reset_for_cycle"
  /\ irq_masked = FALSE /\ other_irq = FALSE
  /\ rail = FALSE /\ slave_on = FALSE /\ isolated = FALSE
  /\ timer = "idle" /\ armed_interval = DefaultInterval
  /\ main = "off"
  /\ losses = 0
  /\ event = NoEvent

-----------------------------------------------------------------------------
(* vault_core_step *)
\* A transfer the power cut ended is gone; the register file forgets it, too.
ResetForCycle ==
  /\ pc = "reset_for_cycle"
  /\ pc' = "slave_init"
  /\ reset_for_cycle
  /\ Idle
  /\ h_before' = Stored'
  /\ h_done' = FALSE
  /\ UNCHANGED <<m_reply, m_restarts, h_context, h_spoiled, irq_masked, other_irq,
                 rail, slave_on, isolated, timer, armed_interval, losses, main, event>>

\* The steps that leave the wire and the register file alone.
LoopAlone ==
  /\ UNCHANGED <<busVars, event>>
  /\ \/ Loop!SlaveInit \/ Loop!RailOn
     \/ Loop!IrqDisable \/ Loop!CheckDone \/ Loop!WaitForInterrupt \/ Loop!IrqEnable
     \/ Loop!RailOff \/ Loop!BusIsolate
     \/ Loop!TimerArm \/ Loop!WakeFromSleep

\* Mutant: what is pending when the slave goes down is still served later.
SlaveDeinitKeepsPending ==
  /\ pc = "slave_deinit"
  /\ pc' = "bus_isolate"
  /\ slave_on' = FALSE
  /\ UNCHANGED <<busVars, irq_masked, other_irq, rail, isolated, timer,
                 armed_interval, losses, main, event>>

\* A byte or a STOP that has not been served by now never is.
SlaveDeinit ==
  /\ pc = "slave_deinit"
  /\ pc' = "bus_isolate"
  /\ slave_on' = FALSE
  /\ event' = NoEvent
  /\ UNCHANGED <<busVars, irq_masked, other_irq, rail, isolated, timer,
                 armed_interval, losses, main>>

CoreStep == ResetForCycle \/ LoopAlone \/ SlaveDeinit

-----------------------------------------------------------------------------
(* The interrupts. *)
Serve ==
  \/ event.kind = "write" /\ StartWrite(event.txn)
  \/ event.kind = "read" /\ StartRead(event.txn)
  \/ event.kind = "byte" /\ (WriteByte \/ FetchByte)
  \/ event.kind = "stop" /\ (StopWrite \/ StopRead)

I2CInterrupt ==
  /\ event # NoEvent
  /\ ~irq_masked
  /\ Serve
  /\ event' = NoEvent
  /\ UNCHANGED <<loopVars, main>>

Others ==
  /\ UNCHANGED <<busVars, event>>
  /\ Loop!OtherInterrupt \/ Loop!OtherRaised

TimerFires == UNCHANGED <<busVars, event>> /\ Loop!TimerFires

-----------------------------------------------------------------------------
(* The main MCU, external: what it may do next. *)
Upcoming ==
  CASE m_phase = "idle" -> {[kind |-> "write", txn |-> w] : w \in Writes} \cup
                           {[kind |-> "read", txn |-> r] : r \in Reads}
    [] m_phase = "write" -> {[kind |-> IF m_moved < Len(m_txn.payload) THEN "byte" ELSE "stop"]}
    [] m_phase = "read" -> {e \in {[kind |-> "byte"], [kind |-> "stop"]} :
                              IF e.kind = "byte" THEN m_moved < m_txn.count + 2
                                                 ELSE m_moved >= m_txn.count}

MainTransfers ==
  /\ rail /\ slave_on
  /\ event = NoEvent
  /\ event' \in Upcoming
  /\ main' = IF event'.kind = "stop" /\ SaysDone THEN "finished" ELSE main
  /\ UNCHANGED <<busVars, loopVars>>

\* The vault's supply fails: the register file starts over from .bss and
\* vault_core_init, and whatever the main MCU was doing is over.
SupplyLost ==
  /\ losses < MaxLosses
  /\ losses' = losses + 1
  /\ s_context' = [i \in ContextOffset |-> 0]
  /\ s_context_length' = 0 /\ s_context_length_staging' = [i \in LengthOffset |-> 0]
  /\ s_wake_interval_sec' = DefaultInterval
  /\ s_wake_interval_staging' = [i \in IntervalOffset |-> 0]
  /\ ForgetPointer
  /\ s_context_valid' = FALSE /\ s_context_data_written' = FALSE
  /\ s_pending_done' = FALSE /\ s_done_requested' = FALSE
  /\ Idle
  /\ h_before' = Stored' /\ h_context' = FALSE /\ h_done' = FALSE
  /\ pc' = "reset_for_cycle"
  /\ irq_masked' = FALSE /\ other_irq' = FALSE
  /\ rail' = FALSE /\ slave_on' = FALSE /\ isolated' = FALSE
  /\ timer' = "idle" /\ armed_interval' = DefaultInterval
  /\ main' = "off" /\ event' = NoEvent
  /\ UNCHANGED <<m_reply, m_restarts, h_spoiled>>

SystemNext ==
  CoreStep \/ I2CInterrupt \/ Others \/ TimerFires \/ MainTransfers \/ SupplyLost

\* As VaultCore's: the CPU runs, a pending interrupt is taken, the timer fires.
SystemSpec ==
  /\ SystemInit /\ [][SystemNext]_systemVars
  /\ WF_systemVars(CoreStep)
  /\ SF_systemVars(I2CInterrupt)
  /\ WF_systemVars(TimerFires)

-----------------------------------------------------------------------------
\* With the register file in full behind it, and a main MCU that may be cut
\* off at any byte once it has said DONE, the loop is the one VaultCore
\* describes: the latch it polls rises at the STOP of a whole COMMAND = DONE
\* and at nothing else, the interval it arms is one that was written as a
\* whole, and DONE is heard.  So all that is proved of VaultCore holds here.
CoreImplemented == Loop!FairSpec

\* With the loop in full around it, masking the interrupt, dropping what is
\* pending, and cutting the power, the register file is still the transaction
\* store that the main MCU was promised, from cycle to cycle: only a loss of
\* the vault's own supply takes anything away.
StoreImplemented ==
  Abstract!Init /\ [][Abstract!Next \/ SupplyLost]_(Abstract!absVars)
=============================================================================

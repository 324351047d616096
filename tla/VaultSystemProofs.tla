-------------------------- MODULE VaultSystemProofs --------------------------
(***************************************************************************)
(* The whole vault, for every repertoire of transactions of a conforming   *)
(* main MCU: the register file in the loop is still the transaction store, *)
(* and the loop over the register file is still VaultCore's.               *)
(*                                                                         *)
(* Neither can be shown without the other.  What the loop latches is a     *)
(* whole DONE only because the register file is in step with the main MCU; *)
(* and the reset between cycles costs the store nothing because the loop   *)
(* comes to it only when a DONE has cut the main MCU off, or on an idle    *)
(* bus.                                                                    *)
(* SystemInv is therefore both invariants, StoreInv and CoreInv, and what  *)
(* ties one to the other.                                                  *)
(***************************************************************************)
EXTENDS VaultSystem, VaultBusProofs

\* VaultCore's theorems, read as VaultSystem reads VaultCore.
LoopProofs == INSTANCE VaultCoreProofs WITH
  Interval       <- WholeIntervals,
  SkipWait       <- FALSE,
  done_requested <- s_done_requested,
  wake_interval  <- s_wake_interval_sec,
  irq            <- EventKind

\* The default interval is among those a loop may arm.
LEMMA LoopAssumption == LoopProofs!CoreAssumption
  BY SystemAssumption DEF WholeIntervals, LoopProofs!CoreAssumption

-----------------------------------------------------------------------------
EventTypes ==
  /\ event.kind \in {"none", "write", "read", "byte", "stop"}
  /\ event.kind = "none" => event = NoEvent
  /\ event.kind = "write" => event.txn \in Writes
  /\ event.kind = "read" => event.txn \in Reads

\* The latch of the register file, the DONE that was said, and where the loop is.
Session ==
  /\ h_done => s_done_requested
  /\ pc = "reset_for_cycle" => s_done_requested \/ m_phase = "idle"

SystemInv == StoreInv /\ EventTypes /\ Session /\ LoopProofs!CoreInv

-----------------------------------------------------------------------------
(* The register file's side. *)
\* Serving an event is a step of the bus.
LEMMA ServeIsBusStep ==
  ASSUME EventTypes, Serve
  PROVE  BusNext
  BY DEF EventTypes, Serve, BusNext

\* A reset between two sessions, whether a DONE ended the last or not, leaves
\* nothing of a transaction behind.
LEMMA ResetKeepsStoreInv ==
  ASSUME StoreInv, ResetForCycle
  PROVE  StoreInv'
<1>1. RegInv'
  BY CallKeepsRegInv DEF ResetForCycle, StoreInv, BusInv
<1>2. MasterTypes' /\ InStep' /\ Spoilt'
  BY DEF ResetForCycle, reset_for_cycle, ForgetPointer, Idle, StoreInv, BusInv,
         MasterTypes, InStep, Spoilt
<1>3. Followed'
  BY DEF ResetForCycle, reset_for_cycle, ForgetPointer, Idle, StoreInv, Followed
<1>4. Kept'
  BY DEF ResetForCycle, reset_for_cycle, store, StoreInv, Kept, DoneOnlyWhenCommanded,
         ValidMeansWholeTransfer, NoTornField
<1>. QED
  BY <1>1, <1>2, <1>3, <1>4 DEF StoreInv, BusInv

\* The register file starts over with the vault's supply.
LEMMA LossKeepsStoreInv ==
  ASSUME StoreInv, SupplyLost
  PROVE  StoreInv'
<1>1. TypeOK'
  <2>1. 0 \in 0 .. ContextSize /\ 0 \in 0 .. OffsetModulus - 1
    BY RegistersAssumption
  <2>2. /\ s_context' \in [ContextOffset -> Byte]
        /\ s_context_length_staging' \in [LengthOffset -> Byte]
        /\ s_wake_interval_sec' \in [IntervalOffset -> Byte]
        /\ s_wake_interval_staging' \in [IntervalOffset -> Byte]
    BY DEF SupplyLost, DefaultInterval, Byte
  <2>. QED
    BY <2>1, <2>2 DEF SupplyLost, ForgetPointer, TypeOK
<1>2. RegInv'
  BY <1>1 DEF SupplyLost, ForgetPointer, RegInv, FlagsBelongToTransaction
<1>3. MasterTypes' /\ InStep' /\ Spoilt'
  BY DEF SupplyLost, ForgetPointer, Idle, StoreInv, BusInv, MasterTypes, InStep, Spoilt
<1>4. Followed' /\ Kept'
  BY DEF SupplyLost, ForgetPointer, Idle, StoreInv, Followed, Kept,
         DoneOnlyWhenCommanded, ValidMeansWholeTransfer, NoTornField
<1>. QED
  BY <1>2, <1>3, <1>4 DEF StoreInv, BusInv

\* Every step of the system is one of the bus, a reset, a loss or none.
LEMMA SystemStepOnBus ==
  ASSUME EventTypes, [SystemNext]_systemVars
  PROVE  BusNext \/ ResetForCycle \/ SupplyLost \/ UNCHANGED busVars
<1>1. CASE CoreStep
  BY <1>1 DEF CoreStep, LoopAlone, SlaveDeinit
<1>2. CASE I2CInterrupt
  BY <1>2, ServeIsBusStep DEF I2CInterrupt
<1>3. CASE Others \/ TimerFires \/ MainTransfers
  BY <1>3 DEF Others, TimerFires, MainTransfers
<1>. QED
  BY <1>1, <1>2, <1>3 DEF SystemNext, systemVars

\* The loop cannot bring the register file out of step with the main MCU.
LEMMA SystemKeepsStoreInv ==
  ASSUME Conforming, StoreInv, EventTypes, [SystemNext]_systemVars
  PROVE  StoreInv'
  BY SystemStepOnBus, StoreInvInductive, ResetKeepsStoreInv, LossKeepsStoreInv

\* A reset forgets the DONE that ended the session, or changes nothing stored.
LEMMA ResetRefines ==
  ASSUME SystemInv, ResetForCycle
  PROVE  [Abstract!Next]_(Abstract!absVars)
<1>. USE DEF AbstractStore
<1>1. CASE s_done_requested
  <2>1. CycleEnds
    BY <1>1 DEF ResetForCycle, CycleEnds
  <2>. QED
    BY <2>1, CycleEndsCutsOff
       DEF SystemInv, Abstract!Next, Abstract!NewCycle, Abstract!CutOff
<1>2. CASE ~s_done_requested
  <2>1. m_phase = "idle" /\ m_phase' = "idle" /\ m_reply' = m_reply
    BY <1>2 DEF ResetForCycle, Idle, SystemInv, Session
  <2>2. s_done_requested' = s_done_requested
    BY <1>2, Zenon
       DEF ResetForCycle, reset_for_cycle, SystemInv, StoreInv, BusInv, RegInv, TypeOK
  <2>3. Stored' = Stored
    BY <2>2 DEF ResetForCycle, reset_for_cycle, store, Stored
  <2>. QED
    BY <2>1, <2>3 DEF Abstract!absVars
<1>. QED
  BY <1>1, <1>2

\* Every step of the system but a loss is a step of the store or none.
LEMMA SystemStepRefinesStore ==
  ASSUME Conforming
  PROVE  SystemInv /\ [SystemNext]_systemVars
           => [Abstract!Next \/ SupplyLost]_(Abstract!absVars)
<1>. SUFFICES ASSUME SystemInv, [SystemNext]_systemVars
              PROVE  [Abstract!Next \/ SupplyLost]_(Abstract!absVars)
  OBVIOUS
<1>1. CASE BusNext \/ UNCHANGED busVars
  BY <1>1, BusStepRefines DEF SystemInv
<1>2. CASE ResetForCycle
  BY <1>2, ResetRefines
<1>. QED
  BY <1>1, <1>2, SystemStepOnBus DEF SystemInv

-----------------------------------------------------------------------------
(* The loop's side. *)
\* What is pending for VaultCore is pending here.
LEMMA PendingKinds ==
  ASSUME EventTypes
  PROVE  /\ EventKind \in {"none", "byte", "interval", "done"}
         /\ EventKind = "none" <=> event = NoEvent
  BY DEF EventTypes, EventKind, NoEvent

\* Serving the STOP of a DONE raises the latch, and serving nothing else does.
LEMMA ServeLatchesDone ==
  ASSUME SystemInv, I2CInterrupt
  PROVE  /\ s_done_requested' <=> s_done_requested \/ EventKind = "done"
         /\ h_done' => s_done_requested'
<1>1. CASE event.kind # "stop"
  <2>1. /\ s_done_requested' = s_done_requested /\ h_done' = h_done
        /\ EventKind # "done"
    <3>1. CASE \E phase, txn : Start(phase, txn)
      BY <1>1, <3>1 DEF Start, on_write_byte, SelectRegister, ValueByte, flags, EventKind
    <3>2. CASE WriteByte \/ FetchByte
      BY <1>1, <3>2 DEF WriteByte, FetchByte, on_write_byte, SelectRegister, ValueByte,
                        on_read_request, flags, historyVars, EventKind
    <3>. QED
      BY <1>1, <3>1, <3>2 DEF I2CInterrupt, Serve, StartWrite, StartRead
  <2>. QED
    BY <2>1 DEF SystemInv, Session
<1>2. CASE event.kind = "stop" /\ StopWrite
  <2>1. /\ m_txn \in Writes /\ m_moved = Len(m_txn.payload) /\ m_phase = "write"
        /\ m_txn.payload \in Seq(Byte)
        /\ WriteFollowed(m_txn.reg, m_txn.payload, m_moved)
    BY <1>2, TransactionTypes
       DEF StopWrite, SystemInv, StoreInv, BusInv, MasterTypes, Followed
  <2>2. m_moved > 0 <=> m_txn.payload # <<>>
    BY <2>1
  <2>3. s_pending_done <=> SaysDone
    BY <2>1, <2>2 DEF WriteFollowed, SaysDone
  <2>4. /\ s_done_requested' <=> s_done_requested \/ s_pending_done
        /\ h_done' <=> h_done \/ SaysDone
    BY <1>2, <2>1, <2>2 DEF StopWrite, on_stop, SaysDone
  <2>5. EventKind = "done" <=> SaysDone /\ ~h_done
    BY <1>2 DEF EventKind
  <2>6. h_done => s_done_requested
    BY DEF SystemInv, Session
  <2>. QED
    BY <2>3, <2>4, <2>5, <2>6
<1>3. CASE event.kind = "stop" /\ StopRead
  <2>1. ~s_pending_done /\ m_phase = "read"
    BY <1>3 DEF StopRead, SystemInv, StoreInv, Followed, ReadFollowed
  <2>2. EventKind # "done"
    BY <1>3, <2>1 DEF EventKind, SaysDone
  <2>3. s_done_requested' <=> s_done_requested
    BY <1>3, <2>1 DEF StopRead, on_stop
  <2>. QED
    BY <1>3, <2>2, <2>3 DEF StopRead, SystemInv, Session
<1>. QED
  BY <1>1, <1>2, <1>3 DEF I2CInterrupt, Serve

\* Serving the fourth byte of an interval sets it to one written as a whole, and
\* serving nothing else touches it.
LEMMA ServeSetsInterval ==
  ASSUME Conforming, SystemInv, I2CInterrupt
  PROVE  s_wake_interval_sec' \in
           IF EventKind = "interval" THEN WholeIntervals ELSE {s_wake_interval_sec}
<1>1. CASE EventKind = "interval"
  <2>1. StoreInv'
    BY SystemKeepsStoreInv DEF SystemInv, SystemNext
  <2>. QED
    BY <1>1, <2>1 DEF StoreInv, Kept, NoTornField, WholeIntervals
<1>2. CASE EventKind # "interval"
  <2>1. CASE WriteByte /\ event.kind = "byte"
    <3>1. /\ m_phase = "write" /\ m_txn \in Writes /\ m_moved \in Nat
          /\ m_txn.reg \in Byte /\ m_moved < Len(m_txn.payload)
          /\ Len(m_txn.payload) \in Nat /\ Len(m_txn.payload) <= OffsetModulus
      BY <2>1, TransactionTypes
         DEF WriteByte, SystemInv, StoreInv, BusInv, MasterTypes, Conforming
    <3>2. m_moved % OffsetModulus = m_moved
      BY <3>1, RegistersAssumption
    <3>3. /\ s_have_pointer /\ s_field_offset = m_moved
          /\ s_active_reg = IF m_txn.reg \in Register THEN m_txn.reg ELSE REG_NONE
      BY <3>1, <3>2 DEF SystemInv, StoreInv, Followed, BusInv, InStep
    <3>4. ~(m_txn.reg = REG_WAKE_INTERVAL_SEC /\ m_moved = 3)
      BY <1>2, <2>1, <3>1 DEF EventKind
    <3>5. ~(s_active_reg = REG_WAKE_INTERVAL_SEC /\ s_field_offset = 3)
      BY <3>3, <3>4 DEF Register, REG_NONE, REG_STATUS, REG_WAKE_INTERVAL_SEC
    <3>6. s_wake_interval_sec' = s_wake_interval_sec
      BY <2>1, <3>5
         DEF WriteByte, on_write_byte, SelectRegister, WriteContextLength,
             WriteContextData, WriteCommand, WriteWakeInterval, WriteIgnored, store
    <3>. QED
      BY <1>2, <3>6
  <2>2. CASE \E phase, txn : Start(phase, txn)
    <3>1. ~s_have_pointer
      BY <2>2 DEF Start, SystemInv, StoreInv, Followed
    <3>2. s_wake_interval_sec' = s_wake_interval_sec
      BY <2>2, <3>1, ByteSelects DEF Start, SelectRegister, store
    <3>. QED
      BY <1>2, <3>2
  <2>3. CASE FetchByte \/ StopWrite \/ StopRead
    BY <1>2, <2>3 DEF FetchByte, StopWrite, StopRead, on_read_request, on_stop, store
  <2>. QED
    BY <2>1, <2>2, <2>3 DEF I2CInterrupt, Serve, StartWrite, StartRead
<1>. QED
  BY <1>1, <1>2

\* So the interrupt is VaultCore's...
LEMMA InterruptRefines ==
  ASSUME Conforming, SystemInv, I2CInterrupt
  PROVE  LoopProofs!I2CInterrupt
<1>1. /\ event # NoEvent /\ ~irq_masked /\ event' = NoEvent
      /\ UNCHANGED <<pc, irq_masked, other_irq, rail, slave_on, isolated,
                     timer, armed_interval, losses, main>>
  BY DEF I2CInterrupt, loopVars
<1>2. EventKind # "none"
  BY <1>1, PendingKinds DEF SystemInv
<1>3. EventKind' = "none"
  BY <1>1 DEF EventKind, NoEvent
<1>4. s_done_requested' = (s_done_requested \/ EventKind = "done")
  <2>1. s_done_requested' \in BOOLEAN
    BY SystemKeepsStoreInv DEF SystemInv, SystemNext, StoreInv, BusInv, RegInv, TypeOK
  <2>. QED
    BY <2>1, ServeLatchesDone, Zenon
<1>. QED
  BY <1>1, <1>2, <1>3, <1>4, ServeSetsInterval, Zenon
     DEF LoopProofs!I2CInterrupt, LoopProofs!bus, LoopProofs!alarm

\* ...what comes next on the wire is a START, a byte or a STOP...
LEMMA UpcomingTypes ==
  ASSUME MasterTypes
  PROVE  \A e \in Upcoming :
           /\ e.kind \in {"write", "read", "byte", "stop"}
           /\ e.kind = "write" => e.txn \in Writes
           /\ e.kind = "read" => e.txn \in Reads
<1>1. CASE m_phase = "idle"
  BY <1>1 DEF Upcoming
<1>2. CASE m_phase = "write"
  BY <1>2 DEF Upcoming
<1>3. CASE m_phase = "read"
  BY <1>3 DEF Upcoming
<1>. QED
  BY <1>1, <1>2, <1>3 DEF MasterTypes

\* ...what the main MCU does is a byte or, once in a cycle, its DONE...
LEMMA MainRefines ==
  ASSUME SystemInv, MainTransfers
  PROVE  LoopProofs!MainTransfers \/ LoopProofs!MainFinishes
<1>1. /\ rail /\ slave_on /\ event = NoEvent /\ event' \in Upcoming
      /\ main' = IF event'.kind = "stop" /\ SaysDone THEN "finished" ELSE main
      /\ UNCHANGED <<busVars, loopVars>>
  BY DEF MainTransfers
<1>2. /\ UNCHANGED <<pc, irq_masked, other_irq, rail, slave_on, isolated,
                     timer, armed_interval, losses>>
      /\ UNCHANGED <<s_done_requested, s_wake_interval_sec>>
      /\ UNCHANGED <<m_phase, m_txn, m_moved, h_done>>
  BY <1>1 DEF loopVars, busVars, regVars, store, flags, masterVars, historyVars
<1>3. EventKind = "none"
  BY <1>1 DEF EventKind, NoEvent
<1>4. event'.kind \in {"write", "read", "byte", "stop"}
  BY <1>1, UpcomingTypes DEF SystemInv, StoreInv, BusInv
<1>5. EventKind' \in {"byte", "interval", "done"}
  BY <1>4 DEF EventKind
<1>6. SaysDone' <=> SaysDone
  BY <1>2 DEF SaysDone
<1>7. EventKind' = "done" <=> event'.kind = "stop" /\ SaysDone /\ ~h_done
  BY <1>2, <1>4, <1>6 DEF EventKind
<1>8. main \in {"working", "finished"} /\ (s_done_requested => main = "finished")
  BY <1>1 DEF SystemInv, LoopProofs!CoreInv, LoopProofs!TypeOK,
              LoopProofs!HardwareFollowsPc, LoopProofs!DoneFollowsMain
<1>9. main = "finished" <=> h_done
  <2>1. main = "finished" => s_done_requested
    BY <1>3 DEF SystemInv, LoopProofs!CoreInv, LoopProofs!DoneFollowsMain
  <2>2. s_done_requested <=> h_done
    BY DEF SystemInv, Session, StoreInv, Kept, DoneOnlyWhenCommanded
  <2>. QED
    BY <1>8, <2>1, <2>2
<1>10. UNCHANGED <<LoopProofs!regs, LoopProofs!bus, LoopProofs!alarm>>
  BY <1>2 DEF LoopProofs!regs, LoopProofs!bus, LoopProofs!alarm
<1>11. CASE EventKind' = "done"
  <2>1. main = "working" /\ main' = "finished"
    BY <1>1, <1>7, <1>8, <1>9, <1>11
  <2>2. LoopProofs!BusEvent("done")
    BY <1>1, <1>2, <1>3, <1>10, <1>11 DEF LoopProofs!BusEvent
  <2>. QED
    BY <2>1, <2>2 DEF LoopProofs!MainFinishes
<1>12. CASE EventKind' # "done"
  <2>1. main' = main
    BY <1>1, <1>7, <1>9, <1>12
  <2>2. LoopProofs!BusEvent(EventKind')
    BY <1>1, <1>2, <1>3, <1>10 DEF LoopProofs!BusEvent
  <2>3. EventKind' = "byte" \/ EventKind' = "interval"
    BY <1>5, <1>12
  <2>4. \E kind \in {"byte", "interval"} : LoopProofs!BusEvent(kind)
    <3>1. CASE EventKind' = "byte"
      <4>1. LoopProofs!BusEvent("byte")
        BY <1>1, <1>2, <1>3, <1>10, <3>1 DEF LoopProofs!BusEvent
      <4>. QED
        BY <4>1
    <3>2. CASE EventKind' = "interval"
      <4>1. LoopProofs!BusEvent("interval")
        BY <1>1, <1>2, <1>3, <1>10, <3>2 DEF LoopProofs!BusEvent
      <4>. QED
        BY <4>1
    <3>. QED
      BY <2>3, <3>1, <3>2
  <2>. QED
    BY <1>8, <2>1, <2>4 DEF LoopProofs!MainTransfers
<1>. QED
  BY <1>11, <1>12

\* ...and the calls that touch the register file or the wire are the loop's own.
LEMMA ResetIsTheLoops ==
  ASSUME SystemInv, ResetForCycle
  PROVE  LoopProofs!ResetForCycle
<1>1. /\ pc = "reset_for_cycle" /\ pc' = "slave_init" /\ s_done_requested' = FALSE
      /\ s_wake_interval_sec' = s_wake_interval_sec
      /\ UNCHANGED <<irq_masked, other_irq, rail, slave_on, isolated,
                     timer, armed_interval, losses, main, event>>
  BY Zenon DEF ResetForCycle, reset_for_cycle, store
<1>2. EventKind = "none"
  BY <1>1, PendingKinds
     DEF SystemInv, LoopProofs!CoreInv, LoopProofs!DoneFollowsMain, LoopProofs!Powered
<1>3. EventKind' = "none"
  <2>1. event = NoEvent /\ event' = NoEvent
    BY <1>1, <1>2, PendingKinds DEF SystemInv
  <2>. QED
    BY <2>1 DEF EventKind, NoEvent
<1>. QED
  BY <1>1, <1>2, <1>3, Zenon
     DEF LoopProofs!ResetForCycle, LoopProofs!Goto, LoopProofs!cpu, LoopProofs!bus,
         LoopProofs!alarm

\* Shutting the slave down drops what is pending there and here.
LEMMA SlaveDeinitIsTheLoops ==
  ASSUME SlaveDeinit
  PROVE  LoopProofs!SlaveDeinit
<1>1. EventKind' = "none"
  BY DEF SlaveDeinit, EventKind, NoEvent
<1>2. UNCHANGED <<s_done_requested, s_wake_interval_sec>>
  BY DEF SlaveDeinit, busVars, regVars, store, flags
<1>. QED
  BY <1>1, <1>2
     DEF SlaveDeinit, LoopProofs!SlaveDeinit, LoopProofs!Goto, LoopProofs!regs,
         LoopProofs!alarm

\* A loss of supply takes the loop back to its start.
LEMMA LossIsTheLoops ==
  ASSUME SupplyLost
  PROVE  LoopProofs!SupplyLost
<1>1. EventKind' = "none"
  BY DEF SupplyLost, EventKind, NoEvent
<1>. QED
  BY <1>1 DEF SupplyLost, LoopProofs!SupplyLost

\* Loop and LoopProofs are the same module under the same reading, and so are
\* their steps, one by one.
LEMMA SameSteps ==
  /\ Loop!ResetForCycle <=> LoopProofs!ResetForCycle
  /\ Loop!SlaveInit <=> LoopProofs!SlaveInit
  /\ Loop!RailOn <=> LoopProofs!RailOn
  /\ Loop!IrqDisable <=> LoopProofs!IrqDisable
  /\ Loop!CheckDone <=> LoopProofs!CheckDone
  /\ Loop!WaitForInterrupt <=> LoopProofs!WaitForInterrupt
  /\ Loop!IrqEnable <=> LoopProofs!IrqEnable
  /\ Loop!RailOff <=> LoopProofs!RailOff
  /\ Loop!SlaveDeinit <=> LoopProofs!SlaveDeinit
  /\ Loop!BusIsolate <=> LoopProofs!BusIsolate
  /\ Loop!TimerArm <=> LoopProofs!TimerArm
  /\ Loop!WakeFromSleep <=> LoopProofs!WakeFromSleep
  /\ Loop!I2CInterrupt <=> LoopProofs!I2CInterrupt
  /\ Loop!OtherInterrupt <=> LoopProofs!OtherInterrupt
  /\ Loop!OtherRaised <=> LoopProofs!OtherRaised
  /\ Loop!MainTransfers <=> LoopProofs!MainTransfers
  /\ Loop!MainFinishes <=> LoopProofs!MainFinishes
  /\ Loop!TimerFires <=> LoopProofs!TimerFires
  /\ Loop!SupplyLost <=> LoopProofs!SupplyLost
<1>. USE DEF Loop!Goto, LoopProofs!Goto, Loop!cpu, LoopProofs!cpu, Loop!regs,
             LoopProofs!regs, Loop!bus, LoopProofs!bus, Loop!alarm, LoopProofs!alarm,
             Loop!BusEvent, LoopProofs!BusEvent
<1>1. Loop!ResetForCycle <=> LoopProofs!ResetForCycle
  BY DEF Loop!ResetForCycle, LoopProofs!ResetForCycle
<1>2. Loop!SlaveInit <=> LoopProofs!SlaveInit
  BY DEF Loop!SlaveInit, LoopProofs!SlaveInit
<1>3. Loop!RailOn <=> LoopProofs!RailOn
  BY DEF Loop!RailOn, LoopProofs!RailOn
<1>4. Loop!IrqDisable <=> LoopProofs!IrqDisable
  BY DEF Loop!IrqDisable, LoopProofs!IrqDisable
<1>5. Loop!CheckDone <=> LoopProofs!CheckDone
  BY DEF Loop!CheckDone, LoopProofs!CheckDone
<1>6. Loop!WaitForInterrupt <=> LoopProofs!WaitForInterrupt
  BY DEF Loop!WaitForInterrupt, LoopProofs!WaitForInterrupt
<1>7. Loop!IrqEnable <=> LoopProofs!IrqEnable
  BY DEF Loop!IrqEnable, LoopProofs!IrqEnable
<1>8. Loop!RailOff <=> LoopProofs!RailOff
  BY DEF Loop!RailOff, LoopProofs!RailOff
<1>9. Loop!SlaveDeinit <=> LoopProofs!SlaveDeinit
  BY DEF Loop!SlaveDeinit, LoopProofs!SlaveDeinit
<1>10. Loop!BusIsolate <=> LoopProofs!BusIsolate
  BY DEF Loop!BusIsolate, LoopProofs!BusIsolate
<1>11. Loop!TimerArm <=> LoopProofs!TimerArm
  BY DEF Loop!TimerArm, LoopProofs!TimerArm
<1>12. Loop!WakeFromSleep <=> LoopProofs!WakeFromSleep
  BY DEF Loop!WakeFromSleep, LoopProofs!WakeFromSleep
<1>13. Loop!I2CInterrupt <=> LoopProofs!I2CInterrupt
  BY DEF Loop!I2CInterrupt, LoopProofs!I2CInterrupt
<1>14. Loop!OtherInterrupt <=> LoopProofs!OtherInterrupt
  BY DEF Loop!OtherInterrupt, LoopProofs!OtherInterrupt
<1>15. Loop!OtherRaised <=> LoopProofs!OtherRaised
  BY DEF Loop!OtherRaised, LoopProofs!OtherRaised
<1>16. Loop!MainTransfers <=> LoopProofs!MainTransfers
  BY DEF Loop!MainTransfers, LoopProofs!MainTransfers
<1>17. Loop!MainFinishes <=> LoopProofs!MainFinishes
  BY DEF Loop!MainFinishes, LoopProofs!MainFinishes
<1>18. Loop!TimerFires <=> LoopProofs!TimerFires
  BY DEF Loop!TimerFires, LoopProofs!TimerFires
<1>19. Loop!SupplyLost <=> LoopProofs!SupplyLost
  BY DEF Loop!SupplyLost, LoopProofs!SupplyLost
<1>. QED
  BY <1>1, <1>2, <1>3, <1>4, <1>5, <1>6, <1>7, <1>8, <1>9, <1>10, <1>11, <1>12,
     <1>13, <1>14, <1>15, <1>16, <1>17, <1>18, <1>19

\* So are the next-state relations, and the variables.
LEMMA SameLoop == [LoopProofs!Next]_(LoopProofs!vars) => [Loop!Next]_(Loop!vars)
<1>1. UNCHANGED LoopProofs!vars => UNCHANGED Loop!vars
  BY DEF Loop!vars, LoopProofs!vars, Loop!cpu, LoopProofs!cpu, Loop!regs,
         LoopProofs!regs, Loop!bus, LoopProofs!bus, Loop!alarm, LoopProofs!alarm
<1>2. LoopProofs!Next => Loop!Next
  BY SameSteps
     DEF Loop!Next, LoopProofs!Next, Loop!vault_core_step, LoopProofs!vault_core_step
<1>. QED
  BY <1>1, <1>2

\* The steps that VaultSystem takes from VaultCore as they are.
LEMMA OthersAreTheLoops ==
  ASSUME LoopAlone \/ Others \/ TimerFires
  PROVE  LoopProofs!Next
  BY SameSteps
     DEF LoopAlone, Others, TimerFires, LoopProofs!Next, LoopProofs!vault_core_step

\* Every step of the system is a step of VaultCore or none.
LEMMA SystemStepRefinesLoop ==
  ASSUME Conforming, SystemInv, [SystemNext]_systemVars
  PROVE  [LoopProofs!Next]_(LoopProofs!vars)
<1>1. CASE CoreStep
  BY <1>1, ResetIsTheLoops, SlaveDeinitIsTheLoops, OthersAreTheLoops
     DEF CoreStep, LoopProofs!Next, LoopProofs!vault_core_step
<1>2. CASE I2CInterrupt
  BY <1>2, InterruptRefines DEF LoopProofs!Next
<1>3. CASE Others \/ TimerFires
  BY <1>3, OthersAreTheLoops
<1>4. CASE MainTransfers
  BY <1>4, MainRefines DEF LoopProofs!Next
<1>5. CASE SupplyLost
  BY <1>5, LossIsTheLoops DEF LoopProofs!Next
<1>6. CASE UNCHANGED systemVars
  <2>1. /\ UNCHANGED <<s_done_requested, s_wake_interval_sec>>
        /\ UNCHANGED <<m_phase, m_txn, m_moved, h_done>>
        /\ UNCHANGED <<pc, irq_masked, other_irq, rail, slave_on, isolated,
                       timer, armed_interval, losses, main, event>>
    BY <1>6 DEF systemVars, loopVars, busVars, regVars, store, flags, masterVars,
                historyVars
  <2>2. EventKind' = EventKind
    BY <2>1 DEF EventKind, SaysDone
  <2>. QED
    BY <2>1, <2>2, Zenon DEF LoopProofs!vars, LoopProofs!cpu, LoopProofs!regs,
                             LoopProofs!bus, LoopProofs!alarm
<1>. QED
  BY <1>1, <1>2, <1>3, <1>4, <1>5, <1>6 DEF SystemNext

-----------------------------------------------------------------------------
(* The two together. *)
\* A vault that has just got its supply has nothing pending.
LEMMA SystemInvInit == SystemInit => SystemInv /\ LoopProofs!Init
<1>. SUFFICES ASSUME SystemInit PROVE SystemInv /\ LoopProofs!Init
  OBVIOUS
<1>1. StoreInv
  BY StoreInvInit DEF SystemInit
<1>2. EventTypes /\ Session
  BY DEF SystemInit, NoEvent, EventTypes, Session, BusInit
<1>3. LoopProofs!Init
  <2>1. EventKind = "none"
    BY DEF SystemInit, NoEvent, EventKind
  <2>2. s_done_requested = FALSE /\ s_wake_interval_sec = DefaultInterval
    BY DEF SystemInit, BusInit, Init
  <2>. QED
    BY <2>1, <2>2 DEF SystemInit, LoopProofs!Init
<1>4. LoopProofs!CoreInv
  BY <1>3, LoopAssumption, LoopProofs!CoreInvInit
<1>. QED
  BY <1>1, <1>2, <1>3, <1>4 DEF SystemInv

\* What is raised is of the right kind, and waits.
LEMMA SystemKeepsEvent ==
  ASSUME SystemInv, [SystemNext]_systemVars
  PROVE  EventTypes'
<1>1. CASE MainTransfers
  <2>1. event' \in Upcoming
    BY <1>1 DEF MainTransfers
  <2>. QED
    BY <2>1, UpcomingTypes DEF EventTypes, SystemInv, StoreInv, BusInv
<1>2. CASE event' = event
  BY <1>2 DEF EventTypes, SystemInv
<1>3. CASE event' = NoEvent
  BY <1>3 DEF EventTypes, NoEvent
<1>. QED
  BY <1>1, <1>2, <1>3
     DEF SystemNext, CoreStep, ResetForCycle, LoopAlone, SlaveDeinit, I2CInterrupt, Others,
         TimerFires, SupplyLost, systemVars

\* A DONE that was said stays latched until its cycle is over.
LEMMA SystemKeepsSession ==
  ASSUME Conforming, SystemInv, [SystemNext]_systemVars, LoopProofs!CoreInv'
  PROVE  Session'
<1>1. CASE ResetForCycle
  BY <1>1 DEF ResetForCycle, Session
<1>2. CASE SupplyLost
  BY <1>2 DEF SupplyLost, Idle, Session
<1>3. CASE I2CInterrupt
  <2>1. h_done' => s_done_requested'
    BY <1>3, ServeLatchesDone
  <2>2. pc' # "reset_for_cycle"
    BY <1>3, PendingKinds
       DEF I2CInterrupt, loopVars, SystemInv, LoopProofs!CoreInv,
           LoopProofs!DoneFollowsMain, LoopProofs!Powered
  <2>. QED
    BY <2>1, <2>2 DEF Session
<1>4. CASE LoopAlone
  <2>1. pc' = "reset_for_cycle" => pc = "reset_for_cycle" \/ pc = "sleep"
    BY <1>4 DEF LoopAlone, Loop!Goto, Loop!SlaveInit, Loop!RailOn, Loop!IrqDisable,
                Loop!CheckDone, Loop!WaitForInterrupt, Loop!IrqEnable, Loop!RailOff,
                Loop!BusIsolate, Loop!TimerArm, Loop!WakeFromSleep
  <2>2. pc = "sleep" => s_done_requested
    BY DEF SystemInv, LoopProofs!CoreInv, LoopProofs!DoneFollowsMain, LoopProofs!Leaving
  <2>3. UNCHANGED <<h_done, s_done_requested, m_phase>>
    BY <1>4 DEF LoopAlone, busVars, regVars, flags, masterVars, historyVars
  <2>. QED
    BY <2>1, <2>2, <2>3 DEF Session, SystemInv
<1>5. CASE SlaveDeinit \/ Others \/ TimerFires \/ MainTransfers \/ UNCHANGED systemVars
  <2>1. UNCHANGED <<h_done, s_done_requested, m_phase>>
    BY <1>5 DEF SlaveDeinit, Others, TimerFires, MainTransfers, systemVars, busVars,
                regVars, flags, masterVars, historyVars
  <2>2. pc' = "reset_for_cycle" => pc = "reset_for_cycle"
    BY <1>5 DEF SlaveDeinit, Others, TimerFires, MainTransfers, systemVars, loopVars,
                Loop!OtherInterrupt, Loop!OtherRaised, Loop!TimerFires
  <2>. QED
    BY <2>1, <2>2 DEF Session, SystemInv
<1>. QED
  BY <1>1, <1>2, <1>3, <1>4, <1>5 DEF SystemNext, CoreStep

\* Each side keeps its invariant with the help of the other's.
LEMMA SystemInvInductive ==
  ASSUME Conforming
  PROVE  SystemInv /\ [SystemNext]_systemVars => SystemInv'
<1>. SUFFICES ASSUME SystemInv, [SystemNext]_systemVars PROVE SystemInv'
  OBVIOUS
<1>1. StoreInv'
  BY SystemKeepsStoreInv DEF SystemInv
<1>2. LoopProofs!CoreInv'
  BY SystemStepRefinesLoop, LoopAssumption, LoopProofs!CoreInvInductive DEF SystemInv
<1>. QED
  BY <1>1, <1>2, SystemKeepsEvent, SystemKeepsSession DEF SystemInv

\* So it is in every reachable state.
LEMMA SystemInvHolds ==
  ASSUME Conforming
  PROVE  SystemSpec => []SystemInv
<1>1. SystemInit => SystemInv
  BY SystemInvInit
<1>2. SystemInv /\ [SystemNext]_systemVars => SystemInv'
  BY SystemInvInductive
<1>. QED
  BY <1>1, <1>2, PTL DEF SystemSpec

-----------------------------------------------------------------------------
\* With the loop around it, masking the interrupt, dropping what is pending and
\* cutting the power, the register file is still the store the main MCU was
\* promised: only a loss of the vault's own supply takes anything away.
THEOREM SystemImplementsStore ==
  ASSUME Conforming
  PROVE  SystemSpec => StoreImplemented
<1>1. SystemInit => Abstract!Init
  BY DEF SystemInit, BusInit, Init, Abstract!Init, Stored, ContextOffset
<1>2. SystemInv /\ [SystemNext]_systemVars
        => [Abstract!Next \/ SupplyLost]_(Abstract!absVars)
  BY SystemStepRefinesStore
<1>. QED
  BY <1>1, <1>2, SystemInvHolds, PTL DEF SystemSpec, StoreImplemented

\* With the register file in full behind it the loop takes no step that VaultCore
\* does not: the safety part of CoreImplemented.
THEOREM SystemImplementsLoop ==
  ASSUME Conforming
  PROVE  SystemSpec => Loop!Spec
<1>1. SystemInit => Loop!Init
  BY SystemInvInit DEF LoopProofs!Init, Loop!Init
<1>2. SystemInv /\ [SystemNext]_systemVars => [Loop!Next]_(Loop!vars)
  BY SystemStepRefinesLoop, SameLoop
<1>. QED
  BY <1>1, <1>2, SystemInvHolds, PTL DEF SystemSpec, Loop!Spec

\* So what is proved of VaultCore holds of the whole vault, along with what is
\* proved of the register file: a main MCU with power finds the slave live, the
\* vault sleeps isolated, unmasked and armed with the interval a read would have
\* given, which some transaction wrote as a whole; and it takes DONE only when
\* the main MCU has said it and is through.
THEOREM SystemSafe ==
  ASSUME Conforming
  PROVE  SystemSpec => [](/\ Loop!PoweredMainFindsSlave
                          /\ Loop!SleepsSafely
                          /\ Loop!DoneLatchIsThisCycles
                          /\ DoneOnlyWhenCommanded
                          /\ ValidMeansWholeTransfer
                          /\ NoTornField)
<1>1. SystemInv => /\ Loop!PoweredMainFindsSlave
                   /\ Loop!SleepsSafely
                   /\ Loop!DoneLatchIsThisCycles
  BY DEF SystemInv, LoopProofs!CoreInv, LoopProofs!TypeOK, LoopProofs!Label,
         LoopProofs!HardwareFollowsPc, LoopProofs!DoneFollowsMain, LoopProofs!Powered,
         LoopProofs!Masked, LoopProofs!Serving, LoopProofs!Leaving,
         Loop!PoweredMainFindsSlave, Loop!SleepsSafely, Loop!DoneLatchIsThisCycles
<1>2. SystemInv => DoneOnlyWhenCommanded /\ ValidMeansWholeTransfer /\ NoTornField
  BY DEF SystemInv, StoreInv, Kept
<1>. QED
  BY <1>1, <1>2, SystemInvHolds, PTL

\* The main MCU loses its power, but for a loss of the vault's own supply, only
\* when the STOP of a whole COMMAND = DONE of this cycle has been served: neither
\* a DONE cut short nor one of an earlier cycle, nor any other traffic, ends it.
THEOREM SystemCutsPowerOnlyAfterDone ==
  ASSUME Conforming
  PROVE  SystemSpec => [][rail /\ ~rail' /\ losses' = losses
                            => h_done /\ main = "finished"]_systemVars
<1>. DEFINE Step == rail /\ ~rail' /\ losses' = losses => h_done /\ main = "finished"
<1>1. SystemInv /\ [SystemNext]_systemVars => [Step]_systemVars
  <2>. SUFFICES ASSUME SystemInv, SystemNext PROVE Step
    OBVIOUS
  <2>1. CASE LoopAlone
    <3>1. CASE Loop!RailOff
      <4>1. pc = "rail_off"
        BY <3>1 DEF Loop!RailOff, Loop!Goto
      <4>2. s_done_requested /\ main = "finished"
        BY <4>1 DEF SystemInv, LoopProofs!CoreInv, LoopProofs!DoneFollowsMain,
                    LoopProofs!Leaving, LoopProofs!Powered
      <4>3. h_done
        BY <4>2 DEF SystemInv, StoreInv, Kept, DoneOnlyWhenCommanded
      <4>. QED
        BY <4>2, <4>3
    <3>2. CASE ~Loop!RailOff
      BY <2>1, <3>2
         DEF LoopAlone, Loop!SlaveInit, Loop!RailOn, Loop!IrqDisable, Loop!CheckDone,
             Loop!WaitForInterrupt, Loop!IrqEnable, Loop!BusIsolate, Loop!TimerArm,
             Loop!WakeFromSleep, Loop!bus
    <3>. QED
      BY <3>1, <3>2
  <2>2. CASE ResetForCycle \/ SlaveDeinit \/ I2CInterrupt \/ MainTransfers
    BY <2>2 DEF ResetForCycle, SlaveDeinit, I2CInterrupt, MainTransfers, loopVars
  <2>3. CASE Others \/ TimerFires
    BY <2>3 DEF Others, TimerFires, Loop!OtherInterrupt, Loop!OtherRaised,
                Loop!TimerFires, Loop!bus
  <2>4. CASE SupplyLost
    <3>1. losses \in Nat
      BY DEF SystemInv, LoopProofs!CoreInv, LoopProofs!TypeOK
    <3>. QED
      BY <2>4, <3>1 DEF SupplyLost
  <2>. QED
    BY <2>1, <2>2, <2>3, <2>4 DEF SystemNext, CoreStep
<1>. QED
  BY <1>1, SystemInvHolds, PTL DEF SystemSpec
==============================================================================

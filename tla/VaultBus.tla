------------------------------ MODULE VaultBus ------------------------------
(***************************************************************************)
(* The register file behind the bus: a master (the main MCU, external)     *)
(* that runs whole I2C transactions against it.                            *)
(*                                                                         *)
(* A write is the pointer byte, the payload and a STOP; a read is the      *)
(* pointer byte, a repeated START, the bytes read and a STOP.  STM32       *)
(* backends fetch up to two bytes beyond the last one the master reads     *)
(* (HalSlave).  Once the done latch is up the core may cut the master's    *)
(* power at any moment, between two bytes too, and starts the next cycle   *)
(* with reset_for_cycle.                                                   *)
(* A master that resets itself in mid-transaction (watchdog, brown-out)    *)
(* gives no STOP and starts over; MaxRestarts bounds how often.            *)
(***************************************************************************)
EXTENDS VaultRegisters, Sequences

CONSTANTS
  Writes,       \* transactions [reg, payload] the master may write
  Reads,        \* transactions [reg, count] the master may read
  MaxRestarts   \* bound on master resets without a STOP

ASSUME BusAssumption ==
  /\ \A w \in Writes : w.reg \in Byte /\ w.payload \in Seq(Byte)
  /\ \A r \in Reads : r.reg \in Byte /\ r.count \in Nat \ {0}
  /\ MaxRestarts \in Nat

VARIABLES
  m_phase,      \* "idle", "write" or "read"
  m_txn,        \* the transaction in progress
  m_moved,      \* bytes moved after the pointer byte
  m_reading,    \* the bytes read so far
  m_reply,      \* the bytes of the last read that reached its STOP
  m_restarts,   \* resets so far
  \* History, for the properties only:
  h_before,     \* the stored values when the transaction started
  h_context,    \* a CONTEXT_DATA write ran from its pointer byte to its STOP
  h_done,       \* COMMAND = DONE did, in this cycle
  h_in_step,    \* the transaction in progress found the register file idle
  h_spoiled     \* how many transactions did not

masterVars == <<m_phase, m_txn, m_moved, m_reading, m_reply, m_restarts>>
historyVars == <<h_before, h_context, h_done, h_in_step, h_spoiled>>
busVars == <<regVars, masterVars, historyVars>>

NoTxn == [reg |-> REG_NONE]

\* What the registers hold, as the next reader will see it.
Stored == [data |-> s_context, length |-> s_context_length,
           interval |-> s_wake_interval_sec, valid |-> s_context_valid,
           done |-> s_done_requested]

BusInit ==
  /\ Init
  /\ m_phase = "idle"
  /\ m_txn = NoTxn
  /\ m_moved = 0
  /\ m_reading = <<>>
  /\ m_reply = <<>>
  /\ m_restarts = 0
  /\ h_before = Stored
  /\ h_context = FALSE
  /\ h_done = FALSE
  /\ h_in_step = TRUE
  /\ h_spoiled = 0

-----------------------------------------------------------------------------
\* START, address and pointer byte.
Start(phase, txn) ==
  /\ m_phase = "idle"
  /\ on_write_byte(txn.reg)
  /\ m_phase' = phase
  /\ m_txn' = txn
  /\ m_moved' = 0
  /\ m_reading' = <<>>
  /\ h_before' = Stored
  /\ h_in_step' = ~s_have_pointer
  /\ h_spoiled' = h_spoiled + (IF s_have_pointer THEN 1 ELSE 0)
  /\ UNCHANGED <<m_reply, m_restarts, h_context, h_done>>

StartWrite(w) == Start("write", w)
StartRead(r) == Start("read", r)

WriteByte ==
  /\ m_phase = "write"
  /\ m_moved < Len(m_txn.payload)
  /\ on_write_byte(m_txn.payload[m_moved + 1])
  /\ m_moved' = m_moved + 1
  /\ UNCHANGED <<m_phase, m_txn, m_reading, m_reply, m_restarts, historyVars>>

\* The bytes after the last one are fetched by some backends and go nowhere.
FetchByte ==
  /\ m_phase = "read"
  /\ m_moved < m_txn.count + 2
  /\ on_read_request
  /\ m_moved' = m_moved + 1
  /\ m_reading' = IF m_moved < m_txn.count THEN Append(m_reading, ReadByte) ELSE m_reading
  /\ UNCHANGED <<m_phase, m_txn, m_reply, m_restarts, historyVars>>

Idle ==
  /\ m_phase' = "idle"
  /\ m_txn' = NoTxn
  /\ m_moved' = 0
  /\ m_reading' = <<>>
  /\ h_in_step' = TRUE

StopWrite ==
  /\ m_phase = "write"
  /\ m_moved = Len(m_txn.payload)
  /\ on_stop
  /\ Idle
  /\ h_before' = Stored'
  /\ h_context' = (h_context \/ (m_txn.reg = REG_CONTEXT_DATA /\ m_moved > 0))
  /\ h_done' = (h_done \/ (/\ m_txn.reg = REG_COMMAND
                           /\ m_moved > 0
                           /\ m_txn.payload[1] = VAULT_CMD_DONE))
  /\ UNCHANGED <<m_reply, m_restarts, h_spoiled>>

StopRead ==
  /\ m_phase = "read"
  /\ m_moved >= m_txn.count
  /\ on_stop
  /\ Idle
  /\ m_reply' = m_reading
  /\ h_before' = Stored'
  /\ UNCHANGED <<m_restarts, h_context, h_done, h_spoiled>>

\* The master resets in mid-transaction: no STOP, and the rail stays on.
MasterRestart ==
  /\ m_phase # "idle"
  /\ m_restarts < MaxRestarts
  /\ m_restarts' = m_restarts + 1
  /\ Idle
  /\ UNCHANGED <<regVars, m_reply, h_before, h_context, h_done, h_spoiled>>

\* The core takes the DONE: power off wherever the master is, sleep, new cycle.
CycleEnds ==
  /\ s_done_requested
  /\ reset_for_cycle
  /\ Idle
  /\ h_before' = Stored'
  /\ h_done' = FALSE
  /\ UNCHANGED <<m_reply, m_restarts, h_context, h_spoiled>>

BusNext ==
  \/ \E w \in Writes : StartWrite(w)
  \/ \E r \in Reads : StartRead(r)
  \/ WriteByte
  \/ FetchByte
  \/ StopWrite
  \/ StopRead
  \/ MasterRestart
  \/ CycleEnds

BusSpec == BusInit /\ [][BusNext]_busVars

-----------------------------------------------------------------------------
\* Seen through its transactions the register file is TransactionStore: a
\* write takes effect as a whole at its STOP, a read returns what the last
\* completed writes left, and a power cut loses the DONE and nothing else.
\* While a transaction runs, the store is what it was when it started.
Abstract == INSTANCE TransactionStore WITH
              Size    <- ContextSize,
              Default <- DefaultInterval,
              store   <- IF m_phase = "idle" THEN Stored ELSE h_before,
              reply   <- m_reply
Transactional == Abstract!Spec

\* A transaction that found the register file idle stays in step with it to the
\* end: the register it addresses is the one selected, and the offset is the
\* number of bytes it has moved, whatever was going on before it.
InStep ==
  m_phase # "idle" /\ h_in_step =>
    /\ s_have_pointer
    /\ s_active_reg = IF m_txn.reg \in Register THEN m_txn.reg ELSE REG_NONE
    /\ s_field_offset = m_moved % OffsetModulus

\* How many bytes a register takes in a write, for those of a fixed length.
WriteWidth(reg) == CASE reg = REG_COMMAND           -> 1
                     [] reg = REG_CONTEXT_LENGTH    -> 2
                     [] reg = REG_WAKE_INTERVAL_SEC -> 4
                     [] OTHER                       -> 0

\* next_write_byte_is_last announces the byte that is the last one of a
\* fixed-length register by the master's own count, and no other: none earlier,
\* none that follows it, none of CONTEXT_DATA, and no pointer byte.  A hint too
\* many refuses a byte the master still has to send.
HintOnlyForLastByte ==
  /\ ~s_have_pointer => ~next_write_byte_is_last
  /\ m_phase = "write" /\ h_in_step =>
       (next_write_byte_is_last <=> m_moved + 1 = WriteWidth(m_txn.reg))

\* A reset of the master spoils at most the one transaction that follows it:
\* the next STOP, or the next cycle, puts the register file back in step.
SpoilsAtMostOneEach == h_spoiled <= m_restarts

\* The vault takes DONE (and will cut the power) only if the main MCU has
\* written it to COMMAND and ended that transaction with a STOP, in this cycle
\* (vault_i2c_registers.h:46-48).
DoneOnlyWhenCommanded == s_done_requested => h_done

\* A transfer that was abandoned partway never marks the buffer as valid: the
\* valid bit needs a CONTEXT_DATA write that ran to its STOP (guide 3.1).
ValidMeansWholeTransfer == s_context_valid => h_context

\* A committed multi-byte field is one the master wrote as a whole, in one
\* transaction, or the power-on value; it never mixes bytes of two.
NoTornField ==
  /\ s_wake_interval_sec \in
       {DefaultInterval} \cup
       {[i \in IntervalOffset |-> w.payload[i + 1]] :
          w \in {v \in Writes : v.reg = REG_WAKE_INTERVAL_SEC /\ Len(v.payload) >= 4}}
  /\ s_context_length \in
       {0} \cup
       {CommittedLength([i \in LengthOffset |-> w.payload[i + 1]]) :
          w \in {v \in Writes : v.reg = REG_CONTEXT_LENGTH /\ Len(v.payload) >= 2}}
=============================================================================

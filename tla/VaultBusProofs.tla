---------------------------- MODULE VaultBusProofs ----------------------------
(***************************************************************************)
(* The register file, on its own and behind a master, for every buffer     *)
(* size, every width of the offset, every set of bytes on the bus and      *)
(* every repertoire of transactions.                                       *)
(*                                                                         *)
(* The first part is about VaultRegisters alone, whatever order its entry  *)
(* points are called in: FlagsBelongToTransaction is inductive once the    *)
(* types are known, so the two action properties follow from RegInv, one   *)
(* step at a time.                                                         *)
(*                                                                         *)
(* The second allows any number of resets of the master: BusInv keeps the  *)
(* register file's own invariant (CallKeepsRegInv), what the master is     *)
(* doing, and how far the two are in step.  The third is about a master    *)
(* that ends every transaction, of a length the offset can count: then a   *)
(* transaction can be followed byte by byte from its START to its STOP,    *)
(* and the register file is an atomic store.                               *)
(***************************************************************************)
EXTENDS VaultBus, TLAPS

(* The register file. *)
RegInv == TypeOK /\ FlagsBelongToTransaction

-----------------------------------------------------------------------------
\* The value of two staged bytes, once clamped, fits the context buffer.
LEMMA CommittedLengthBounded ==
  ASSUME NEW staging \in [LengthOffset -> Byte]
  PROVE  CommittedLength(staging) \in 0 .. ContextSize
<1>1. \A low, high \in 0..255 : low + 256 * high \in Nat
  OBVIOUS
<1>2. staging[0] + 256 * staging[1] \in Nat
  <2>1. staging[0] \in 0..255 /\ staging[1] \in 0..255
    BY DEF LengthOffset, Byte
  <2>. QED
    BY <1>1, <2>1, Zenon
<1>. QED
  BY <1>2, RegistersAssumption DEF CommittedLength

\* Counting a byte keeps the offset inside its unsigned width.
LEMMA OffsetStaysInRange ==
  ASSUME TypeOK
  PROVE  NextOffset \in 0 .. OffsetModulus - 1
BY RegistersAssumption DEF NextOffset, TypeOK

\* A byte off the bus keeps every variable in range.
LEMMA WriteKeepsTypes ==
  ASSUME TypeOK, NEW byte \in Byte, on_write_byte(byte)
  PROVE  TypeOK'
<1>. NextOffset \in 0 .. OffsetModulus - 1
  BY OffsetStaysInRange
<1>. USE DEF TypeOK, store, flags
<1>1. CASE SelectRegister(byte)
  BY <1>1, RegistersAssumption DEF SelectRegister
<1>2. CASE ValueByte /\ WriteContextLength(byte)
  <2>1. s_context_length_staging' \in [LengthOffset -> Byte]
    BY <1>2 DEF WriteContextLength
  <2>2. s_context_length' \in 0 .. ContextSize
    BY <1>2, <2>1, CommittedLengthBounded DEF WriteContextLength
  <2>. QED
    BY <1>2, <2>1, <2>2 DEF ValueByte, WriteContextLength
<1>3. CASE ValueByte /\ WriteContextData(byte)
  BY <1>3 DEF ValueByte, WriteContextData
<1>4. CASE ValueByte /\ WriteCommand(byte)
  BY <1>4 DEF ValueByte, WriteCommand
<1>5. CASE ValueByte /\ WriteWakeInterval(byte)
  BY <1>5 DEF ValueByte, WriteWakeInterval
<1>6. CASE ValueByte /\ WriteIgnored
  BY <1>6 DEF ValueByte, WriteIgnored
<1>. QED
  BY <1>1, <1>2, <1>3, <1>4, <1>5, <1>6 DEF on_write_byte

\* A byte off the bus leaves the flags with the transaction they belong to.
LEMMA WriteKeepsFlags ==
  ASSUME RegInv, NEW byte \in Byte, on_write_byte(byte)
  PROVE  FlagsBelongToTransaction'
<1>. USE DEF RegInv, TypeOK, FlagsBelongToTransaction, store, flags, Register,
             REG_NONE, REG_STATUS, REG_PROTOCOL_VERSION, REG_CONTEXT_LENGTH,
             REG_CONTEXT_DATA, REG_COMMAND, REG_WAKE_INTERVAL_SEC
<1>1. CASE SelectRegister(byte)
  BY <1>1 DEF SelectRegister
<1>2. CASE ValueByte /\ WriteContextLength(byte)
  BY <1>2 DEF ValueByte, WriteContextLength
<1>3. CASE ValueByte /\ WriteContextData(byte)
  BY <1>3 DEF ValueByte, WriteContextData
<1>4. CASE ValueByte /\ WriteCommand(byte)
  BY <1>4 DEF ValueByte, WriteCommand
<1>5. CASE ValueByte /\ WriteWakeInterval(byte)
  BY <1>5 DEF ValueByte, WriteWakeInterval
<1>6. CASE ValueByte /\ WriteIgnored
  BY <1>6 DEF ValueByte, WriteIgnored
<1>. QED
  BY <1>1, <1>2, <1>3, <1>4, <1>5, <1>6 DEF on_write_byte

\* Every call keeps RegInv, whoever makes it.
LEMMA CallKeepsRegInv ==
  ASSUME RegInv,
         \/ \E byte \in Byte : on_write_byte(byte)
         \/ on_read_request \/ on_stop \/ reset_for_cycle
         \/ UNCHANGED regVars
  PROVE  RegInv'
<1>. USE DEF RegInv
<1>1. ASSUME NEW byte \in Byte, on_write_byte(byte)
      PROVE  RegInv'
  BY <1>1, WriteKeepsTypes, WriteKeepsFlags
<1>2. CASE on_read_request
  <2>1. s_field_offset' \in 0 .. OffsetModulus - 1
    BY <1>2, OffsetStaysInRange DEF on_read_request, TypeOK
  <2>. QED
    BY <1>2, <2>1 DEF on_read_request, TypeOK, FlagsBelongToTransaction, store, flags
<1>3. CASE on_stop
  <2>1. 0 \in 0 .. OffsetModulus - 1
    BY RegistersAssumption
  <2>2. /\ s_done_requested' \in BOOLEAN
        /\ s_context_valid' \in BOOLEAN
    BY <1>3, Zenon DEF on_stop, TypeOK
  <2>. QED
    BY <1>3, <2>1, <2>2
       DEF on_stop, ForgetPointer, TypeOK, FlagsBelongToTransaction, store
<1>4. CASE reset_for_cycle
  <2>1. 0 \in 0 .. OffsetModulus - 1
    BY RegistersAssumption
  <2>. QED
    BY <1>4, <2>1
       DEF reset_for_cycle, ForgetPointer, TypeOK, FlagsBelongToTransaction, store
<1>5. CASE UNCHANGED regVars
  BY <1>5 DEF regVars, store, pointer, flags, TypeOK, FlagsBelongToTransaction
<1>. QED
  BY <1>1, <1>2, <1>3, <1>4, <1>5

\* No flag is up at start.
LEMMA RegInvInit == Init => RegInv
<1>. SUFFICES ASSUME Init PROVE RegInv
  OBVIOUS
<1>1. 0 \in 0 .. ContextSize /\ 0 \in 0 .. OffsetModulus - 1
  BY RegistersAssumption
<1>2. /\ s_context \in [ContextOffset -> Byte]
      /\ s_context_length_staging \in [LengthOffset -> Byte]
      /\ s_wake_interval_sec \in [IntervalOffset -> Byte]
      /\ s_wake_interval_staging \in [IntervalOffset -> Byte]
  BY DEF Init, DefaultInterval, Byte
<1>. QED
  BY <1>1, <1>2 DEF Init, RegInv, TypeOK, FlagsBelongToTransaction

\* The four entry points, in any order, keep RegInv.
LEMMA RegInvInductive == RegInv /\ [Next]_regVars => RegInv'
<1>1. WireByte \subseteq Byte
  BY RegistersAssumption DEF Byte, WireByte
<1>. QED
  BY <1>1, CallKeepsRegInv DEF Next

\* Type correctness and FlagsBelongToTransaction are invariants of the register
\* file, whatever order the calls come in.
THEOREM RegistersSafe == Spec => [](TypeOK /\ FlagsBelongToTransaction)
  BY RegInvInit, RegInvInductive, PTL DEF Spec, RegInv

-----------------------------------------------------------------------------
\* Only the STOP of a COMMAND transaction raises the done latch, only the STOP
\* of a CONTEXT_DATA transaction raises the valid bit.
THEOREM LatchesRaisedOnlyByOwnStop == Spec => RaisedOnlyByOwnStop
<1>. DEFINE Step == /\ ~s_done_requested /\ s_done_requested'
                         => s_active_reg = REG_COMMAND /\ ~s_have_pointer'
                    /\ ~s_context_valid /\ s_context_valid'
                         => s_active_reg = REG_CONTEXT_DATA /\ ~s_have_pointer'
<1>1. RegInv /\ [Next]_regVars => [Step]_regVars
  <2>. SUFFICES ASSUME RegInv, Next PROVE Step
    OBVIOUS
  <2>1. ASSUME NEW byte \in WireByte, on_write_byte(byte) PROVE Step
    BY <2>1 DEF on_write_byte, SelectRegister, ValueByte, flags
  <2>2. CASE on_read_request
    BY <2>2 DEF on_read_request, flags
  <2>3. CASE on_stop
    BY <2>3 DEF on_stop, ForgetPointer, RegInv, FlagsBelongToTransaction
  <2>4. CASE reset_for_cycle
    BY <2>4 DEF reset_for_cycle
  <2>. QED
    BY <2>1, <2>2, <2>3, <2>4 DEF Next
<1>2. Spec => []RegInv
  BY RegistersSafe DEF RegInv
<1>. QED
  BY <1>1, <1>2, PTL DEF Spec, RaisedOnlyByOwnStop

\* No fixed-length register takes effect without next_write_byte_is_last
\* having announced it.
THEOREM HintAnnouncesCommit == Spec => HintPrecedesCommit
<1>. DEFINE Step == (\/ s_context_length' # s_context_length
                     \/ s_wake_interval_sec' # s_wake_interval_sec
                     \/ ~s_pending_done /\ s_pending_done')
                      => next_write_byte_is_last
<1>1. RegInv /\ [Next]_regVars => [Step]_regVars
  <2>. SUFFICES ASSUME RegInv, Next PROVE Step
    OBVIOUS
  <2>. USE DEF store, flags, next_write_byte_is_last
  <2>1. ASSUME NEW byte \in WireByte, on_write_byte(byte) PROVE Step
    BY <2>1 DEF on_write_byte, SelectRegister, WriteContextLength, WriteContextData,
                WriteCommand, WriteWakeInterval, WriteIgnored
  <2>2. CASE on_read_request
    BY <2>2 DEF on_read_request
  <2>3. CASE on_stop
    BY <2>3 DEF on_stop
  <2>4. CASE reset_for_cycle
    BY <2>4 DEF reset_for_cycle
  <2>. QED
    BY <2>1, <2>2, <2>3, <2>4 DEF Next
<1>2. Spec => []RegInv
  BY RegistersSafe DEF RegInv
<1>. QED
  BY <1>1, <1>2, PTL DEF Spec, HintPrecedesCommit

-----------------------------------------------------------------------------
(* Counting modulo the offset's width. *)
LEMMA ModUnique ==
  ASSUME NEW m \in Nat \ {0}, NEW q \in Int, NEW r \in 0 .. m - 1
  PROVE  (m * q + r) % m = r
  OBVIOUS

\* One byte more, counted modulo the offset's width.
LEMMA ModSucc ==
  ASSUME NEW m \in Nat \ {0}, NEW n \in Nat
  PROVE  ((n % m) + 1) % m = (n + 1) % m
<1>. DEFINE q == n \div m
            r == n % m
<1>1. n = m * q + r /\ r \in 0 .. m - 1 /\ q \in Int
  OBVIOUS
<1>. HIDE DEF q, r
<1>. SUFFICES (r + 1) % m = (n + 1) % m
  BY DEF r
<1>2. CASE r + 1 < m
  <2>1. r + 1 \in 0 .. m - 1
    BY <1>1, <1>2
  <2>2. n + 1 = m * q + (r + 1)
    BY <1>1
  <2>3. (m * q + (r + 1)) % m = r + 1
    BY <1>1, <2>1, ModUnique
  <2>4. (r + 1) % m = r + 1
    BY <2>1
  <2>. QED
    BY <2>2, <2>3, <2>4
<1>3. CASE r + 1 = m
  <2>1. (r + 1) % m = 0
    BY <1>1, <1>3
  <2>2. n + 1 = m * (q + 1) + 0 /\ q + 1 \in Int
    BY <1>1, <1>3
  <2>3. (m * (q + 1) + 0) % m = 0
    BY <2>2, ModUnique
  <2>. QED
    BY <2>1, <2>2, <2>3
<1>. QED
  BY <1>1, <1>2, <1>3

-----------------------------------------------------------------------------
MasterTypes ==
  /\ m_phase \in {"idle", "write", "read"}
  /\ m_moved \in Nat
  /\ m_phase = "write" => m_txn \in Writes /\ m_moved <= Len(m_txn.payload)
  /\ m_phase = "read" => m_txn \in Reads
  /\ m_restarts \in Nat /\ h_spoiled \in Nat
  /\ h_in_step \in BOOLEAN

\* The transactions spoiled so far, and the one that will be if the master
\* starts it now.
Spoilt ==
  /\ h_spoiled <= m_restarts
  /\ m_phase = "idle" /\ s_have_pointer => h_spoiled + 1 <= m_restarts

BusInv == RegInv /\ MasterTypes /\ InStep /\ Spoilt

\* What a master's transactions are made of.
LEMMA TransactionTypes ==
  /\ \A w \in Writes : /\ w.reg \in Byte /\ w.payload \in Seq(Byte)
                       /\ Len(w.payload) \in Nat
                       /\ \A i \in 1 .. Len(w.payload) : w.payload[i] \in Byte
  /\ \A r \in Reads : r.reg \in Byte /\ r.count \in Nat \ {0}
  BY BusAssumption

\* Every step of the bus is one call of the register file, or none.
LEMMA BusStepIsRegisterCall ==
  ASSUME MasterTypes, [BusNext]_busVars
  PROVE  \/ \E byte \in Byte : on_write_byte(byte)
         \/ on_read_request \/ on_stop \/ reset_for_cycle
         \/ UNCHANGED regVars
<1>1. ASSUME NEW w \in Writes, StartWrite(w) PROVE \E byte \in Byte : on_write_byte(byte)
  BY <1>1, TransactionTypes DEF StartWrite, Start
<1>2. ASSUME NEW r \in Reads, StartRead(r) PROVE \E byte \in Byte : on_write_byte(byte)
  BY <1>2, TransactionTypes DEF StartRead, Start
<1>3. CASE WriteByte
  <2>1. m_moved + 1 \in 1 .. Len(m_txn.payload) /\ m_txn \in Writes
    BY <1>3, TransactionTypes DEF WriteByte, MasterTypes
  <2>. QED
    BY <1>3, <2>1, TransactionTypes DEF WriteByte
<1>4. CASE FetchByte \/ StopWrite \/ StopRead \/ MasterRestart \/ CycleEnds
  BY <1>4 DEF FetchByte, StopWrite, StopRead, MasterRestart, CycleEnds
<1>5. CASE UNCHANGED busVars
  BY <1>5 DEF busVars
<1>. QED
  BY <1>1, <1>2, <1>3, <1>4, <1>5 DEF BusNext

\* A byte that comes when no pointer byte has been seen is taken for one...
LEMMA ByteSelects ==
  ASSUME ~s_have_pointer, NEW byte, on_write_byte(byte)
  PROVE  SelectRegister(byte)
  BY DEF on_write_byte, ValueByte

\* ...and any other is a value byte.
LEMMA ByteCounts ==
  ASSUME s_have_pointer, NEW byte, on_write_byte(byte)
  PROVE  ValueByte
  BY DEF on_write_byte, SelectRegister

-----------------------------------------------------------------------------
\* A START, in step or not, sets the count back.
LEMMA StartKeepsBusInv ==
  ASSUME BusInv, NEW phase \in {"write", "read"}, NEW txn, Start(phase, txn),
         phase = "write" => txn \in Writes,
         phase = "read" => txn \in Reads
  PROVE  MasterTypes' /\ InStep' /\ Spoilt'
<1>1. s_have_pointer \in BOOLEAN
  BY DEF BusInv, RegInv, TypeOK
<1>2. MasterTypes'
  <2>1. phase = "write" => 0 <= Len(txn.payload)
    BY TransactionTypes
  <2>2. h_spoiled' \in Nat /\ h_in_step' \in BOOLEAN
    BY <1>1 DEF Start, BusInv, MasterTypes
  <2>. QED
    BY <2>1, <2>2 DEF Start, BusInv, MasterTypes
<1>3. InStep'
  <2>1. CASE ~s_have_pointer
    <3>1. SelectRegister(txn.reg)
      BY <2>1, ByteSelects DEF Start
    <3>2. 0 % OffsetModulus = 0
      BY RegistersAssumption
    <3>. QED
      BY <3>1, <3>2 DEF Start, SelectRegister, InStep
  <2>2. CASE s_have_pointer
    BY <2>2 DEF Start, InStep
  <2>. QED
    BY <2>1, <2>2
<1>4. Spoilt'
  BY <1>1 DEF Start, BusInv, MasterTypes, Spoilt
<1>. QED
  BY <1>2, <1>3, <1>4

\* One more byte, either way, keeps the count.
LEMMA ByteKeepsBusInv ==
  ASSUME BusInv, WriteByte \/ FetchByte
  PROVE  MasterTypes' /\ InStep' /\ Spoilt'
<1>1. /\ m_phase' = m_phase /\ m_phase # "idle" /\ m_moved' = m_moved + 1
      /\ m_txn' = m_txn /\ UNCHANGED <<m_restarts, h_in_step, h_spoiled>>
  BY DEF WriteByte, FetchByte, historyVars
<1>2. MasterTypes'
  <2>1. CASE WriteByte
    <3>1. m_txn \in Writes /\ m_moved + 1 <= Len(m_txn.payload)
      BY <2>1, TransactionTypes DEF WriteByte, BusInv, MasterTypes
    <3>. QED
      BY <1>1, <2>1, <3>1 DEF WriteByte, BusInv, MasterTypes
  <2>2. CASE FetchByte
    BY <1>1, <2>2 DEF FetchByte, BusInv, MasterTypes
  <2>. QED
    BY <2>1, <2>2
<1>3. InStep'
  <2>. SUFFICES ASSUME h_in_step PROVE InStep'
    BY <1>1 DEF InStep
  <2>1. /\ s_have_pointer
        /\ s_active_reg = IF m_txn.reg \in Register THEN m_txn.reg ELSE REG_NONE
        /\ s_field_offset = m_moved % OffsetModulus
    BY <1>1 DEF BusInv, InStep
  <2>2. s_have_pointer' /\ s_active_reg' = s_active_reg /\ s_field_offset' = NextOffset
    <3>1. CASE WriteByte
      BY <2>1, <3>1, ByteCounts DEF WriteByte, ValueByte
    <3>2. CASE FetchByte
      BY <2>1, <3>2 DEF FetchByte, on_read_request
    <3>. QED
      BY <3>1, <3>2
  <2>3. NextOffset = (m_moved + 1) % OffsetModulus
    <3>1. m_moved \in Nat /\ OffsetModulus \in Nat \ {0}
      BY RegistersAssumption DEF BusInv, MasterTypes
    <3>. QED
      BY <2>1, <3>1, ModSucc DEF NextOffset
  <2>. QED
    BY <1>1, <2>1, <2>2, <2>3 DEF InStep
<1>. QED
  BY <1>1, <1>2, <1>3 DEF BusInv, Spoilt

\* Every step of the bus keeps the register file in step with the master.
LEMMA BusInvInductive == BusInv /\ [BusNext]_busVars => BusInv'
<1>. SUFFICES ASSUME BusInv, [BusNext]_busVars PROVE BusInv'
  OBVIOUS
<1>1. RegInv'
  BY BusStepIsRegisterCall, CallKeepsRegInv DEF BusInv
<1>. SUFFICES MasterTypes' /\ InStep' /\ Spoilt'
  BY <1>1 DEF BusInv
<1>2. CASE \E w \in Writes : StartWrite(w)
  BY <1>2, StartKeepsBusInv DEF StartWrite
<1>3. CASE \E r \in Reads : StartRead(r)
  BY <1>3, StartKeepsBusInv DEF StartRead
<1>4. CASE WriteByte \/ FetchByte
  BY <1>4, ByteKeepsBusInv
<1>5. CASE StopWrite \/ StopRead \/ CycleEnds
  <2>1. Idle /\ ~s_have_pointer' /\ UNCHANGED <<m_restarts, h_spoiled>>
    BY <1>5 DEF StopWrite, StopRead, CycleEnds, on_stop, reset_for_cycle, ForgetPointer
  <2>. QED
    BY <2>1 DEF Idle, BusInv, MasterTypes, InStep, Spoilt
<1>6. CASE MasterRestart
  BY <1>6 DEF MasterRestart, Idle, BusInv, MasterTypes, InStep, Spoilt
<1>7. CASE UNCHANGED busVars
  BY <1>7 DEF busVars, masterVars, historyVars, regVars, pointer, BusInv, MasterTypes,
              InStep, Spoilt
<1>. QED
  BY <1>2, <1>3, <1>4, <1>5, <1>6, <1>7 DEF BusNext

\* Nothing is under way at start.
LEMMA BusInvInit == BusInit => BusInv
  BY RegInvInit DEF BusInit, Init, BusInv, MasterTypes, InStep, Spoilt

\* Whatever the master does, resets in mid-transaction included: types, no flag
\* outlives its transaction, a transaction that found the register file idle is
\* followed byte by byte, and a reset spoils at most one transaction.
THEOREM BusSafe ==
  BusSpec => [](TypeOK /\ FlagsBelongToTransaction /\ InStep /\ SpoilsAtMostOneEach)
<1>1. BusInv => TypeOK /\ FlagsBelongToTransaction /\ InStep /\ SpoilsAtMostOneEach
  BY DEF BusInv, RegInv, Spoilt, SpoilsAtMostOneEach
<1>. QED
  BY <1>1, BusInvInit, BusInvInductive, PTL DEF BusSpec

\* Whoever asks for the hint hears of the last byte a master sends to a
\* fixed-length register, and of no other, however often the master resets, as long
\* as no write is so long that the offset comes back to where it was.
THEOREM HintNamesLastByte ==
  ASSUME \A w \in Writes : Len(w.payload) < OffsetModulus
  PROVE  BusSpec => []HintOnlyForLastByte
<1>1. BusInv => HintOnlyForLastByte
  <2>. SUFFICES ASSUME BusInv PROVE HintOnlyForLastByte
    OBVIOUS
  <2>. USE DEF next_write_byte_is_last, REG_COMMAND, REG_CONTEXT_LENGTH,
               REG_WAKE_INTERVAL_SEC, REG_NONE
  <2>1. ~s_have_pointer => ~next_write_byte_is_last
    BY DEF BusInv, RegInv, FlagsBelongToTransaction
  <2>2. ASSUME m_phase = "write", h_in_step
        PROVE  next_write_byte_is_last <=> m_moved + 1 = WriteWidth(m_txn.reg)
    <3>1. m_moved \in Nat /\ m_moved < OffsetModulus /\ m_txn.reg \in Byte
      BY <2>2, TransactionTypes, RegistersAssumption DEF BusInv, MasterTypes
    <3>2. m_moved % OffsetModulus = m_moved
      BY <3>1, RegistersAssumption
    <3>3. /\ s_active_reg = IF m_txn.reg \in Register THEN m_txn.reg ELSE -1
          /\ s_field_offset = m_moved
      BY <2>2, <3>2 DEF BusInv, InStep
    <3>. QED
      BY <3>1, <3>3 DEF WriteWidth, Byte, Register, REG_STATUS
  <2>. QED
    BY <2>1, <2>2 DEF HintOnlyForLastByte
<1>. QED
  BY <1>1, BusInvInit, BusInvInductive, PTL DEF BusSpec

-----------------------------------------------------------------------------
\* A master that ends what it starts, in transactions the offset can count.
Conforming ==
  /\ MaxRestarts = 0
  /\ \A w \in Writes : Len(w.payload) <= OffsetModulus
  /\ \A r \in Reads : r.count <= OffsetModulus

StoredValues ==
  [data : [ContextOffset -> Byte], length : 0 .. ContextSize,
   interval : [IntervalOffset -> Byte], valid : BOOLEAN, done : BOOLEAN]

\* What the first k bytes of a payload make of the stored values, field by field.
Applied(st, reg, p, k) ==
  [data     |-> IF reg = REG_CONTEXT_DATA
                  THEN [i \in ContextOffset |-> IF i < k THEN p[i + 1] ELSE st.data[i]]
                  ELSE st.data,
   length   |-> IF reg = REG_CONTEXT_LENGTH /\ k >= 2
                  THEN CommittedLength([i \in LengthOffset |-> p[i + 1]])
                  ELSE st.length,
   interval |-> IF reg = REG_WAKE_INTERVAL_SEC /\ k >= 4
                  THEN [i \in IntervalOffset |-> p[i + 1]]
                  ELSE st.interval,
   valid    |-> st.valid,
   done     |-> st.done]

\* A write, k bytes into its payload p.
WriteFollowed(reg, p, k) ==
  /\ Stored = Applied(h_before, reg, p, k)
  /\ s_pending_done <=> reg = REG_COMMAND /\ k > 0 /\ p[1] = VAULT_CMD_DONE
  /\ s_context_data_written <=> reg = REG_CONTEXT_DATA /\ k > 0
  /\ reg = REG_CONTEXT_LENGTH =>
       \A i \in LengthOffset : i < k => s_context_length_staging[i] = p[i + 1]
  /\ reg = REG_WAKE_INTERVAL_SEC =>
       \A i \in IntervalOffset : i < k => s_wake_interval_staging[i] = p[i + 1]

\* A read of count bytes, k bytes into it.
ReadFollowed(reg, count, k) ==
  /\ Stored = h_before
  /\ ~s_pending_done /\ ~s_context_data_written
  /\ m_reading \in Seq(Int)
  /\ Len(m_reading) = IF k < count THEN k ELSE count
  /\ \A i \in 1 .. Len(m_reading) : m_reading[i] = Abstract!Answer(h_before, reg, i - 1)

Followed ==
  /\ m_restarts = 0 /\ h_in_step
  /\ m_phase = "idle" => ~s_have_pointer
  /\ m_phase # "idle" => h_before \in StoredValues
  /\ m_phase = "write" => WriteFollowed(m_txn.reg, m_txn.payload, m_moved)
  /\ m_phase = "read" => ReadFollowed(m_txn.reg, m_txn.count, m_moved)

Kept ==
  /\ DoneOnlyWhenCommanded
  /\ ValidMeansWholeTransfer
  /\ NoTornField

StoreInv == BusInv /\ Followed /\ Kept

\* What is stored is always one of the abstract store's values.
LEMMA StoredTypes == ASSUME TypeOK PROVE Stored \in StoredValues
  BY DEF TypeOK, Stored, StoredValues

-----------------------------------------------------------------------------
\* Field by field, Applied is what the abstract store calls the effect of the
\* bytes that got through.
LEMMA EffectByField ==
  ASSUME NEW st \in StoredValues, NEW reg \in Byte, NEW p \in Seq(Byte)
  PROVE  Abstract!Effect(st, reg, p) = Applied(st, reg, p, Len(p))
<1>1. Len(p) \in Nat /\ \A i \in 1 .. Len(p) : p[i] \in Byte
  OBVIOUS
<1>2. ASSUME Len(p) >= 2
      PROVE  Abstract!Least(p[1] + 256 * p[2], ContextSize)
               = CommittedLength([i \in LengthOffset |-> p[i + 1]])
  <2>1. p[1] \in Nat /\ p[2] \in Nat
    <3>1. 1 \in 1 .. Len(p) /\ 2 \in 1 .. Len(p)
      BY <1>1, <1>2
    <3>2. p[1] \in Byte /\ p[2] \in Byte
      BY <1>1, <3>1
    <3>3. Byte \subseteq Nat
      BY DEF Byte
    <3>. QED
      BY <3>2, <3>3
  <2>. DEFINE staging == [i \in LengthOffset |-> p[i + 1]]
  <2>2. staging[0] = p[1] /\ staging[1] = p[2]
    BY DEF LengthOffset
  <2>. HIDE DEF staging
  <2>3. Abstract!Least(p[1] + 256 * p[2], ContextSize) = CommittedLength(staging)
    BY <2>1, <2>2, RegistersAssumption DEF Abstract!Least, CommittedLength
  <2>. QED
    BY <2>3 DEF staging
<1>3. CASE reg = 2
  BY <1>2, <1>3, <1>1
     DEF Abstract!Effect, Applied, StoredValues, REG_CONTEXT_DATA, REG_CONTEXT_LENGTH,
         REG_WAKE_INTERVAL_SEC
<1>4. CASE reg = 3
  <2>. DEFINE data == [i \in ContextOffset |-> IF i < Len(p) THEN p[i + 1] ELSE st.data[i]]
  <2>1. DOMAIN st.data = ContextOffset
    BY DEF StoredValues
  <2>2. Abstract!Effect(st, reg, p) = [st EXCEPT !.data = data]
    BY <1>4, <2>1 DEF Abstract!Effect
  <2>3. Applied(st, reg, p, Len(p)) =
          [data |-> data, length |-> st.length, interval |-> st.interval,
           valid |-> st.valid, done |-> st.done]
    BY <1>4 DEF Applied, REG_CONTEXT_DATA, REG_CONTEXT_LENGTH, REG_WAKE_INTERVAL_SEC
  <2>. HIDE DEF data
  <2>. QED
    BY <2>2, <2>3 DEF StoredValues
<1>5. CASE reg = 5
  BY <1>5, <1>1
     DEF Abstract!Effect, Applied, StoredValues, IntervalOffset, REG_CONTEXT_DATA,
         REG_CONTEXT_LENGTH, REG_WAKE_INTERVAL_SEC
<1>6. CASE reg \notin {2, 3, 5}
  BY <1>6
     DEF Abstract!Effect, Applied, StoredValues, REG_CONTEXT_DATA, REG_CONTEXT_LENGTH,
         REG_WAKE_INTERVAL_SEC
<1>. QED
  BY <1>3, <1>4, <1>5, <1>6

\* A write of which n bytes got through is the abstract write of its first n bytes.
LEMMA AppliedPrefix ==
  ASSUME NEW st \in StoredValues, NEW reg \in Byte, NEW p \in Seq(Byte),
         NEW k \in 0 .. Len(p)
  PROVE  Abstract!Effect(st, reg, SubSeq(p, 1, k)) = Applied(st, reg, p, k)
<1>. DEFINE q == SubSeq(p, 1, k)
<1>1. q \in Seq(Byte) /\ Len(q) = k /\ \A i \in 1 .. k : q[i] = p[i]
  OBVIOUS
<1>. HIDE DEF q
<1>2. Abstract!Effect(st, reg, q) = Applied(st, reg, q, k)
  BY <1>1, EffectByField
<1>3. Applied(st, reg, q, k) = Applied(st, reg, p, k)
  <2>1. [i \in ContextOffset |-> IF i < k THEN q[i + 1] ELSE st.data[i]]
          = [i \in ContextOffset |-> IF i < k THEN p[i + 1] ELSE st.data[i]]
    <3>. SUFFICES ASSUME NEW i \in ContextOffset, i < k PROVE q[i + 1] = p[i + 1]
      OBVIOUS
    <3>1. i + 1 \in 1 .. k
      BY RegistersAssumption DEF ContextOffset
    <3>. QED
      BY <1>1, <3>1
  <2>2. k >= 2 => [i \in LengthOffset |-> q[i + 1]] = [i \in LengthOffset |-> p[i + 1]]
    <3>. SUFFICES ASSUME NEW i \in LengthOffset, k >= 2 PROVE q[i + 1] = p[i + 1]
      OBVIOUS
    <3>1. i + 1 \in 1 .. k
      BY DEF LengthOffset
    <3>. QED
      BY <1>1, <3>1
  <2>3. k >= 4 => [i \in IntervalOffset |-> q[i + 1]] = [i \in IntervalOffset |-> p[i + 1]]
    <3>. SUFFICES ASSUME NEW i \in IntervalOffset, k >= 4 PROVE q[i + 1] = p[i + 1]
      OBVIOUS
    <3>1. i + 1 \in 1 .. k
      BY DEF IntervalOffset
    <3>. QED
      BY <1>1, <3>1
  <2>. QED
    BY <2>1, <2>2, <2>3 DEF Applied
<1>. QED
  BY <1>2, <1>3 DEF q

\* Nothing has got through yet.
LEMMA NothingApplied ==
  ASSUME NEW st \in StoredValues, NEW reg, NEW p
  PROVE  Applied(st, reg, p, 0) = st
<1>1. [i \in ContextOffset |-> IF i < 0 THEN p[i + 1] ELSE st.data[i]] = st.data
  <2>1. st.data \in [ContextOffset -> Byte]
    BY DEF StoredValues
  <2>2. \A i \in ContextOffset : ~(i < 0)
    BY RegistersAssumption DEF ContextOffset
  <2>. QED
    BY <2>1, <2>2
<1>2. Applied(st, reg, p, 0) =
        [data |-> st.data, length |-> st.length, interval |-> st.interval,
         valid |-> st.valid, done |-> st.done]
  BY <1>1 DEF Applied
<1>. QED
  BY <1>2 DEF StoredValues

\* The byte that is read is the one the stored values have at that place.
LEMMA ReadAnswers ==
  ASSUME RegInv, NEW reg \in Byte, NEW k \in Nat,
         s_have_pointer, s_field_offset = k,
         s_active_reg = IF reg \in Register THEN reg ELSE REG_NONE
  PROVE  ReadByte = Abstract!Answer(Stored, reg, k) /\ ReadByte \in Int
<1>. USE DEF Register, REG_NONE, REG_STATUS, REG_PROTOCOL_VERSION, REG_CONTEXT_LENGTH,
             REG_CONTEXT_DATA, REG_COMMAND, REG_WAKE_INTERVAL_SEC, Erased,
             VAULT_PROTOCOL_VERSION, VAULT_STATUS_CONTEXT_VALID_BIT
<1>1. reg \in Nat /\ ContextSize \in Nat
  BY RegistersAssumption DEF Byte
<1>2. CASE reg = 0
  BY <1>1, <1>2 DEF ReadByte, Abstract!Answer, Stored
<1>3. CASE reg = 1
  BY <1>1, <1>3 DEF ReadByte, Abstract!Answer, Stored
<1>4. CASE reg = 2
  <2>1. s_context_length % 256 \in Int /\ s_context_length \div 256 \in Int
    BY <1>1 DEF RegInv, TypeOK
  <2>. QED
    BY <1>1, <1>4, <2>1 DEF ReadByte, Abstract!Answer, Stored, LengthOffset
<1>5. CASE reg = 3
  <2>1. k \in ContextOffset <=> k < ContextSize
    BY <1>1 DEF ContextOffset
  <2>2. k \in ContextOffset => s_context[k] \in Int
    BY DEF RegInv, TypeOK, Byte
  <2>. QED
    BY <1>1, <1>5, <2>1, <2>2 DEF ReadByte, Abstract!Answer, Stored
<1>6. CASE reg = 5
  <2>1. k \in IntervalOffset <=> k < 4
    BY DEF IntervalOffset
  <2>2. k \in IntervalOffset => s_wake_interval_sec[k] \in Int
    <3>1. s_wake_interval_sec \in [IntervalOffset -> Byte] /\ Byte \subseteq Int
      BY DEF RegInv, TypeOK, Byte
    <3>. QED
      BY <3>1
  <2>. QED
    BY <1>1, <1>6, <2>1, <2>2 DEF ReadByte, Abstract!Answer, Stored
<1>7. CASE reg \notin {0, 1, 2, 3, 5}
  BY <1>1, <1>7 DEF ReadByte, Abstract!Answer, Stored
<1>. QED
  BY <1>2, <1>3, <1>4, <1>5, <1>6, <1>7

-----------------------------------------------------------------------------
\* One payload byte, by the register it goes to.
LEMMA ByteFollowed ==
  ASSUME RegInv, NEW reg \in Byte, NEW p \in Seq(Byte), NEW k \in 0 .. Len(p) - 1,
         s_have_pointer, s_field_offset = k,
         s_active_reg = IF reg \in Register THEN reg ELSE REG_NONE,
         h_before \in StoredValues, h_before' = h_before,
         WriteFollowed(reg, p, k), on_write_byte(p[k + 1])
  PROVE  WriteFollowed(reg, p, k + 1)'
<1>. USE DEF REG_NONE, REG_STATUS, REG_PROTOCOL_VERSION, REG_CONTEXT_LENGTH,
             REG_CONTEXT_DATA, REG_COMMAND, REG_WAKE_INTERVAL_SEC
<1>0. k \in Nat /\ reg \in Nat /\ ContextSize \in Nat \ {0}
  BY RegistersAssumption DEF Byte
<1>1. /\ ValueByte /\ UNCHANGED <<s_context_valid, s_done_requested>>
      /\ s_context_valid = h_before.valid /\ s_done_requested = h_before.done
  BY ByteCounts DEF ValueByte, WriteFollowed, Stored, Applied
<1>2. CASE reg = REG_CONTEXT_LENGTH
  <2>1. WriteContextLength(p[k + 1])
    BY <1>1, <1>2 DEF on_write_byte, SelectRegister, WriteContextLength, WriteContextData,
                      WriteCommand, WriteWakeInterval, WriteIgnored, Register
  <2>2. \A i \in LengthOffset : i < k + 1 => s_context_length_staging'[i] = p[i + 1]
    <3>1. \A i \in LengthOffset : i < k + 1 <=> i < k \/ i = k
      BY <1>0 DEF LengthOffset
    <3>2. s_context_length_staging \in [LengthOffset -> Byte]
      BY DEF RegInv, TypeOK
    <3>3. \A i \in LengthOffset : i < k => s_context_length_staging[i] = p[i + 1]
      BY <1>2 DEF WriteFollowed
    <3>. QED
      BY <2>1, <3>1, <3>2, <3>3 DEF WriteContextLength
  <2>3. s_context_length' = IF k + 1 >= 2
                              THEN CommittedLength([i \in LengthOffset |-> p[i + 1]])
                              ELSE h_before.length
    <3>1. s_context_length = IF k >= 2
                               THEN CommittedLength([i \in LengthOffset |-> p[i + 1]])
                               ELSE h_before.length
      BY <1>2 DEF WriteFollowed, Stored, Applied
    <3>2. CASE k = 1
      <4>. DEFINE q == [i \in LengthOffset |-> p[i + 1]]
      <4>1. s_context_length' = CommittedLength(s_context_length_staging')
        BY <2>1, <3>2 DEF WriteContextLength
      <4>2. s_context_length_staging'[0] = q[0] /\ s_context_length_staging'[1] = q[1]
        BY <2>2, <3>2 DEF LengthOffset
      <4>. HIDE DEF q
      <4>3. CommittedLength(s_context_length_staging') = CommittedLength(q)
        BY <4>2 DEF CommittedLength
      <4>. QED
        BY <3>2, <4>1, <4>3 DEF q
    <3>3. CASE k # 1
      BY <1>0, <2>1, <3>1, <3>3 DEF WriteContextLength
    <3>. QED
      BY <3>2, <3>3
  <2>4. UNCHANGED <<s_context, s_wake_interval_sec, s_pending_done, s_context_data_written>>
    BY <2>1 DEF WriteContextLength
  <2>. QED
    BY <1>1, <1>2, <2>2, <2>3, <2>4 DEF WriteFollowed, Stored, Applied
<1>3. CASE reg = REG_CONTEXT_DATA
  <2>1. WriteContextData(p[k + 1])
    BY <1>1, <1>3 DEF on_write_byte, SelectRegister, WriteContextLength, WriteContextData,
                      WriteCommand, WriteWakeInterval, WriteIgnored, Register
  <2>2. s_context' = [i \in ContextOffset |-> IF i < k + 1 THEN p[i + 1]
                                                          ELSE h_before.data[i]]
    <3>1. s_context = [i \in ContextOffset |-> IF i < k THEN p[i + 1] ELSE h_before.data[i]]
      BY <1>3 DEF WriteFollowed, Stored, Applied
    <3>2. \A i \in ContextOffset : i < k + 1 <=> i < k \/ i = k
      BY <1>0 DEF ContextOffset
    <3>3. CASE k \in ContextOffset
      <4>1. s_context' = [s_context EXCEPT ![k] = p[k + 1]]
        BY <2>1, <3>3 DEF WriteContextData
      <4>2. ~(k < k)
        BY <1>0
      <4>. QED
        BY <3>1, <3>2, <3>3, <4>1, <4>2
    <3>4. CASE k \notin ContextOffset
      <4>1. s_context' = s_context
        BY <2>1, <3>4 DEF WriteContextData
      <4>. QED
        BY <3>1, <3>2, <3>4, <4>1
    <3>. QED
      BY <3>3, <3>4
  <2>3. s_context_data_written'
    BY <1>0, <1>3, <2>1 DEF WriteContextData, WriteFollowed, ContextOffset
  <2>4. UNCHANGED <<s_context_length, s_wake_interval_sec, s_pending_done>>
    BY <2>1 DEF WriteContextData
  <2>. QED
    BY <1>0, <1>1, <1>3, <2>2, <2>3, <2>4 DEF WriteFollowed, Stored, Applied
<1>4. CASE reg = REG_WAKE_INTERVAL_SEC
  <2>1. WriteWakeInterval(p[k + 1])
    BY <1>1, <1>4 DEF on_write_byte, SelectRegister, WriteContextLength, WriteContextData,
                      WriteCommand, WriteWakeInterval, WriteIgnored, Register
  <2>2. \A i \in IntervalOffset : i < k + 1 => s_wake_interval_staging'[i] = p[i + 1]
    <3>1. \A i \in IntervalOffset : i < k + 1 <=> i < k \/ i = k
      BY <1>0 DEF IntervalOffset
    <3>2. s_wake_interval_staging \in [IntervalOffset -> Byte]
      BY DEF RegInv, TypeOK
    <3>3. \A i \in IntervalOffset : i < k => s_wake_interval_staging[i] = p[i + 1]
      BY <1>4 DEF WriteFollowed
    <3>. QED
      BY <2>1, <3>1, <3>2, <3>3 DEF WriteWakeInterval
  <2>3. s_wake_interval_sec' = IF k + 1 >= 4 THEN [i \in IntervalOffset |-> p[i + 1]]
                                             ELSE h_before.interval
    <3>1. s_wake_interval_sec = IF k >= 4 THEN [i \in IntervalOffset |-> p[i + 1]]
                                          ELSE h_before.interval
      BY <1>4 DEF WriteFollowed, Stored, Applied
    <3>2. CASE k = 3
      <4>1. s_wake_interval_sec' = s_wake_interval_staging'
        BY <2>1, <3>2 DEF WriteWakeInterval
      <4>2. s_wake_interval_staging' = [i \in IntervalOffset |-> s_wake_interval_staging'[i]]
        BY <2>1 DEF WriteWakeInterval, RegInv, TypeOK
      <4>3. \A i \in IntervalOffset : s_wake_interval_staging'[i] = p[i + 1]
        BY <2>2, <3>2 DEF IntervalOffset
      <4>. QED
        BY <3>2, <4>1, <4>2, <4>3
    <3>3. CASE k # 3
      BY <1>0, <2>1, <3>1, <3>3 DEF WriteWakeInterval
    <3>. QED
      BY <3>2, <3>3
  <2>4. UNCHANGED <<s_context, s_context_length, s_pending_done, s_context_data_written>>
    BY <2>1 DEF WriteWakeInterval
  <2>. QED
    BY <1>1, <1>4, <2>2, <2>3, <2>4 DEF WriteFollowed, Stored, Applied
<1>5. CASE reg = REG_COMMAND
  <2>1. WriteCommand(p[k + 1])
    BY <1>1, <1>5 DEF on_write_byte, SelectRegister, WriteContextLength, WriteContextData,
                      WriteCommand, WriteWakeInterval, WriteIgnored, Register
  <2>2. s_pending_done' <=> p[1] = VAULT_CMD_DONE
    <3>1. s_pending_done' <=> s_pending_done \/ (k = 0 /\ p[k + 1] = VAULT_CMD_DONE)
      BY <2>1, Zenon DEF WriteCommand
    <3>2. s_pending_done <=> k > 0 /\ p[1] = VAULT_CMD_DONE
      BY <1>5 DEF WriteFollowed
    <3>3. k = 0 \/ k > 0
      BY <1>0
    <3>4. k = 0 => p[k + 1] = p[1]
      OBVIOUS
    <3>. QED
      BY <3>1, <3>2, <3>3, <3>4
  <2>3. UNCHANGED <<store, s_context_data_written>>
    BY <2>1 DEF WriteCommand
  <2>. QED
    BY <1>0, <1>1, <1>5, <2>2, <2>3 DEF WriteFollowed, Stored, Applied, store
<1>6. CASE reg \notin {REG_CONTEXT_LENGTH, REG_CONTEXT_DATA, REG_COMMAND, REG_WAKE_INTERVAL_SEC}
  <2>1. UNCHANGED <<store, s_pending_done, s_context_data_written>>
    BY <1>0, <1>1, <1>6
       DEF on_write_byte, SelectRegister, WriteContextLength, WriteContextData,
           WriteCommand, WriteWakeInterval, WriteIgnored, Register
  <2>. QED
    BY <1>0, <1>1, <1>6, <2>1 DEF WriteFollowed, Stored, Applied, store
<1>. QED
  BY <1>2, <1>3, <1>4, <1>5, <1>6

-----------------------------------------------------------------------------
\* The steps of a transaction, from its START to its STOP or its power cut.
LEMMA StartFollowed ==
  ASSUME StoreInv, NEW phase \in {"write", "read"}, NEW txn, Start(phase, txn),
         phase = "read" => txn \in Reads
  PROVE  Followed' /\ Kept' /\ h_before' = Stored
<1>1. ~s_have_pointer /\ ~s_pending_done /\ ~s_context_data_written
  BY DEF Start, StoreInv, Followed, BusInv, RegInv, FlagsBelongToTransaction
<1>2. UNCHANGED <<store, flags>>
  BY <1>1, ByteSelects DEF Start, SelectRegister
<1>3. Stored \in StoredValues /\ Stored' = Stored /\ h_before' = Stored
  BY <1>2, StoredTypes DEF StoreInv, BusInv, RegInv, Stored, store, flags, Start
<1>4. /\ m_phase' = phase /\ m_txn' = txn /\ m_moved' = 0 /\ m_reading' = <<>>
      /\ m_restarts' = 0 /\ h_in_step'
  BY <1>1 DEF Start, StoreInv, Followed
<1>5. ASSUME phase = "write" PROVE Followed'
  <2>1. Stored' = Applied(h_before', m_txn'.reg, m_txn'.payload, m_moved')
    BY <1>3, <1>4, NothingApplied
  <2>2. WriteFollowed(m_txn.reg, m_txn.payload, m_moved)'
    BY <1>1, <1>2, <1>4, <2>1 DEF WriteFollowed, LengthOffset, IntervalOffset, flags
  <2>. QED
    BY <1>3, <1>4, <1>5, <2>2 DEF Followed
<1>6. ASSUME phase = "read" PROVE Followed'
  <2>1. txn.count > 0
    BY <1>6, TransactionTypes
  <2>2. ReadFollowed(m_txn.reg, m_txn.count, m_moved)'
    BY <1>1, <1>2, <1>3, <1>4, <2>1 DEF ReadFollowed, flags
  <2>. QED
    BY <1>3, <1>4, <1>6, <2>2 DEF Followed
<1>7. Kept'
  BY <1>2 DEF StoreInv, Kept, DoneOnlyWhenCommanded, ValidMeansWholeTransfer, NoTornField,
              Start, store, flags
<1>. QED
  BY <1>3, <1>5, <1>6, <1>7

\* A byte of a write lands where the transaction says.
LEMMA WriteByteFollowed ==
  ASSUME Conforming, StoreInv, WriteByte
  PROVE  Followed' /\ Kept'
<1>. PICK reg, p, k : reg = m_txn.reg /\ p = m_txn.payload /\ k = m_moved
  OBVIOUS
<1>1. /\ reg \in Byte /\ p \in Seq(Byte) /\ k \in 0 .. Len(p) - 1
      /\ Len(p) <= OffsetModulus /\ m_txn \in Writes
  BY TransactionTypes DEF WriteByte, Conforming, StoreInv, BusInv, MasterTypes
<1>2. /\ s_have_pointer /\ s_field_offset = k
      /\ s_active_reg = IF reg \in Register THEN reg ELSE REG_NONE
  <2>1. k % OffsetModulus = k
    BY <1>1, RegistersAssumption
  <2>. QED
    BY <2>1 DEF WriteByte, StoreInv, BusInv, InStep, Followed
<1>3. /\ h_before \in StoredValues /\ h_before' = h_before
      /\ on_write_byte(p[k + 1]) /\ WriteFollowed(reg, p, k)
  BY DEF WriteByte, StoreInv, Followed, historyVars
<1>4. WriteFollowed(reg, p, k + 1)'
  BY <1>1, <1>2, <1>3, ByteFollowed DEF StoreInv, BusInv
<1>5. WriteFollowed(m_txn.reg, m_txn.payload, m_moved)'
  <2>1. m_txn' = m_txn /\ m_moved' = k + 1
    BY DEF WriteByte
  <2>. QED
    BY <1>4, <2>1 DEF WriteFollowed
<1>6. Followed'
  BY <1>3, <1>5 DEF WriteByte, StoreInv, Followed, historyVars
<1>7. UNCHANGED <<s_done_requested, s_context_valid, h_done, h_context>>
  BY <1>2, ByteCounts DEF WriteByte, ValueByte, historyVars
<1>8. NoTornField'
  <2>1. Stored' = Applied(h_before, reg, p, k + 1) /\ Stored = Applied(h_before, reg, p, k)
    BY <1>3, <1>4 DEF WriteFollowed
  <2>2. NoTornField
    BY DEF StoreInv, Kept
  <2>3. CASE reg = REG_WAKE_INTERVAL_SEC /\ k + 1 >= 4
    <3>1. /\ s_wake_interval_sec' = [i \in IntervalOffset |-> p[i + 1]]
          /\ s_context_length' = s_context_length
      BY <2>1, <2>3 DEF Stored, Applied, REG_WAKE_INTERVAL_SEC, REG_CONTEXT_LENGTH
    <3>2. m_txn \in {v \in Writes : v.reg = REG_WAKE_INTERVAL_SEC /\ Len(v.payload) >= 4}
      <4>. Len(p) >= 4
        BY <1>1, <2>3
      <4>. QED
        BY <1>1, <2>3
    <3>. QED
      BY <2>2, <3>1, <3>2 DEF NoTornField
  <2>4. CASE reg = REG_CONTEXT_LENGTH /\ k + 1 >= 2
    <3>1. /\ s_context_length' = CommittedLength([i \in LengthOffset |-> p[i + 1]])
          /\ s_wake_interval_sec' = s_wake_interval_sec
      BY <2>1, <2>4 DEF Stored, Applied, REG_WAKE_INTERVAL_SEC, REG_CONTEXT_LENGTH
    <3>2. m_txn \in {v \in Writes : v.reg = REG_CONTEXT_LENGTH /\ Len(v.payload) >= 2}
      <4>. Len(p) >= 2
        BY <1>1, <2>4
      <4>. QED
        BY <1>1, <2>4
    <3>. QED
      BY <2>2, <3>1, <3>2 DEF NoTornField
  <2>5. CASE /\ ~(reg = REG_WAKE_INTERVAL_SEC /\ k + 1 >= 4)
             /\ ~(reg = REG_CONTEXT_LENGTH /\ k + 1 >= 2)
    <3>1. s_context_length' = s_context_length /\ s_wake_interval_sec' = s_wake_interval_sec
      BY <1>1, <2>1, <2>5 DEF Stored, Applied
    <3>. QED
      BY <2>2, <3>1 DEF NoTornField
  <2>. QED
    BY <2>3, <2>4, <2>5
<1>. QED
  BY <1>6, <1>7, <1>8 DEF StoreInv, Kept, DoneOnlyWhenCommanded, ValidMeansWholeTransfer

\* A byte of a read comes from where the transaction says.
LEMMA FetchByteFollowed ==
  ASSUME Conforming, StoreInv, FetchByte
  PROVE  Followed' /\ Kept'
<1>. PICK reg, count, k : reg = m_txn.reg /\ count = m_txn.count /\ k = m_moved
  OBVIOUS
<1>1. /\ reg \in Byte /\ count \in Nat \ {0} /\ k \in Nat
      /\ count <= OffsetModulus
  BY TransactionTypes DEF FetchByte, Conforming, StoreInv, BusInv, MasterTypes
<1>2. UNCHANGED <<store, flags>> /\ Stored' = Stored
  BY DEF FetchByte, on_read_request, Stored, store, flags
<1>3. /\ Stored = h_before /\ h_before' = h_before
      /\ ~s_pending_done /\ ~s_context_data_written
      /\ m_reading \in Seq(Int)
      /\ Len(m_reading) = IF k < count THEN k ELSE count
      /\ \A i \in 1 .. Len(m_reading) : m_reading[i] = Abstract!Answer(h_before, reg, i - 1)
  BY DEF FetchByte, StoreInv, Followed, ReadFollowed, historyVars
<1>4. /\ m_reading' \in Seq(Int)
      /\ Len(m_reading') = IF k + 1 < count THEN k + 1 ELSE count
      /\ \A i \in 1 .. Len(m_reading') : m_reading'[i] = Abstract!Answer(h_before, reg, i - 1)
  <2>1. CASE k < count
    <3>1. k % OffsetModulus = k
      BY <1>1, <2>1, RegistersAssumption
    <3>2. /\ s_have_pointer /\ s_field_offset = k
          /\ s_active_reg = IF reg \in Register THEN reg ELSE REG_NONE
      BY <3>1 DEF FetchByte, StoreInv, BusInv, InStep, Followed
    <3>3. ReadByte = Abstract!Answer(h_before, reg, k) /\ ReadByte \in Int
      BY <1>1, <1>3, <3>2, ReadAnswers DEF StoreInv, BusInv
    <3>4. m_reading' = Append(m_reading, ReadByte) /\ Len(m_reading) = k
      BY <1>3, <2>1 DEF FetchByte
    <3>5. /\ m_reading' \in Seq(Int) /\ Len(m_reading') = k + 1
          /\ \A i \in 1 .. k : m_reading'[i] = m_reading[i]
          /\ m_reading'[k + 1] = ReadByte
      BY <1>1, <1>3, <3>3, <3>4
    <3>6. \A i \in 1 .. k + 1 : i \in 1 .. k \/ (i = k + 1 /\ i - 1 = k)
      BY <1>1
    <3>. QED
      BY <1>1, <1>3, <2>1, <3>3, <3>4, <3>5, <3>6
  <2>2. CASE ~(k < count)
    <3>1. m_reading' = m_reading /\ ~(k + 1 < count)
      BY <1>1, <2>2 DEF FetchByte
    <3>. QED
      BY <1>3, <2>2, <3>1
  <2>. QED
    BY <2>1, <2>2
<1>5. ReadFollowed(m_txn.reg, m_txn.count, m_moved)'
  <2>1. m_txn' = m_txn /\ m_moved' = k + 1
    BY DEF FetchByte
  <2>. QED
    BY <1>2, <1>3, <1>4, <2>1 DEF ReadFollowed, flags
<1>6. Followed'
  BY <1>5, <1>3 DEF FetchByte, StoreInv, Followed, historyVars
<1>. QED
  BY <1>2, <1>6
     DEF FetchByte, StoreInv, Kept, DoneOnlyWhenCommanded, ValidMeansWholeTransfer,
         NoTornField, store, flags, historyVars

\* A STOP or a power cut leaves nothing of a transaction behind.
LEMMA EndFollowed ==
  ASSUME StoreInv, StopWrite \/ StopRead \/ CycleEnds
  PROVE  Followed' /\ Kept'
<1>1. Followed'
  BY DEF StopWrite, StopRead, CycleEnds, on_stop, reset_for_cycle, ForgetPointer, Idle,
         StoreInv, Followed
<1>2. NoTornField'
  BY DEF StopWrite, StopRead, CycleEnds, on_stop, reset_for_cycle, store,
         StoreInv, Kept, NoTornField
<1>3. DoneOnlyWhenCommanded' /\ ValidMeansWholeTransfer'
  <2>1. CASE StopWrite
    <3>1. WriteFollowed(m_txn.reg, m_txn.payload, m_moved)
      BY <2>1 DEF StopWrite, StoreInv, Followed
    <3>. QED
      BY <2>1, <3>1
         DEF StopWrite, on_stop, WriteFollowed, StoreInv, Kept, DoneOnlyWhenCommanded,
             ValidMeansWholeTransfer
  <2>2. CASE StopRead
    BY <2>2 DEF StopRead, on_stop, ReadFollowed, StoreInv, Followed, Kept,
                DoneOnlyWhenCommanded, ValidMeansWholeTransfer
  <2>3. CASE CycleEnds
    BY <2>3 DEF CycleEnds, reset_for_cycle, StoreInv, Kept, DoneOnlyWhenCommanded,
                ValidMeansWholeTransfer
  <2>. QED
    BY <2>1, <2>2, <2>3
<1>. QED
  BY <1>1, <1>2, <1>3 DEF Kept

\* With a conforming master every step keeps the stored values what they should be.
LEMMA StoreInvInductive ==
  ASSUME Conforming
  PROVE  StoreInv /\ [BusNext]_busVars => StoreInv'
<1>. SUFFICES ASSUME StoreInv, [BusNext]_busVars PROVE StoreInv'
  OBVIOUS
<1>1. BusInv'
  BY BusInvInductive DEF StoreInv
<1>. SUFFICES Followed' /\ Kept'
  BY <1>1 DEF StoreInv
<1>2. CASE \E w \in Writes : StartWrite(w)
  BY <1>2, StartFollowed DEF StartWrite
<1>3. CASE \E r \in Reads : StartRead(r)
  BY <1>3, StartFollowed DEF StartRead
<1>4. CASE WriteByte
  BY <1>4, WriteByteFollowed
<1>5. CASE FetchByte
  BY <1>5, FetchByteFollowed
<1>6. CASE StopWrite \/ StopRead \/ CycleEnds
  BY <1>6, EndFollowed
<1>7. CASE MasterRestart
  BY <1>7 DEF MasterRestart, Conforming, StoreInv, Followed
<1>8. CASE UNCHANGED busVars
  <2>1. Followed'
    BY <1>8 DEF busVars, regVars, store, pointer, flags, masterVars, historyVars, StoreInv,
                Followed, WriteFollowed, ReadFollowed, Stored
  <2>2. Kept'
    BY <1>8 DEF busVars, regVars, store, flags, historyVars, StoreInv, Kept,
                DoneOnlyWhenCommanded, ValidMeansWholeTransfer, NoTornField
  <2>. QED
    BY <2>1, <2>2
<1>. QED
  BY <1>2, <1>3, <1>4, <1>5, <1>6, <1>7, <1>8 DEF BusNext

\* It is so at start.
LEMMA StoreInvInit == BusInit => StoreInv
  BY BusInvInit DEF BusInit, Init, StoreInv, Followed, Kept, DoneOnlyWhenCommanded,
                    ValidMeansWholeTransfer, NoTornField

\* With a conforming master DONE is taken only when it was said, the valid bit
\* means a transfer that ran to its end, and no field is torn.
THEOREM BusKeepsPromises ==
  ASSUME Conforming
  PROVE  BusSpec => [](DoneOnlyWhenCommanded /\ ValidMeansWholeTransfer /\ NoTornField)
<1>1. StoreInv => DoneOnlyWhenCommanded /\ ValidMeansWholeTransfer /\ NoTornField
  BY DEF StoreInv, Kept
<1>2. StoreInv /\ [BusNext]_busVars => StoreInv'
  BY StoreInvInductive
<1>. QED
  BY <1>1, <1>2, StoreInvInit, PTL DEF BusSpec

-----------------------------------------------------------------------------
(* The refinement, step by step.  Between a START and its STOP the abstract  *)
(* store stands still at h_before.                                           *)
AbstractStore == IF m_phase = "idle" THEN Stored ELSE h_before

\* Where the stored bytes stand still, only the two flags of the store can move.
LEMMA FlagsUpdateStored ==
  ASSUME NEW valid, NEW done,
         s_context_valid' = valid, s_done_requested' = done, UNCHANGED store
  PROVE  Stored' = [Stored EXCEPT !.valid = valid, !.done = done]
<1>1. Stored' = [data |-> s_context, length |-> s_context_length,
                 interval |-> s_wake_interval_sec, valid |-> valid, done |-> done]
  <2>1. /\ s_context' = s_context /\ s_context_length' = s_context_length
        /\ s_wake_interval_sec' = s_wake_interval_sec
    BY Zenon DEF store
  <2>. QED
    BY <2>1, Zenon DEF Stored
<1>2. PICK s : s = [Stored EXCEPT !.valid = valid]
  OBVIOUS
<1>3. s = [data |-> s_context, length |-> s_context_length,
           interval |-> s_wake_interval_sec, valid |-> valid, done |-> s_done_requested]
  BY <1>2 DEF Stored
<1>4. [s EXCEPT !.done = done]
        = [data |-> s_context, length |-> s_context_length,
           interval |-> s_wake_interval_sec, valid |-> valid, done |-> done]
  BY <1>3
<1>5. [s EXCEPT !.done = done] = [Stored EXCEPT !.valid = valid, !.done = done]
  BY <1>2, Zenon
<1>. QED
  BY <1>1, <1>4, <1>5, Zenon

\* The done latch is one field of the store.
LEMMA StoredButDone ==
  ASSUME NEW done
  PROVE  [Stored EXCEPT !.done = done]
           = [data |-> s_context, length |-> s_context_length,
              interval |-> s_wake_interval_sec, valid |-> s_context_valid, done |-> done]
  BY DEF Stored

\* A START and the bytes that follow are no step of the store.
LEMMA BusyStutters ==
  ASSUME StoreInv,
         \/ \E w \in Writes : StartWrite(w)
         \/ \E r \in Reads : StartRead(r)
         \/ WriteByte \/ FetchByte
  PROVE  AbstractStore' = AbstractStore /\ m_reply' = m_reply
<1>1. CASE WriteByte \/ FetchByte
  BY <1>1 DEF WriteByte, FetchByte, historyVars, AbstractStore
<1>2. CASE (\E w \in Writes : StartWrite(w)) \/ (\E r \in Reads : StartRead(r))
  <2>1. PICK phase \in {"write", "read"} : \E txn \in Writes \cup Reads : Start(phase, txn)
    BY <1>2 DEF StartWrite, StartRead
  <2>. PICK txn \in Writes \cup Reads : Start(phase, txn)
    BY <2>1
  <2>. QED
    BY DEF Start, AbstractStore
<1>. QED
  BY <1>1, <1>2

\* The STOP of a write is where it takes effect.
LEMMA StopWriteCommits ==
  ASSUME StoreInv, StopWrite
  PROVE  /\ m_txn \in Writes
         /\ AbstractStore' = Abstract!Completed(
                               Abstract!Effect(AbstractStore, m_txn.reg, m_txn.payload),
                               m_txn.reg, m_txn.payload)
         /\ m_reply' = m_reply
<1>. PICK reg, p : reg = m_txn.reg /\ p = m_txn.payload
  OBVIOUS
<1>1. /\ m_txn \in Writes /\ reg \in Byte /\ p \in Seq(Byte) /\ m_moved = Len(p)
      /\ h_before \in StoredValues
      /\ WriteFollowed(reg, p, Len(p))
      /\ AbstractStore = h_before /\ AbstractStore' = Stored'
  BY TransactionTypes
     DEF StopWrite, Idle, StoreInv, BusInv, MasterTypes, Followed, AbstractStore
<1>2. Abstract!Effect(h_before, reg, p) = Stored
  BY <1>1, EffectByField DEF WriteFollowed
<1>3. p # <<>> <=> Len(p) > 0
  BY <1>1
<1>4. /\ s_context_valid' = (s_context_valid \/ (reg = 3 /\ p # <<>>))
      /\ s_done_requested' = (s_done_requested \/ (reg = 4 /\ p # <<>> /\ p[1] = 1))
      /\ UNCHANGED store
  <2>1. /\ s_context_data_written <=> reg = 3 /\ p # <<>>
        /\ s_pending_done <=> reg = 4 /\ p # <<>> /\ p[1] = 1
    BY <1>1, <1>3 DEF WriteFollowed, REG_COMMAND, REG_CONTEXT_DATA, VAULT_CMD_DONE
  <2>2. /\ s_context_valid' = (s_context_valid \/ s_context_data_written)
        /\ s_done_requested' = (s_done_requested \/ s_pending_done)
        /\ UNCHANGED store
    BY DEF StopWrite, on_stop
  <2>. QED
    BY <2>1, <2>2, Zenon
<1>5. Stored' = [Stored EXCEPT !.valid = @ \/ (reg = 3 /\ p # <<>>),
                               !.done  = @ \/ (reg = 4 /\ p # <<>> /\ p[1] = 1)]
  <2>1. Stored.valid = s_context_valid /\ Stored.done = s_done_requested
    BY DEF Stored
  <2>. DEFINE valid == s_context_valid \/ (reg = 3 /\ p # <<>>)
              done == s_done_requested \/ (reg = 4 /\ p # <<>> /\ p[1] = 1)
  <2>2. s_context_valid' = valid /\ s_done_requested' = done /\ UNCHANGED store
    BY <1>4, Zenon
  <2>3. /\ valid = (Stored.valid \/ (reg = 3 /\ p # <<>>))
        /\ done = (Stored.done \/ (reg = 4 /\ p # <<>> /\ p[1] = 1))
    BY <2>1, Zenon
  <2>. HIDE DEF valid, done
  <2>4. Stored' = [Stored EXCEPT !.valid = valid, !.done = done]
    BY <2>2, FlagsUpdateStored
  <2>. QED
    BY <2>3, <2>4, Zenon
<1>6. m_reply' = m_reply
  BY DEF StopWrite
<1>. QED
  BY <1>1, <1>2, <1>5, <1>6 DEF Abstract!Completed

\* The bytes of a read are those of the store as it stands.
LEMMA StopReadAnswers ==
  ASSUME StoreInv, StopRead
  PROVE  /\ m_txn \in Reads
         /\ m_reply' = [i \in 1 .. m_txn.count |->
                          Abstract!Answer(AbstractStore, m_txn.reg, i - 1)]
         /\ AbstractStore' = AbstractStore
<1>1. /\ m_txn \in Reads /\ m_txn.count \in Nat
      /\ ReadFollowed(m_txn.reg, m_txn.count, m_moved) /\ m_moved >= m_txn.count
      /\ m_moved \in Nat
      /\ AbstractStore = h_before /\ AbstractStore' = Stored' /\ m_reply' = m_reading
  BY TransactionTypes
     DEF StopRead, Idle, StoreInv, BusInv, MasterTypes, Followed, AbstractStore
<1>2. Len(m_reading) = m_txn.count
  BY <1>1 DEF ReadFollowed
<1>3. m_reading = [i \in 1 .. m_txn.count |-> Abstract!Answer(h_before, m_txn.reg, i - 1)]
  <2>1. m_reading = [i \in 1 .. Len(m_reading) |-> m_reading[i]]
    BY <1>1 DEF ReadFollowed
  <2>. QED
    BY <1>1, <1>2, <2>1 DEF ReadFollowed
<1>4. Stored' = Stored
  <2>1. s_context_valid' = s_context_valid /\ s_done_requested' = s_done_requested
    BY <1>1 DEF StopRead, on_stop, ReadFollowed, StoreInv, BusInv, RegInv, TypeOK
  <2>. QED
    BY <2>1 DEF StopRead, on_stop, store, Stored
<1>. QED
  BY <1>1, <1>3, <1>4 DEF ReadFollowed

\* A power cut loses the DONE and, of a write under way, the rest.
LEMMA CycleEndsCutsOff ==
  ASSUME StoreInv, CycleEnds
  PROVE  /\ AbstractStore.done
         /\ m_reply' = m_reply
         /\ \/ AbstractStore' = [AbstractStore EXCEPT !.done = FALSE]
            \/ /\ m_txn \in Writes /\ m_moved \in 0 .. Len(m_txn.payload)
               /\ AbstractStore' =
                    [Abstract!Effect(AbstractStore, m_txn.reg,
                                     SubSeq(m_txn.payload, 1, m_moved)) EXCEPT !.done = FALSE]
<1>1. /\ AbstractStore' = Stored' /\ m_reply' = m_reply
      /\ Stored' = [Stored EXCEPT !.done = FALSE] /\ Stored.done
  <2>1. AbstractStore' = Stored' /\ m_reply' = m_reply
    BY DEF CycleEnds, Idle, AbstractStore
  <2>2. Stored.done
    BY DEF CycleEnds, Stored
  <2>3. s_context_valid' = s_context_valid /\ s_done_requested' = FALSE /\ UNCHANGED store
    BY DEF CycleEnds, reset_for_cycle
  <2>4. Stored' = [data |-> s_context, length |-> s_context_length,
                   interval |-> s_wake_interval_sec, valid |-> s_context_valid,
                   done |-> FALSE]
    <3>1. /\ s_context' = s_context /\ s_context_length' = s_context_length
          /\ s_wake_interval_sec' = s_wake_interval_sec
      BY <2>3, Zenon DEF store
    <3>. QED
      BY <2>3, <3>1, Zenon DEF Stored
  <2>5. [Stored EXCEPT !.done = FALSE]
          = [data |-> s_context, length |-> s_context_length,
             interval |-> s_wake_interval_sec, valid |-> s_context_valid,
             done |-> FALSE]
    BY StoredButDone, Zenon
  <2>6. Stored' = [Stored EXCEPT !.done = FALSE]
    BY <2>4, <2>5, Zenon
  <2>. QED
    BY <2>1, <2>2, <2>6
<1>2. CASE m_phase = "idle"
  BY <1>1, <1>2 DEF AbstractStore
<1>3. CASE m_phase = "read"
  BY <1>1, <1>3 DEF AbstractStore, StoreInv, Followed, ReadFollowed
<1>4. CASE m_phase = "write"
  <2>1. /\ m_txn \in Writes /\ m_moved \in 0 .. Len(m_txn.payload)
        /\ m_txn.reg \in Byte /\ m_txn.payload \in Seq(Byte)
        /\ h_before \in StoredValues /\ AbstractStore = h_before
        /\ Stored = Applied(h_before, m_txn.reg, m_txn.payload, m_moved)
    BY <1>4, TransactionTypes
       DEF StoreInv, BusInv, MasterTypes, Followed, WriteFollowed, AbstractStore
  <2>2. Stored = Abstract!Effect(h_before, m_txn.reg, SubSeq(m_txn.payload, 1, m_moved))
    BY <2>1, AppliedPrefix
  <2>3. h_before.done = Stored.done
    BY <2>1 DEF Applied
  <2>. QED
    BY <1>1, <2>1, <2>2, <2>3
<1>. QED
  BY <1>2, <1>3, <1>4 DEF StoreInv, BusInv, MasterTypes

\* Every step of the bus is a step of the store or none.
LEMMA BusStepRefines ==
  ASSUME Conforming
  PROVE  StoreInv /\ [BusNext]_busVars => [Abstract!Next]_(Abstract!absVars)
<1>. SUFFICES ASSUME StoreInv, [BusNext]_busVars PROVE [Abstract!Next]_(Abstract!absVars)
  OBVIOUS
<1>. USE DEF AbstractStore
<1>1. CASE \/ \E w \in Writes : StartWrite(w)
           \/ \E r \in Reads : StartRead(r)
           \/ WriteByte \/ FetchByte
  BY <1>1, BusyStutters DEF Abstract!absVars
<1>2. CASE StopWrite
  BY <1>2, StopWriteCommits DEF Abstract!Next, Abstract!Write
<1>3. CASE StopRead
  BY <1>3, StopReadAnswers DEF Abstract!Next, Abstract!Read
<1>4. CASE CycleEnds
  BY <1>4, CycleEndsCutsOff DEF Abstract!Next, Abstract!NewCycle, Abstract!CutOff
<1>5. CASE MasterRestart
  BY <1>5 DEF MasterRestart, Conforming, StoreInv, Followed
<1>6. CASE UNCHANGED busVars
  BY <1>6 DEF busVars, regVars, store, flags, masterVars, historyVars, Stored,
              Abstract!absVars
<1>. QED
  BY <1>1, <1>2, <1>3, <1>4, <1>5, <1>6 DEF BusNext

\* Seen by a conforming master the register file is an atomic store: it
\* implements TransactionStore for every repertoire of transactions.
THEOREM BusImplementsStore ==
  ASSUME Conforming
  PROVE  BusSpec => Transactional
<1>1. BusInit => Abstract!Init
  BY DEF BusInit, Init, Abstract!Init, Stored, ContextOffset
<1>2. StoreInv /\ [BusNext]_busVars => [Abstract!Next]_(Abstract!absVars)
  BY BusStepRefines
<1>3. StoreInv /\ [BusNext]_busVars => StoreInv'
  BY StoreInvInductive
<1>. QED
  BY <1>1, <1>2, <1>3, StoreInvInit, PTL DEF BusSpec, Transactional, Abstract!Spec
===============================================================================

--------------------------- MODULE VaultRegisters ---------------------------
(***************************************************************************)
(* The Data Vault's I2C register file (core/src/vault_i2c_registers.c).    *)
(*                                                                         *)
(* A backend's interrupt handler feeds it bytes: on_write_byte for a byte  *)
(* the master wrote, on_read_request when the master asks for one, on_stop *)
(* when the bus goes idle.  The core calls reset_for_cycle once per wake   *)
(* cycle.  There is no hook for a START condition, so the register file    *)
(* alone cannot tell where a transaction begins: the environment here is   *)
(* free to issue these calls in any order.  VaultBus adds the master.      *)
(*                                                                         *)
(* A little-endian field is a function from the byte's offset to the byte. *)
(***************************************************************************)
EXTENDS Integers

CONSTANTS
  ContextSize,    \* VAULT_CONTEXT_SIZE: 320 on the target, 8 on the host
  OffsetModulus,  \* s_field_offset is a uint16_t: 2^16 in the code
  PointerByte,    \* the bytes a master may open a transaction with
  PayloadByte     \* the bytes it may follow up with

ASSUME RegistersAssumption ==
  /\ ContextSize \in Nat \ {0}
  /\ OffsetModulus \in Nat
  /\ OffsetModulus > 4
  /\ OffsetModulus > ContextSize
  /\ PointerByte \subseteq 0..255
  /\ PayloadByte \subseteq 0..255

VARIABLES
  s_context,                 \* the stored context, one byte per offset
  s_context_length,          \* the committed length, clamped to ContextSize
  s_context_length_staging,  \* the length's bytes as they arrive
  s_context_valid,           \* STATUS bit 0
  s_wake_interval_sec,       \* the committed interval, by byte
  s_wake_interval_staging,   \* the interval's bytes as they arrive
  s_active_reg,              \* the register the pointer byte selected
  s_field_offset,            \* bytes moved since the pointer byte
  s_have_pointer,            \* the pointer byte has been seen
  s_pending_done,            \* DONE written, STOP not yet seen
  s_done_requested,          \* the latch the core polls
  s_context_data_written     \* s_context_data_written_this_transaction

store   == <<s_context, s_context_length, s_context_length_staging,
             s_wake_interval_sec, s_wake_interval_staging>>
pointer == <<s_active_reg, s_field_offset, s_have_pointer>>
flags   == <<s_context_valid, s_pending_done, s_done_requested,
             s_context_data_written>>
regVars == <<store, pointer, flags>>

-----------------------------------------------------------------------------
REG_STATUS            == 0
REG_PROTOCOL_VERSION  == 1
REG_CONTEXT_LENGTH    == 2
REG_CONTEXT_DATA      == 3
REG_COMMAND           == 4
REG_WAKE_INTERVAL_SEC == 5
REG_NONE              == -1

VAULT_CMD_DONE                 == 1
VAULT_PROTOCOL_VERSION         == 1
VAULT_STATUS_CONTEXT_VALID_BIT == 1

Register == REG_STATUS .. REG_WAKE_INTERVAL_SEC
Byte     == 0 .. 255
Erased   == 255                     \* what a read with nothing behind it gives

LengthOffset   == 0 .. 1
IntervalOffset == 0 .. 3
ContextOffset  == 0 .. ContextSize - 1

\* Mutant: the clamp is forgotten.
CommittedLengthUnclamped(staging) == staging[0] + 256 * staging[1]

\* The length the two staged bytes stand for, clamped to the buffer.
CommittedLength(staging) ==
  LET n == staging[0] + 256 * staging[1]
  IN  IF n > ContextSize THEN ContextSize ELSE n

NextOffset == (s_field_offset + 1) % OffsetModulus

-----------------------------------------------------------------------------
(* on_write_byte: the first byte of a transaction selects the register...  *)
SelectRegister(byte) ==
  /\ ~s_have_pointer
  /\ s_have_pointer' = TRUE
  /\ s_field_offset' = 0
  /\ s_active_reg' = IF byte \in Register THEN byte ELSE REG_NONE
  /\ UNCHANGED <<store, flags>>

(* ...and every later byte is a value byte of that register.               *)
ValueByte ==
  /\ s_have_pointer
  /\ s_field_offset' = NextOffset
  /\ UNCHANGED <<s_have_pointer, s_active_reg, s_context_valid, s_done_requested>>

\* Two bytes; the second commits them.
WriteContextLength(byte) ==
  /\ s_active_reg = REG_CONTEXT_LENGTH
  /\ s_context_length_staging' =
       IF s_field_offset \in LengthOffset
         THEN [s_context_length_staging EXCEPT ![s_field_offset] = byte]
         ELSE s_context_length_staging
  /\ s_context_length' =
       IF s_field_offset = 1 THEN CommittedLength(s_context_length_staging')
                             ELSE s_context_length
  /\ UNCHANGED <<s_context, s_wake_interval_sec, s_wake_interval_staging,
                 s_pending_done, s_context_data_written>>

\* Stored at once; bytes beyond the buffer are dropped.
WriteContextData(byte) ==
  /\ s_active_reg = REG_CONTEXT_DATA
  /\ IF s_field_offset \in ContextOffset
       THEN /\ s_context' = [s_context EXCEPT ![s_field_offset] = byte]
            /\ s_context_data_written' = TRUE
       ELSE UNCHANGED <<s_context, s_context_data_written>>
  /\ UNCHANGED <<s_context_length, s_context_length_staging, s_wake_interval_sec,
                 s_wake_interval_staging, s_pending_done>>

\* Mutant: DONE counts at any offset.
WriteCommandAnywhere(byte) ==
  /\ s_active_reg = REG_COMMAND
  /\ s_pending_done' = (s_pending_done \/ byte = VAULT_CMD_DONE)
  /\ UNCHANGED <<store, s_context_data_written>>

\* DONE counts only as the first value byte, and only once STOP is seen.
WriteCommand(byte) ==
  /\ s_active_reg = REG_COMMAND
  /\ s_pending_done' = (s_pending_done \/ (s_field_offset = 0 /\ byte = VAULT_CMD_DONE))
  /\ UNCHANGED <<store, s_context_data_written>>

\* Mutants: the commit is one byte early; every byte commits.
WriteWakeIntervalAt(byte, commit) ==
  /\ s_active_reg = REG_WAKE_INTERVAL_SEC
  /\ s_wake_interval_staging' =
       IF s_field_offset \in IntervalOffset
         THEN [s_wake_interval_staging EXCEPT ![s_field_offset] = byte]
         ELSE s_wake_interval_staging
  /\ s_wake_interval_sec' =
       IF s_field_offset \in commit THEN s_wake_interval_staging' ELSE s_wake_interval_sec
  /\ UNCHANGED <<s_context, s_context_length, s_context_length_staging,
                 s_pending_done, s_context_data_written>>
WriteWakeIntervalEarly(byte) == WriteWakeIntervalAt(byte, {2})
WriteWakeIntervalPerByte(byte) == WriteWakeIntervalAt(byte, IntervalOffset)

\* Four bytes; the fourth commits them.
WriteWakeInterval(byte) ==
  /\ s_active_reg = REG_WAKE_INTERVAL_SEC
  /\ s_wake_interval_staging' =
       IF s_field_offset \in IntervalOffset
         THEN [s_wake_interval_staging EXCEPT ![s_field_offset] = byte]
         ELSE s_wake_interval_staging
  /\ s_wake_interval_sec' =
       IF s_field_offset = 3 THEN s_wake_interval_staging' ELSE s_wake_interval_sec
  /\ UNCHANGED <<s_context, s_context_length, s_context_length_staging,
                 s_pending_done, s_context_data_written>>

\* Read-only and unknown registers ignore the byte but still count it.
WriteIgnored ==
  /\ s_active_reg \in {REG_STATUS, REG_PROTOCOL_VERSION, REG_NONE}
  /\ UNCHANGED <<store, s_pending_done, s_context_data_written>>

on_write_byte(byte) ==
  \/ SelectRegister(byte)
  \/ ValueByte /\ WriteContextLength(byte)
  \/ ValueByte /\ WriteContextData(byte)
  \/ ValueByte /\ WriteCommand(byte)
  \/ ValueByte /\ WriteWakeInterval(byte)
  \/ ValueByte /\ WriteIgnored

(* The byte that on_read_request returns.                                  *)
ReadByte ==
  IF ~s_have_pointer THEN Erased
  ELSE CASE s_active_reg = REG_STATUS /\ s_field_offset = 0
              -> IF s_context_valid THEN VAULT_STATUS_CONTEXT_VALID_BIT ELSE 0
         [] s_active_reg = REG_PROTOCOL_VERSION /\ s_field_offset = 0
              -> VAULT_PROTOCOL_VERSION
         [] s_active_reg = REG_CONTEXT_LENGTH /\ s_field_offset \in LengthOffset
              -> IF s_field_offset = 0 THEN s_context_length % 256
                                       ELSE s_context_length \div 256
         [] s_active_reg = REG_CONTEXT_DATA /\ s_field_offset \in ContextOffset
              -> s_context[s_field_offset]
         [] s_active_reg = REG_WAKE_INTERVAL_SEC /\ s_field_offset \in IntervalOffset
              -> s_wake_interval_sec[s_field_offset]
         [] OTHER -> Erased

\* Mutant: the offset is not advanced.
on_read_request_stuck == UNCHANGED regVars

\* A read moves the same offset a write does; without a pointer it moves nothing.
on_read_request ==
  /\ s_field_offset' = IF s_have_pointer THEN NextOffset ELSE s_field_offset
  /\ UNCHANGED <<store, s_active_reg, s_have_pointer, flags>>

\* Mutant: the pointer byte of the ended transaction is still there.
ForgetOffsetOnly ==
  /\ s_field_offset' = 0
  /\ UNCHANGED <<s_have_pointer, s_active_reg>>

ForgetPointer ==
  /\ s_have_pointer' = FALSE
  /\ s_field_offset' = 0
  /\ s_active_reg' = REG_NONE

\* Mutant: addressing CONTEXT_DATA is enough to make it valid.
on_stop_empty_is_valid ==
  /\ s_done_requested' = (s_done_requested \/ s_pending_done)
  /\ s_pending_done' = FALSE
  /\ s_context_valid' = (s_context_valid \/ s_active_reg = REG_CONTEXT_DATA)
  /\ s_context_data_written' = FALSE
  /\ ForgetPointer
  /\ UNCHANGED store

on_stop ==
  /\ s_done_requested' = (s_done_requested \/ s_pending_done)
  /\ s_pending_done' = FALSE
  /\ s_context_valid' = (s_context_valid \/ s_context_data_written)
  /\ s_context_data_written' = FALSE
  /\ ForgetPointer
  /\ UNCHANGED store

\* Mutants: one flag of the cut-off transaction survives into the new cycle.
reset_keeping(flag_vars) ==
  /\ s_done_requested' = FALSE
  /\ "pending" \notin flag_vars => s_pending_done' = FALSE
  /\ "data" \notin flag_vars => s_context_data_written' = FALSE
  /\ "pending" \in flag_vars => UNCHANGED s_pending_done
  /\ "data" \in flag_vars => UNCHANGED s_context_data_written
  /\ ForgetPointer
  /\ UNCHANGED <<store, s_context_valid>>
reset_keeping_data_written == reset_keeping({"data"})
reset_keeping_pending_done == reset_keeping({"pending"})

reset_for_cycle ==
  /\ s_done_requested' = FALSE
  /\ s_pending_done' = FALSE
  /\ s_context_data_written' = FALSE
  /\ ForgetPointer
  /\ UNCHANGED <<store, s_context_valid>>

\* Mutant: from the last byte of a fixed-length register on, not only for it.
next_write_byte_completes ==
  \/ s_active_reg = REG_COMMAND
  \/ s_active_reg = REG_CONTEXT_LENGTH /\ s_field_offset >= 1
  \/ s_active_reg = REG_WAKE_INTERVAL_SEC /\ s_field_offset >= 3

(* The hint a backend whose HAL wants to know the last frame asks for.     *)
next_write_byte_is_last ==
  \/ s_active_reg = REG_COMMAND /\ s_field_offset = 0
  \/ s_active_reg = REG_CONTEXT_LENGTH /\ s_field_offset = 1
  \/ s_active_reg = REG_WAKE_INTERVAL_SEC /\ s_field_offset = 3

-----------------------------------------------------------------------------
(* Power-on: .bss is zero, then vault_core_init sets the default interval. *)
DefaultInterval == [i \in IntervalOffset |-> IF i = 0 THEN 60 ELSE 0]

Init ==
  /\ s_context = [i \in ContextOffset |-> 0]
  /\ s_context_length = 0
  /\ s_context_length_staging = [i \in LengthOffset |-> 0]
  /\ s_context_valid = FALSE
  /\ s_wake_interval_sec = DefaultInterval
  /\ s_wake_interval_staging = [i \in IntervalOffset |-> 0]
  /\ s_active_reg = REG_NONE
  /\ s_field_offset = 0
  /\ s_have_pointer = FALSE
  /\ s_pending_done = FALSE
  /\ s_done_requested = FALSE
  /\ s_context_data_written = FALSE

\* In the code any byte; two sets bound it for TLC.
WireByte == IF s_have_pointer THEN PayloadByte ELSE PointerByte

Next ==
  \/ \E byte \in WireByte : on_write_byte(byte)
  \/ on_read_request
  \/ on_stop
  \/ reset_for_cycle

Spec == Init /\ [][Next]_regVars

-----------------------------------------------------------------------------
\* Every variable of the register file keeps the range its C type and the
\* bounds checks in the code give it.
TypeOK ==
  /\ s_context \in [ContextOffset -> Byte]
  /\ s_context_length \in 0 .. ContextSize
  /\ s_context_length_staging \in [LengthOffset -> Byte]
  /\ s_context_valid \in BOOLEAN
  /\ s_wake_interval_sec \in [IntervalOffset -> Byte]
  /\ s_wake_interval_staging \in [IntervalOffset -> Byte]
  /\ s_active_reg \in Register \cup {REG_NONE}
  /\ s_field_offset \in 0 .. OffsetModulus - 1
  /\ s_have_pointer \in BOOLEAN
  /\ s_pending_done \in BOOLEAN
  /\ s_done_requested \in BOOLEAN
  /\ s_context_data_written \in BOOLEAN

\* A flag that the next STOP will act on belongs to the transaction in
\* progress: DONE is pending only while COMMAND is addressed, the data flag is
\* up only while CONTEXT_DATA is, and a transaction without a pointer has no
\* register and no offset.  A flag outliving its transaction would make an
\* unrelated STOP cut the main MCU's power or declare the context valid.
FlagsBelongToTransaction ==
  /\ s_pending_done => s_have_pointer /\ s_active_reg = REG_COMMAND
  /\ s_context_data_written => s_have_pointer /\ s_active_reg = REG_CONTEXT_DATA
  /\ ~s_have_pointer => s_active_reg = REG_NONE /\ s_field_offset = 0

\* The done latch rises only at the end of a transaction addressed to COMMAND,
\* and the valid bit only at the end of one addressed to CONTEXT_DATA; no byte
\* by itself raises either (the commit-at-STOP rule of the design).
RaisedOnlyByOwnStop ==
  [][/\ ~s_done_requested /\ s_done_requested'
          => s_active_reg = REG_COMMAND /\ ~s_have_pointer'
     /\ ~s_context_valid /\ s_context_valid'
          => s_active_reg = REG_CONTEXT_DATA /\ ~s_have_pointer']_regVars

\* Whenever a byte takes effect as the last one of a fixed-length register
\* (the length or the interval changes, or DONE becomes pending),
\* next_write_byte_is_last had said so: a backend that asks for the hint
\* before arming its receive never arms for a byte too few.
HintPrecedesCommit ==
  [][(\/ s_context_length' # s_context_length
      \/ s_wake_interval_sec' # s_wake_interval_sec
      \/ ~s_pending_done /\ s_pending_done')
       => next_write_byte_is_last]_regVars
=============================================================================

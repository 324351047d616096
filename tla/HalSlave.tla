------------------------------ MODULE HalSlave ------------------------------
(***************************************************************************)
(* The STM32U031's and the STM32C011's I2C slave: callbacks under ST's HAL *)
(* (external).  The HAL is in one of a few states and has at most one byte *)
(* armed; its interrupt handler serves one condition per pass, a STOP      *)
(* before anything else, and calls back.  A callback that does not arm the *)
(* next byte, or does not listen again, leaves the bus stuck.              *)
(*                                                                         *)
(* A pass is one step: nothing preempts it, and what the wire does         *)
(* meanwhile waits for the next pass.  It may come late: a STOP may find   *)
(* the last byte or NACK unserved, an address the STOP before it, but a    *)
(* byte or a NACK is served before the next address has gone out.  The     *)
(* bytes of a read are numbered from its address, modulo 4.                *)
(***************************************************************************)
EXTENDS SlaveBus

Ordinal == 0 .. 3
Empty   == 4

VARIABLES
  State,      \* the HAL's: "reset", "listen", "rx" or "tx"
  XferCount,  \* bytes armed
  flags,      \* the conditions raised: ADDR, RXNE, NACKF, STOPF
  s_tx_byte,
  TXDR,       \* the transmit register
  shift,      \* the byte being clocked out
  fetched,    \* bytes of this read asked of the register file
  taken,      \* and received by the master
  m_last      \* the master has refused a further byte of this read

hal  == <<State, XferCount>>
tx   == <<s_tx_byte, TXDR, shift, fetched, taken, m_last>>
vars == <<slaveBusVars, hal, flags, tx>>

Listening == State \in {"listen", "rx", "tx"}

Init ==
  /\ WireInit
  /\ State = "listen" /\ XferCount = 0 /\ flags = {}
  /\ s_tx_byte = 0 /\ TXDR = Empty /\ shift = Empty
  /\ fetched = 0 /\ taken = 0 /\ m_last = FALSE

-----------------------------------------------------------------------------
(* The master and the peripheral, external. *)
\* The slave acknowledges its address while the HAL listens; a read that goes
\* on is not readdressed before its last byte has been refused.
Address ==
  /\ Listening
  /\ flags \subseteq {"STOPF"}
  /\ m_phase = "read" => m_last
  /\ \E phase \in {"write", "read"} : Addressed(phase)
  /\ flags' = flags \cup {"ADDR"}
  /\ taken' = 0 /\ m_last' = FALSE
  /\ UNCHANGED <<owner, hal, s_tx_byte, TXDR, shift, fetched>>

\* The next byte is stretched until this one is taken, its STOP is not.
SendByte ==
  /\ m_phase = "write" /\ ~m_waits
  /\ "RXNE" \notin flags
  /\ flags' = flags \cup {"RXNE"}
  /\ m_sent' = TRUE
  /\ UNCHANGED <<m_phase, m_waits, transfer, owner, hal, tx>>

ShiftByte ==
  /\ m_phase = "read" /\ ~m_last
  /\ shift = Empty /\ TXDR # Empty
  /\ shift' = TXDR /\ TXDR' = Empty
  /\ UNCHANGED <<slaveBusVars, hal, flags, s_tx_byte, fetched, taken, m_last>>

TakeByte(last) ==
  /\ shift # Empty
  /\ shift' = Empty
  /\ taken' = (taken + 1) % 4
  /\ m_last' = last
  /\ flags' = flags \cup (IF last THEN {"NACKF"} ELSE {})
  /\ UNCHANGED <<slaveBusVars, hal, s_tx_byte, TXDR, fetched>>

Stop ==
  /\ m_phase = "read" => m_last
  /\ MasterStops
  /\ flags' = flags \cup {"STOPF"}
  /\ UNCHANGED <<hal, tx>>

-----------------------------------------------------------------------------
(* The callbacks.  HAL_I2C_Slave_Seq_Receive_IT and _Transmit_IT: *)
ArmAs(state) == State' = state /\ XferCount' = 1

\* vault_i2c_registers_on_read_request into s_tx_byte, as byte n of the read.
Fetch(n) ==
  /\ Deliver
  /\ s_tx_byte' = n
  /\ fetched' = (n + 1) % 4

\* Mutants: a read starts with the byte left from the last one; a read's address
\* is not armed; nothing is armed after a received byte; a STOP, or the STOP of
\* a read, is not passed on.
AddrUnfetched ==
  /\ IF m_phase = "write"
       THEN ArmAs("rx") /\ UNCHANGED <<owner, s_tx_byte, fetched>>
       ELSE ArmAs("tx") /\ Deliver /\ fetched' = 1 /\ UNCHANGED s_tx_byte
  /\ flags' = flags \ {"ADDR"}
  /\ m_waits' = FALSE
AddrUnarmed ==
  /\ IF m_phase = "write"
       THEN ArmAs("rx") /\ flags' = flags \ {"ADDR"} /\ m_waits' = FALSE
            /\ UNCHANGED <<owner, s_tx_byte, fetched>>
       ELSE Fetch(0) /\ UNCHANGED <<hal, flags, m_waits>>
RxUnarmed == Deliver /\ State' = "listen" /\ XferCount' = 0
ListenAndForget ==
  /\ UNCHANGED owner
  /\ State' = "listen" /\ XferCount' = 0
ListenUnheardRead ==
  /\ IF "RXNE" \in flags \/ State = "rx" THEN on_stop ELSE UNCHANGED owner
  /\ State' = "listen" /\ XferCount' = 0

\* Arming for the direction addressed lets the clock go.
HAL_I2C_AddrCallback ==
  /\ IF m_phase = "write"
       THEN ArmAs("rx") /\ UNCHANGED <<owner, s_tx_byte, fetched>>
       ELSE ArmAs("tx") /\ Fetch(0)
  /\ flags' = flags \ {"ADDR"}
  /\ m_waits' = FALSE

\* Whether the armed byte is announced as the last makes no difference to what
\* a slave does.
HAL_I2C_SlaveRxCpltCallback == Deliver /\ ArmAs("rx")

HAL_I2C_SlaveTxCpltCallback == Fetch(fetched) /\ ArmAs("tx")

\* on_stop, and HAL_I2C_EnableListen_IT from HAL_I2C_STATE_READY.
HAL_I2C_ListenCpltCallback ==
  /\ on_stop
  /\ State' = "listen" /\ XferCount' = 0

\* A byte is still armed: diagnostics only; the HAL falls back to listening.
HAL_I2C_ErrorCallback ==
  /\ State' = "listen"
  /\ UNCHANGED <<owner, s_tx_byte, fetched>>

-----------------------------------------------------------------------------
(* The passes of HAL_I2C_EV_IRQHandler. *)
\* The last byte of a write, if it is still in RXDR, goes to the register file
\* before the on_stop; a NACK still pending counts as served.
PassStop ==
  /\ "STOPF" \in flags
  /\ HAL_I2C_ListenCpltCallback
  /\ flags' = flags \ {"STOPF", "RXNE", "NACKF"}
  /\ TXDR' = Empty /\ shift' = Empty
  /\ UNCHANGED <<wire, s_tx_byte, fetched, taken, m_last>>

\* The byte after the last is fetched although nobody will read it.
PassNack ==
  /\ "NACKF" \in flags /\ "STOPF" \notin flags
  /\ IF State = "tx" /\ XferCount = 0
       THEN HAL_I2C_SlaveTxCpltCallback
       ELSE HAL_I2C_ErrorCallback /\ UNCHANGED XferCount
  /\ flags' = flags \ {"NACKF"}
  /\ TXDR' = Empty
  /\ UNCHANGED <<wire, shift, taken, m_last>>

PassReceive ==
  /\ "RXNE" \in flags /\ "STOPF" \notin flags
  /\ State = "rx" /\ XferCount = 1
  /\ HAL_I2C_SlaveRxCpltCallback
  /\ flags' = flags \ {"RXNE"}
  /\ UNCHANGED <<wire, tx>>

PassAddress ==
  /\ "ADDR" \in flags /\ "STOPF" \notin flags
  /\ HAL_I2C_AddrCallback
  /\ UNCHANGED <<m_phase, m_sent, transfer, TXDR, shift, taken, m_last>>

\* TXIS: the armed byte goes to TXDR or, none being armed, the next is.
PassTransmit ==
  /\ State = "tx" /\ flags = {}
  /\ m_phase = "read" /\ ~m_last /\ TXDR = Empty
  /\ IF XferCount = 1
       THEN TXDR' = s_tx_byte /\ XferCount' = 0 /\ UNCHANGED <<owner, State, s_tx_byte, fetched>>
       ELSE HAL_I2C_SlaveTxCpltCallback /\ UNCHANGED TXDR
  /\ UNCHANGED <<wire, flags, shift, taken, m_last>>

IRQHandler ==
  PassStop \/ PassNack \/ PassReceive \/ PassAddress \/ PassTransmit

-----------------------------------------------------------------------------
\* The main MCU is off; the NVIC line, the HAL and the peripheral follow.
platform_i2c_slave_deinit ==
  /\ State # "reset"
  /\ State' = "reset" /\ XferCount' = 0 /\ flags' = {}
  /\ TXDR' = Empty /\ shift' = Empty
  /\ MasterOff
  /\ UNCHANGED <<s_tx_byte, fetched, taken, m_last>>

\* HAL_I2C_Init leaves the HAL ready; HAL_I2C_EnableListen_IT needs it so.
platform_i2c_slave_init ==
  /\ State = "reset"
  /\ State' = "listen"
  /\ UNCHANGED <<slaveBusVars, XferCount, flags, tx>>

Next ==
  \/ Address \/ SendByte \/ ShiftByte \/ (\E last \in BOOLEAN : TakeByte(last)) \/ Stop
  \/ IRQHandler
  \/ platform_i2c_slave_deinit \/ platform_i2c_slave_init

Spec == Init /\ [][Next]_vars

-----------------------------------------------------------------------------
\* The master receives the bytes of a read in the order the register file gave
\* them, none twice and none left out, however the fetches run ahead of the
\* wire; and they run ahead by two at most (one in TXDR, or one fetched in
\* answer to the NACK), which is what the master of VaultBus allows for.
ReadsInOrder ==
  /\ shift # Empty => shift = taken
  /\ TXDR # Empty /\ m_phase = "read" /\ ~m_last =>
       TXDR = (taken + (IF shift = Empty THEN 0 ELSE 1)) % 4
  /\ State = "tx" /\ m_phase = "read" /\ "ADDR" \notin flags =>
       (fetched + 4 - taken) % 4 \in 0 .. 2

\* A byte the master has sent waits to be taken, or one it asks for to be given.
HeldUp == \/ "RXNE" \in flags
          \/ m_phase = "read" /\ ~m_waits /\ ~m_last /\ TXDR = Empty
=============================================================================

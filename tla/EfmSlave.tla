------------------------------ MODULE EfmSlave ------------------------------
(***************************************************************************)
(* The EFM32G210's I2C interrupt handler (platform_efm32g210_i2c.c).  It   *)
(* decides everything on one snapshot of the flags; the wire moves on      *)
(* while it runs, as far as the clock stretching lets it.  TXBL is a level *)
(* ("the transmit buffer has room"): it must be enabled while the slave    *)
(* is an addressed transmitter and only then, or it storms.                *)
(*                                                                         *)
(* The handler may be entered late.  Once entered nothing preempts it and  *)
(* it is shorter than a byte on the wire: of what the master does only a   *)
(* STOP can fall between its steps.                                        *)
(***************************************************************************)
EXTENDS SlaveBus

VARIABLES
  slave_on,   \* between platform_i2c_slave_init and _deinit
  I2C_IF,     \* the flags raised: ADDR, RXDATAV, SSTOP
  TXBL,       \* the transmit buffer has room
  IEN_TXBL,   \* its interrupt is enabled
  pc,         \* the handler: "thread" when it is not running
  flags       \* its snapshot

isr  == <<pc, flags>>
vars == <<slaveBusVars, slave_on, I2C_IF, TXBL, IEN_TXBL, isr>>

\* I2C_STATE_TRANSMITTER
TRANSMITTER == m_phase = "read"

Init ==
  /\ WireInit
  /\ slave_on = TRUE
  /\ I2C_IF = {} /\ TXBL = TRUE /\ IEN_TXBL = FALSE
  /\ pc = "thread" /\ flags = {}

-----------------------------------------------------------------------------
(* The master and the peripheral, external. *)
\* ADDR and RXDATAV rise together: the address byte is in RXDATA.  The firmware
\* never clears the transmit buffer: whether a byte that a read has left in it is
\* discarded when the slave is addressed again is the peripheral's to say.
Address ==
  /\ slave_on /\ pc = "thread"
  /\ \E phase \in {"write", "read"} : Addressed(phase)
  /\ I2C_IF' = I2C_IF \cup {"ADDR", "RXDATAV"}
  /\ TXBL' \in {TXBL, TRUE}
  /\ UNCHANGED <<owner, slave_on, IEN_TXBL, isr>>

SendByte ==
  /\ pc = "thread"
  /\ MasterSends
  /\ I2C_IF' = I2C_IF \cup {"RXDATAV"}
  /\ UNCHANGED <<slave_on, TXBL, IEN_TXBL, isr>>

\* With the buffer empty the master waits for it.
TakeByte ==
  /\ pc = "thread"
  /\ m_phase = "read" /\ ~m_waits
  /\ ~TXBL
  /\ TXBL' = TRUE
  /\ UNCHANGED <<slaveBusVars, slave_on, I2C_IF, IEN_TXBL, isr>>

\* A read ends with the byte the master has taken last.
Stop ==
  /\ MasterStops
  /\ I2C_IF' = I2C_IF \cup {"SSTOP"}
  /\ UNCHANGED <<slave_on, TXBL, IEN_TXBL, isr>>

-----------------------------------------------------------------------------
(* I2C0_IRQHandler *)
Enter ==
  /\ pc = "thread" /\ slave_on
  /\ I2C_IF # {} \/ (IEN_TXBL /\ TXBL)
  /\ pc' = "receive"
  /\ flags' = I2C_IF \cup (IF TXBL THEN {"TXBL"} ELSE {})
  /\ UNCHANGED <<slaveBusVars, slave_on, I2C_IF, TXBL, IEN_TXBL>>

\* Mutants: the address byte is consumed and not acknowledged; a match as
\* transmitter does not enable TXBL.
ReceiveAs(acks, IEN) ==
  /\ pc = "receive"
  /\ IF "ADDR" \in flags
       THEN /\ I2C_IF' = I2C_IF \ {"ADDR", "RXDATAV"}
            /\ m_waits' = ~acks
            /\ IEN_TXBL' = IEN
            /\ UNCHANGED owner
       ELSE IF "RXDATAV" \in flags
       THEN /\ I2C_IF' = I2C_IF \ {"RXDATAV"}
            /\ m_waits' = FALSE
            /\ Deliver
            /\ UNCHANGED IEN_TXBL
       ELSE UNCHANGED <<I2C_IF, m_waits, owner, IEN_TXBL>>
  /\ pc' = "transmit"
  /\ UNCHANGED <<m_phase, m_sent, transfer, slave_on, TXBL, flags>>
ReceiveNoAck == ReceiveAs(FALSE, TRANSMITTER)
ReceiveKeepsIEN == ReceiveAs(TRUE, IEN_TXBL /\ TRANSMITTER)

\* CMD = ACK releases the clock once the byte in RXDATA has been consumed.
Receive ==
  /\ pc = "receive"
  /\ IF "ADDR" \in flags
       THEN /\ I2C_IF' = I2C_IF \ {"ADDR", "RXDATAV"}
            /\ m_waits' = FALSE
            /\ IEN_TXBL' = TRANSMITTER
            /\ UNCHANGED owner
       ELSE IF "RXDATAV" \in flags
       THEN /\ I2C_IF' = I2C_IF \ {"RXDATAV"}
            /\ m_waits' = FALSE
            /\ Deliver
            /\ UNCHANGED IEN_TXBL
       ELSE UNCHANGED <<I2C_IF, m_waits, owner, IEN_TXBL>>
  /\ pc' = "transmit"
  /\ UNCHANGED <<m_phase, m_sent, transfer, slave_on, TXBL, flags>>

\* Gated on the state as it is now, not as it was at the snapshot.
Transmit ==
  /\ pc = "transmit"
  /\ IF "TXBL" \in flags /\ TRANSMITTER
       THEN TXBL' = FALSE /\ Deliver
       ELSE UNCHANGED <<TXBL, owner>>
  /\ pc' = "stop"
  /\ UNCHANGED <<wire, slave_on, I2C_IF, IEN_TXBL, flags>>

\* Mutants: the STOP of a write is not looked at; the STOP leaves TXBL enabled.
StopOfReadsOnly ==
  /\ pc = "stop"
  /\ IF "SSTOP" \in flags
       THEN /\ I2C_IF' = I2C_IF \ {"SSTOP"}
            /\ IF IEN_TXBL THEN on_stop ELSE UNCHANGED owner
            /\ IEN_TXBL' = FALSE
       ELSE UNCHANGED <<I2C_IF, owner, IEN_TXBL>>
  /\ pc' = "thread"
  /\ flags' = {}
  /\ UNCHANGED <<wire, slave_on, TXBL>>
StopKeepsTXBL ==
  /\ pc = "stop"
  /\ IF "SSTOP" \in flags
       THEN I2C_IF' = I2C_IF \ {"SSTOP"} /\ on_stop
       ELSE UNCHANGED <<I2C_IF, owner>>
  /\ pc' = "thread"
  /\ flags' = {}
  /\ UNCHANGED <<wire, slave_on, TXBL, IEN_TXBL>>

HandleStop ==
  /\ pc = "stop"
  /\ IF "SSTOP" \in flags
       THEN /\ I2C_IF' = I2C_IF \ {"SSTOP"}
            /\ on_stop
            /\ IEN_TXBL' = FALSE
       ELSE UNCHANGED <<I2C_IF, owner, IEN_TXBL>>
  /\ pc' = "thread"
  /\ flags' = {}
  /\ UNCHANGED <<wire, slave_on, TXBL>>

-----------------------------------------------------------------------------
\* The main MCU is off; the NVIC line and the peripheral follow.
platform_i2c_slave_deinit ==
  /\ pc = "thread" /\ slave_on
  /\ slave_on' = FALSE
  /\ IEN_TXBL' = FALSE
  /\ MasterOff
  /\ UNCHANGED <<I2C_IF, TXBL, isr>>

\* Stale flags are cleared, and TXBL is not among the interrupts enabled.
platform_i2c_slave_init ==
  /\ ~slave_on
  /\ slave_on' = TRUE
  /\ I2C_IF' = {}
  /\ IEN_TXBL' = FALSE
  /\ UNCHANGED <<slaveBusVars, TXBL, isr>>

I2C0_IRQHandler == Enter \/ Receive \/ Transmit \/ HandleStop

Next ==
  \/ Address \/ SendByte \/ TakeByte \/ Stop
  \/ I2C0_IRQHandler
  \/ platform_i2c_slave_deinit \/ platform_i2c_slave_init

Spec == Init /\ [][Next]_vars

-----------------------------------------------------------------------------
\* Between interrupts TXBL is enabled exactly while the slave is an addressed
\* transmitter (lines 132-153): enabled at any other time the handler would be
\* entered over and over, disabled then a read would wait for its byte.
TXBLBracketsTransmitter ==
  pc = "thread" /\ I2C_IF \cap {"ADDR", "SSTOP"} = {} => IEN_TXBL = TRANSMITTER

\* The master waits for a byte of a read, and the transmit buffer is empty.
ReadHeldUp == TRANSMITTER /\ ~m_waits /\ TXBL
=============================================================================

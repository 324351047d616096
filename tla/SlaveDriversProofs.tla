-------------------------- MODULE SlaveDriversProofs --------------------------
(***************************************************************************)
(* What the register file relies on, for each of the three drivers: the    *)
(* calls reach it in the order of the wire, however late the handler is    *)
(* entered and whatever one snapshot of flags holds.                       *)
(*                                                                         *)
(* Each driver has an invariant of its own, and all three say the same     *)
(* about the register file: bytes that are not of the transfer in progress *)
(* are still owed an on_stop, the flag that will bring it is up, and       *)
(* until it has been served the clock is held.  What differs is how a      *)
(* snapshot taken on entry stays true while the wire moves on.             *)
(***************************************************************************)
EXTENDS SlaveDrivers, TLAPS

\* No read opens a transfer: it follows the pointer byte it depends on.
GuidedReads == BareReads = FALSE

Busy == m_phase # "idle"

WireTypes ==
  /\ m_phase \in {"idle", "write", "read"}
  /\ m_sent \in BOOLEAN /\ m_waits \in BOOLEAN
  /\ transfer \in {0, 1} /\ owner \in {0, 1, NoTransfer}

\* Bytes the register file has not been told the end of.
Owed == owner # NoTransfer
Others == owner \notin {NoTransfer, transfer}

-----------------------------------------------------------------------------
(* EFM32G210 *)
EfmTypes ==
  /\ slave_on \in BOOLEAN
  /\ I2C_IF \subseteq {"ADDR", "RXDATAV", "SSTOP"}
  /\ TXBL \in BOOLEAN /\ IEN_TXBL \in BOOLEAN
  /\ pc \in {"thread", "receive", "transmit", "stop"}
  /\ flags \subseteq {"ADDR", "RXDATAV", "SSTOP", "TXBL"}

\* The master waits for as long as something it sent is unserved.
EfmClock ==
  /\ slave_on => (m_waits <=> "RXDATAV" \in I2C_IF)
  /\ ~slave_on => pc = "thread" /\ ~Busy /\ ~IEN_TXBL /\ ~m_waits /\ ~Owed
  /\ m_waits => Busy
  /\ slave_on /\ "ADDR" \in I2C_IF => "RXDATAV" \in I2C_IF

\* What is left of the snapshot: while the handler runs only an SSTOP is added.
EfmSnapshot ==
  /\ pc = "thread" => flags = {}
  /\ pc = "receive" => \A f \in {"ADDR", "RXDATAV"} : f \in flags <=> f \in I2C_IF
  /\ pc \in {"transmit", "stop"} => I2C_IF \subseteq {"SSTOP"}
  /\ "SSTOP" \in flags => "SSTOP" \in I2C_IF
  /\ pc # "thread" /\ "SSTOP" \in I2C_IF /\ "SSTOP" \notin flags => ~Busy

\* A STOP that is still to be served when the next transfer has begun: that is
\* a write, none of whose bytes has got through.
EfmStops ==
  slave_on =>
    /\ Others => "SSTOP" \in I2C_IF /\ (Busy \/ "SSTOP" \in flags)
    /\ Owed /\ ~Busy => "SSTOP" \in I2C_IF
    /\ "SSTOP" \in I2C_IF /\ Busy =>
         /\ m_phase = "write" /\ ~m_sent /\ owner # transfer
         /\ pc \in {"thread", "receive"} => "ADDR" \in I2C_IF

\* TXBL's interrupt, also while the handler is on its way to set it right.
EfmTXBL ==
  /\ Efm!TXBLBracketsTransmitter
  /\ pc \in {"receive", "transmit", "stop"} /\ "SSTOP" \notin I2C_IF =>
       \/ pc = "receive" /\ "ADDR" \in flags
       \/ IEN_TXBL = (m_phase = "read")

EfmInv == WireTypes /\ EfmTypes /\ EfmClock /\ EfmSnapshot /\ EfmStops /\ EfmTXBL

-----------------------------------------------------------------------------
(* LPC810 *)
LpcTypes ==
  /\ slave_on \in BOOLEAN
  /\ SLVSTATE \in {"none", "addr", "rx", "tx"} /\ SLVDESEL \in BOOLEAN
  /\ pc \in {"thread", "deselect", "pending"}
  /\ stat \in [state : {"none", "addr", "rx", "tx"}, desel : BOOLEAN]

LpcClock ==
  /\ m_waits <=> SLVSTATE # "none"
  /\ m_waits => Busy
  /\ ~slave_on => pc = "thread" /\ ~Busy /\ ~Owed

\* With something pending the clock is held, so that no STOP can be added.
LpcSnapshot ==
  /\ pc = "thread" => stat.state = "none" /\ ~stat.desel
  /\ stat.state # "none" => SLVSTATE = stat.state
  /\ pc = "deselect" /\ stat.desel => SLVDESEL
  /\ pc = "deselect" /\ stat.state # "none" => stat.desel = SLVDESEL
  /\ pc = "pending" /\ stat.state # "none" => ~SLVDESEL

\* A deselect that is still to be served when the next transfer has begun.
LpcStops ==
  /\ Others => SLVDESEL /\ Busy
  /\ Owed /\ ~Busy => SLVDESEL
  /\ SLVDESEL /\ Busy => SLVSTATE = "addr" /\ owner # transfer

LpcInv == WireTypes /\ LpcTypes /\ LpcClock /\ LpcSnapshot /\ LpcStops

-----------------------------------------------------------------------------
(* STM32 *)
Empty == Hal!Empty

HalTypes ==
  /\ State \in {"reset", "listen", "rx", "tx"}
  /\ XferCount \in {0, 1}
  /\ flags \subseteq {"ADDR", "RXNE", "NACKF", "STOPF"}
  /\ s_tx_byte \in 0 .. 3 /\ fetched \in 0 .. 3 /\ taken \in 0 .. 3
  /\ TXDR \in 0 .. 4 /\ shift \in 0 .. 4
  /\ m_last \in BOOLEAN

\* What each condition says of the wire while it waits to be served.
HalFlags ==
  /\ m_waits <=> "ADDR" \in flags
  /\ m_waits => Busy
  /\ State = "reset" => ~Busy /\ flags = {} /\ ~Owed
  /\ "RXNE" \in flags => "ADDR" \notin flags /\ (m_phase = "write" \/ (~Busy /\ "STOPF" \in flags))
  /\ "NACKF" \in flags =>
       m_last /\ "ADDR" \notin flags /\ (m_phase = "read" \/ (~Busy /\ "STOPF" \in flags))
  /\ "STOPF" \in flags /\ Busy => "ADDR" \in flags
  /\ m_last => "ADDR" \notin flags /\ m_phase # "write"

\* A STOP that is still to be served when the next transfer has begun.
HalStops ==
  /\ Others => "STOPF" \in flags /\ Busy
  /\ Owed /\ ~Busy => "STOPF" \in flags
  /\ "STOPF" \in flags /\ Busy => owner # transfer

Count(b) == IF b THEN 1 ELSE 0

\* The read in progress: the bytes between the register file and the master are
\* the one in the shift register and, behind it, one in TXDR or armed.
HalReads ==
  /\ shift # Empty \/ (TXDR # Empty /\ "NACKF" \notin flags) =>
       m_phase = "read" /\ ~m_last /\ State = "tx" /\ "ADDR" \notin flags
  /\ shift # Empty => shift = taken
  /\ m_phase = "read" /\ "ADDR" \in flags => taken = 0
  /\ m_phase = "read" /\ "ADDR" \notin flags /\ ~m_last =>
       /\ State = "tx"
       /\ XferCount = 1 => TXDR = Empty
       /\ TXDR # Empty => TXDR = (taken + Count(shift # Empty)) % 4
       /\ XferCount = 1 => s_tx_byte = (taken + Count(shift # Empty)) % 4
       /\ fetched = (taken + Count(shift # Empty)
                           + Count(TXDR # Empty \/ XferCount = 1)) % 4
  /\ m_phase = "read" /\ "ADDR" \notin flags /\ m_last /\ State = "tx" =>
       \/ fetched = taken \/ fetched = (taken + 1) % 4
       \/ "NACKF" \notin flags /\ fetched = (taken + 2) % 4

HalInv == WireTypes /\ HalTypes /\ HalFlags /\ HalStops /\ HalReads

-----------------------------------------------------------------------------
\* Of the three only the EFM32G210 needs to be spared reads that open a transfer.
Answerable == driver = "efm32g210" => GuidedReads

DriversInv ==
  /\ driver \in {"efm32g210", "lpc810", "stm32"}
  /\ driver = "efm32g210" /\ GuidedReads => EfmInv
  /\ driver = "lpc810" => LpcInv
  /\ driver = "stm32" => HalInv

-----------------------------------------------------------------------------
\* What CallsFollowWire says of one step.
InWireOrder ==
  /\ owner' # owner => owner = NoTransfer \/ owner' = NoTransfer
  /\ owner' # owner /\ owner = transfer /\ m_phase # "idle" => m_phase' = "idle"

\* Each step of the EFM32G210's handler and of what is raised around it.
LEMMA EfmStepSafe ==
  ASSUME GuidedReads, EfmInv, Efm!Next
  PROVE  EfmInv' /\ InWireOrder
<1>. USE DEF GuidedReads, EfmInv, WireTypes, EfmTypes, EfmClock, EfmSnapshot, EfmStops,
             EfmTXBL, InWireOrder, Busy, Owed, Others, NoTransfer,
             Efm!NoTransfer, Efm!TXBLBracketsTransmitter, Efm!TRANSMITTER,
             Efm!slaveBusVars, Efm!wire, Efm!isr
<1>1. CASE Efm!Address
  <2>1. PICK phase \in {"write", "read"} : Efm!Addressed(phase)
    BY <1>1 DEF Efm!Address
  <2>2. /\ slave_on /\ pc = "thread" /\ I2C_IF' = I2C_IF \cup {"ADDR", "RXDATAV"}
        /\ TXBL' \in BOOLEAN /\ owner' = owner /\ slave_on' = slave_on
        /\ IEN_TXBL' = IEN_TXBL /\ pc' = pc /\ flags' = flags
    BY <1>1 DEF Efm!Address
  <2>3. /\ ~m_waits /\ m_waits' = TRUE /\ m_phase' = phase
        /\ phase = "write" \/ m_sent'
    BY <2>1 DEF Efm!Addressed
  <2>4. CASE m_phase = "idle"
    <3>1. transfer' = 1 - transfer /\ m_sent' = FALSE
      BY <2>1, <2>4 DEF Efm!Addressed
    <3>7. transfer' \in {0, 1}
      BY <3>1
    <3>8. m_sent' \in BOOLEAN
      BY <3>1, Zenon
    <3>2. WireTypes'
      BY <2>2, <2>3, <3>7, <3>8
    <3>6. EfmTypes'
      BY <2>2, <2>3
    <3>3. EfmClock' /\ EfmSnapshot'
      BY <2>2, <2>3, <3>1
    <3>4. EfmStops'
      BY <2>2, <2>3, <2>4, <3>1
    <3>5. EfmTXBL' /\ InWireOrder
      BY <2>2, <2>3, <2>4, <3>1
    <3>. QED
      BY <3>2, <3>3, <3>4, <3>5, <3>6
  <2>5. CASE m_phase # "idle"
    <3>1. transfer' = transfer /\ m_sent' = m_sent
      BY <2>1, <2>5 DEF Efm!Addressed
    <3>2. WireTypes' /\ EfmTypes'
      BY <2>2, <2>3, <3>1
    <3>3. EfmClock' /\ EfmSnapshot'
      BY <2>2, <2>3, <3>1
    <3>4. EfmStops'
      BY <2>2, <2>3, <2>5, <3>1
    <3>5. EfmTXBL' /\ InWireOrder
      BY <2>2, <2>3, <2>5, <3>1
    <3>. QED
      BY <3>2, <3>3, <3>4, <3>5
  <2>. QED
    BY <2>4, <2>5
<1>2. CASE Efm!SendByte
  BY <1>2 DEF Efm!SendByte, Efm!MasterSends
<1>3. CASE Efm!TakeByte
  BY <1>3 DEF Efm!TakeByte
<1>4. CASE Efm!Stop
  BY <1>4 DEF Efm!Stop, Efm!MasterStops
<1>5. CASE Efm!Enter
  BY <1>5 DEF Efm!Enter
<1>6. CASE Efm!Receive
  <2>1. /\ pc = "receive" /\ pc' = "transmit" /\ slave_on' = slave_on
        /\ m_phase' = m_phase /\ m_sent' = m_sent /\ transfer' = transfer
        /\ TXBL' = TXBL /\ flags' = flags
    BY <1>6 DEF Efm!Receive
  <2>2. CASE "ADDR" \in flags
    <3>1. /\ I2C_IF' = I2C_IF \ {"ADDR", "RXDATAV"} /\ m_waits' = FALSE
          /\ owner' = owner /\ IEN_TXBL' = (m_phase = "read")
      BY <1>6, <2>2 DEF Efm!Receive
    <3>2. WireTypes' /\ EfmTypes'
      BY <2>1, <3>1
    <3>3. EfmClock' /\ EfmSnapshot'
      BY <2>1, <2>2, <3>1
    <3>4. EfmStops' /\ InWireOrder
      BY <2>1, <2>2, <3>1
    <3>5. EfmTXBL'
      BY <2>1, <2>2, <3>1
    <3>. QED
      BY <3>2, <3>3, <3>4, <3>5
  <2>3. CASE "ADDR" \notin flags /\ "RXDATAV" \in flags
    <3>1. /\ I2C_IF' = I2C_IF \ {"RXDATAV"} /\ m_waits' = FALSE
          /\ owner' = transfer /\ IEN_TXBL' = IEN_TXBL
      BY <1>6, <2>3 DEF Efm!Receive, Efm!Deliver
    <3>2. "SSTOP" \notin I2C_IF /\ Busy
      BY <2>1, <2>3
    <3>. QED
      BY <2>1, <2>3, <3>1, <3>2
  <2>4. CASE "ADDR" \notin flags /\ "RXDATAV" \notin flags
    <3>1. /\ I2C_IF' = I2C_IF /\ m_waits' = m_waits
          /\ owner' = owner /\ IEN_TXBL' = IEN_TXBL
      BY <1>6, <2>4 DEF Efm!Receive
    <3>2. WireTypes' /\ EfmTypes'
      BY <2>1, <3>1
    <3>3. EfmClock' /\ EfmSnapshot'
      BY <2>1, <2>4, <3>1
    <3>4. EfmStops' /\ InWireOrder
      BY <2>1, <2>4, <3>1
    <3>5. EfmTXBL'
      BY <2>1, <2>4, <3>1
    <3>. QED
      BY <3>2, <3>3, <3>4, <3>5
  <2>. QED
    BY <2>2, <2>3, <2>4
<1>7. CASE Efm!Transmit
  BY <1>7 DEF Efm!Transmit, Efm!Deliver
<1>8. CASE Efm!HandleStop
  BY <1>8 DEF Efm!HandleStop, Efm!on_stop
<1>9. CASE Efm!platform_i2c_slave_deinit
  BY <1>9 DEF Efm!platform_i2c_slave_deinit, Efm!MasterOff
<1>10. CASE Efm!platform_i2c_slave_init
  BY <1>10 DEF Efm!platform_i2c_slave_init
<1>. QED
  BY <1>1, <1>2, <1>3, <1>4, <1>5, <1>6, <1>7, <1>8, <1>9, <1>10
     DEF Efm!Next, Efm!I2C0_IRQHandler

\* Each step of the LPC810's.
LEMMA LpcStepSafe ==
  ASSUME LpcInv, Lpc!Next
  PROVE  LpcInv' /\ InWireOrder
<1>. USE DEF LpcInv, WireTypes, LpcTypes, LpcClock, LpcSnapshot, LpcStops,
             InWireOrder, Busy, Owed, Others, NoTransfer,
             Lpc!NoTransfer, Lpc!slaveBusVars, Lpc!wire, Lpc!isr, Lpc!Nothing
<1>1. CASE Lpc!Address
  <2>1. PICK phase \in {"write", "read"} : Lpc!Addressed(phase)
    BY <1>1 DEF Lpc!Address
  <2>2. /\ slave_on /\ SLVSTATE' = "addr" /\ owner' = owner /\ slave_on' = slave_on
        /\ SLVDESEL' = SLVDESEL /\ pc' = pc /\ stat' = stat
    BY <1>1 DEF Lpc!Address
  <2>3. /\ ~m_waits /\ m_waits' = TRUE /\ m_phase' = phase
        /\ m_sent' \in BOOLEAN
        /\ \/ m_phase = "idle" /\ transfer' = 1 - transfer
           \/ m_phase # "idle" /\ transfer' = transfer
    BY <2>1 DEF Lpc!Addressed
  <2>4. LpcClock' /\ LpcTypes'
    BY <2>2, <2>3
  <2>5. WireTypes'
    BY <2>2, <2>3
  <2>6. LpcSnapshot'
    BY <2>2, <2>3
  <2>7. LpcStops' /\ InWireOrder
    BY <2>2, <2>3
  <2>. QED
    BY <2>4, <2>5, <2>6, <2>7
<1>2. CASE Lpc!SendByte
  BY <1>2 DEF Lpc!SendByte, Lpc!MasterSends
<1>3. CASE Lpc!AskForByte
  BY <1>3 DEF Lpc!AskForByte
<1>4. CASE Lpc!Stop
  BY <1>4 DEF Lpc!Stop, Lpc!MasterStops
<1>5. CASE Lpc!Enter
  BY <1>5 DEF Lpc!Enter
<1>6. CASE Lpc!Deselect
  BY <1>6 DEF Lpc!Deselect, Lpc!on_stop
<1>7. CASE Lpc!Pending
  BY <1>7 DEF Lpc!Pending, Lpc!Deliver
<1>8. CASE Lpc!platform_i2c_slave_deinit
  BY <1>8 DEF Lpc!platform_i2c_slave_deinit, Lpc!MasterOff
<1>9. CASE Lpc!platform_i2c_slave_init
  BY <1>9 DEF Lpc!platform_i2c_slave_init
<1>. QED
  BY <1>1, <1>2, <1>3, <1>4, <1>5, <1>6, <1>7, <1>8, <1>9
     DEF Lpc!Next, Lpc!I2C0_IRQHandler

\* Each step of the STM32s' callbacks under the HAL.
LEMMA HalStepSafe ==
  ASSUME HalInv, Hal!Next
  PROVE  HalInv' /\ InWireOrder
<1>. USE DEF HalInv, WireTypes, HalTypes, HalFlags, HalStops, HalReads, Count,
             InWireOrder, Busy, Owed, Others, NoTransfer, Empty, Hal!Empty,
             Hal!NoTransfer, Hal!slaveBusVars, Hal!wire, Hal!hal, Hal!tx,
             Hal!ArmAs, Hal!Fetch, Hal!Deliver, Hal!on_stop
<1>1. CASE Hal!Address
  <2>1. PICK phase \in {"write", "read"} : Hal!Addressed(phase)
    BY <1>1 DEF Hal!Address
  <2>2. /\ State # "reset" /\ flags \subseteq {"STOPF"} /\ (m_phase = "read" => m_last)
        /\ flags' = flags \cup {"ADDR"} /\ taken' = 0 /\ m_last' = FALSE
        /\ owner' = owner /\ State' = State /\ XferCount' = XferCount
        /\ s_tx_byte' = s_tx_byte /\ TXDR' = TXDR /\ shift' = shift /\ fetched' = fetched
    BY <1>1 DEF Hal!Address, Hal!Listening
  <2>3. /\ ~m_waits /\ m_waits' = TRUE /\ m_phase' = phase
        /\ m_sent' \in BOOLEAN
        /\ \/ m_phase = "idle" /\ transfer' = 1 - transfer
           \/ m_phase # "idle" /\ transfer' = transfer
    BY <2>1 DEF Hal!Addressed
  <2>4. /\ WireTypes'
        /\ HalTypes'
    <3>1. transfer' \in {0, 1} /\ taken' \in 0 .. 3
      BY <2>2, <2>3
    <3>2. m_last' \in BOOLEAN
      BY <2>2, Zenon
    <3>3. WireTypes'
      BY <2>2, <2>3, <3>1
    <3>4. HalTypes'
      BY <2>2, <3>1, <3>2
    <3>. QED
      BY <3>3, <3>4
  <2>5. HalFlags'
    BY <2>2, <2>3
  <2>6. HalStops' /\ InWireOrder
    BY <2>2, <2>3
  <2>7. shift = Empty /\ TXDR = Empty
    BY <2>2
  <2>8. HalReads'
    <3>. DEFINE s == shift'  t == TXDR'  n == taken'  f == flags'
    <3>1. s = 4 /\ t = 4 /\ n = 0 /\ "ADDR" \in f
      BY <2>2, <2>7
    <3>. HIDE DEF s, t, n, f
    <3>. QED
      BY <3>1 DEF s, t, n, f
  <2>. QED
    BY <2>4, <2>5, <2>6, <2>8
<1>2. CASE Hal!SendByte
  BY <1>2 DEF Hal!SendByte
<1>3. CASE Hal!ShiftByte
  BY <1>3 DEF Hal!ShiftByte
<1>4. CASE \E last \in BOOLEAN : Hal!TakeByte(last)
  BY <1>4 DEF Hal!TakeByte
<1>5. CASE Hal!Stop
  BY <1>5 DEF Hal!Stop, Hal!MasterStops
<1>6. CASE Hal!PassStop
  BY <1>6 DEF Hal!PassStop, Hal!HAL_I2C_ListenCpltCallback
<1>7. CASE Hal!PassNack
  BY <1>7 DEF Hal!PassNack, Hal!HAL_I2C_SlaveTxCpltCallback, Hal!HAL_I2C_ErrorCallback
<1>8. CASE Hal!PassReceive
  BY <1>8 DEF Hal!PassReceive, Hal!HAL_I2C_SlaveRxCpltCallback
<1>9. CASE Hal!PassAddress
  <2>1. /\ "ADDR" \in flags /\ "STOPF" \notin flags
        /\ flags' = flags \ {"ADDR"} /\ m_waits' = FALSE /\ XferCount' = 1
        /\ m_phase' = m_phase /\ m_sent' = m_sent /\ transfer' = transfer
        /\ TXDR' = TXDR /\ shift' = shift /\ taken' = taken /\ m_last' = m_last
    BY <1>9 DEF Hal!PassAddress, Hal!HAL_I2C_AddrCallback
  <2>2. Busy /\ ~m_last /\ shift = Empty /\ TXDR = Empty /\ flags' = {}
    BY <2>1
  <2>3. CASE m_phase = "write"
    <3>1. State' = "rx" /\ owner' = owner /\ s_tx_byte' = s_tx_byte /\ fetched' = fetched
      BY <1>9, <2>3 DEF Hal!PassAddress, Hal!HAL_I2C_AddrCallback
    <3>2. WireTypes' /\ HalTypes' /\ HalFlags'
      BY <2>1, <2>2, <2>3, <3>1
    <3>3. HalStops' /\ HalReads' /\ InWireOrder
      BY <2>1, <2>2, <2>3, <3>1
    <3>. QED
      BY <3>2, <3>3
  <2>4. CASE m_phase = "read"
    <3>1. State' = "tx" /\ owner' = transfer /\ s_tx_byte' = 0 /\ fetched' = 1
      BY <1>9, <2>4 DEF Hal!PassAddress, Hal!HAL_I2C_AddrCallback
    <3>2. /\ WireTypes'
          /\ HalTypes'
      <4>1. XferCount' \in {0, 1} /\ s_tx_byte' \in 0 .. 3 /\ fetched' \in 0 .. 3
        BY <2>1, <3>1
      <4>2. m_waits' \in BOOLEAN
        BY <2>1, Zenon
      <4>3. WireTypes'
        BY <2>1, <3>1, <4>2
      <4>4. HalTypes'
        BY <2>1, <3>1, <4>1
      <4>. QED
        BY <4>3, <4>4
    <3>5. HalFlags'
      BY <2>1, <2>2, <2>4, <3>1
    <3>3. HalStops' /\ InWireOrder
      BY <2>1, <2>2, <2>4, <3>1
    <3>4. HalReads'
      <4>1. /\ shift' = 4 /\ TXDR' = 4 /\ m_phase' = "read" /\ "ADDR" \notin flags'
            /\ ~m_last' /\ taken' = 0
        BY <2>1, <2>2, <2>4
      <4>2. (0 + Count(shift' # Empty)) % 4 = 0
        BY <4>1
      <4>3. (0 + Count(shift' # Empty) + Count(TXDR' # Empty \/ XferCount' = 1)) % 4 = 1
        BY <2>1, <4>1
      <4>. QED
        BY <2>1, <3>1, <4>1, <4>2, <4>3
    <3>. QED
      BY <3>2, <3>3, <3>4, <3>5
  <2>. QED
    BY <2>2, <2>3, <2>4
<1>10. CASE Hal!PassTransmit
  BY <1>10 DEF Hal!PassTransmit, Hal!HAL_I2C_SlaveTxCpltCallback
<1>11. CASE Hal!platform_i2c_slave_deinit
  <2>1. /\ State' = "reset" /\ XferCount' = 0 /\ flags' = {}
        /\ TXDR' = 4 /\ shift' = 4
        /\ m_phase' = "idle" /\ m_waits' = FALSE /\ owner' = NoTransfer
        /\ m_sent' = m_sent /\ transfer' = transfer
        /\ s_tx_byte' = s_tx_byte /\ fetched' = fetched /\ taken' = taken /\ m_last' = m_last
    BY <1>11 DEF Hal!platform_i2c_slave_deinit, Hal!MasterOff
  <2>2. /\ WireTypes'
        /\ HalTypes'
    <3>1. XferCount' \in {0, 1} /\ TXDR' \in 0 .. 4 /\ shift' \in 0 .. 4
      BY <2>1
    <3>2. WireTypes'
      BY <2>1
    <3>3. HalTypes'
      BY <2>1, <3>1
    <3>. QED
      BY <3>2, <3>3
  <2>3. HalFlags' /\ HalStops' /\ InWireOrder
    BY <2>1
  <2>4. HalReads'
    <3>1. shift' = 4 /\ TXDR' = 4 /\ m_phase' = "idle"
      BY <2>1
    <3>. QED
      BY ONLY <3>1 DEF HalReads, Empty, Hal!Empty
  <2>. QED
    BY <2>2, <2>3, <2>4
<1>12. CASE Hal!platform_i2c_slave_init
  BY <1>12 DEF Hal!platform_i2c_slave_init
<1>. QED
  BY <1>1, <1>2, <1>3, <1>4, <1>5, <1>6, <1>7, <1>8, <1>9, <1>10, <1>11, <1>12
     DEF Hal!Next, Hal!IRQHandler

\* A driver's variables are not another's: a step of one build leaves the
\* invariant that is about it to be shown, and nothing else.
LEMMA DriversInvInductive ==
  ASSUME DriversInv, [DriversNext]_driversVars
  PROVE  DriversInv' /\ (Answerable => InWireOrder \/ UNCHANGED slaveBusVars)
<1>. USE DEF Answerable
<1>1. CASE EfmStep
  <2>1. GuidedReads => EfmInv' /\ InWireOrder
    BY <1>1, EfmStepSafe DEF EfmStep, DriversInv
  <2>. QED
    BY <1>1, <2>1 DEF EfmStep, DriversInv
<1>2. CASE LpcStep
  <2>1. LpcInv' /\ InWireOrder
    BY <1>2, LpcStepSafe DEF LpcStep, DriversInv
  <2>. QED
    BY <1>2, <2>1 DEF LpcStep, DriversInv
<1>3. CASE HalStep
  <2>1. HalInv' /\ InWireOrder
    BY <1>3, HalStepSafe DEF HalStep, DriversInv
  <2>. QED
    BY <1>3, <2>1 DEF HalStep, DriversInv
<1>4. CASE UNCHANGED driversVars
  <2>1. /\ UNCHANGED slaveBusVars
        /\ UNCHANGED <<driver, slave_on, pc, flags>>
        /\ UNCHANGED <<I2C_IF, TXBL, IEN_TXBL>>
        /\ UNCHANGED <<SLVSTATE, SLVDESEL, stat>>
        /\ UNCHANGED <<State, XferCount, s_tx_byte, TXDR, shift, fetched, taken, m_last>>
    BY <1>4 DEF driversVars, efmOnly, lpcOnly, halOnly
  <2>2. UNCHANGED <<m_phase, m_sent, m_waits, transfer, owner>>
    BY <2>1 DEF slaveBusVars, wire
  <2>3. driver = "efm32g210" /\ GuidedReads => EfmInv'
    BY <2>1, <2>2, Zenon DEF DriversInv, EfmInv, WireTypes, EfmTypes, EfmClock, EfmSnapshot,
       EfmStops, EfmTXBL, Busy, Owed, Others, Efm!TXBLBracketsTransmitter, Efm!TRANSMITTER
  <2>4. driver = "lpc810" => LpcInv'
    BY <2>1, <2>2, Zenon DEF DriversInv, LpcInv, WireTypes, LpcTypes, LpcClock, LpcSnapshot,
       LpcStops, Busy, Owed, Others
  <2>5. driver = "stm32" => HalInv'
    BY <2>1, <2>2, Zenon DEF DriversInv, HalInv, WireTypes, HalTypes, HalFlags, HalStops,
       HalReads, Busy, Owed, Others, Count
  <2>. QED
    BY <2>1, <2>3, <2>4, <2>5 DEF DriversInv
<1>. QED
  BY <1>1, <1>2, <1>3, <1>4 DEF DriversNext

\* Each driver's invariant holds of an idle wire with nothing raised.
LEMMA DriversInitSafe ==
  ASSUME DriversInit
  PROVE  DriversInv
<1>1. driver = "efm32g210" => EfmInv
  BY DEF DriversInit, Efm!Init, Efm!WireInit, EfmInv, WireTypes, EfmTypes, EfmClock,
     EfmSnapshot, EfmStops, EfmTXBL, Busy, Owed, Others, NoTransfer, Efm!NoTransfer,
     Efm!TXBLBracketsTransmitter, Efm!TRANSMITTER
<1>2. driver = "lpc810" => LpcInv
  BY DEF DriversInit, Lpc!Init, Lpc!WireInit, LpcInv, WireTypes, LpcTypes, LpcClock,
     LpcSnapshot, LpcStops, Busy, Owed, Others, NoTransfer, Lpc!NoTransfer, Lpc!Nothing
<1>3. HalInv
  <2>1. /\ m_phase = "idle" /\ transfer = 0 /\ owner = 2
        /\ State = "listen" /\ XferCount = 0 /\ flags = {}
        /\ s_tx_byte = 0 /\ TXDR = 4 /\ shift = 4 /\ fetched = 0 /\ taken = 0
    BY DEF DriversInit, Hal!Init, Hal!WireInit, Hal!NoTransfer, Hal!Empty
  <2>2. ~m_sent /\ ~m_waits /\ ~m_last
    BY Zenon DEF DriversInit, Hal!Init, Hal!WireInit
  <2>3. m_sent \in BOOLEAN /\ m_waits \in BOOLEAN /\ m_last \in BOOLEAN
    BY Zenon DEF DriversInit, Hal!Init, Hal!WireInit
  <2>4. WireTypes /\ HalTypes
    BY <2>1, <2>3 DEF WireTypes, HalTypes, NoTransfer
  <2>5. HalFlags /\ HalStops
    BY <2>1, <2>2 DEF HalFlags, HalStops, Busy, Owed, Others, NoTransfer
  <2>6. HalReads
    BY <2>1 DEF HalReads, Empty, Hal!Empty
  <2>. QED
    BY <2>4, <2>5, <2>6 DEF HalInv
<1>. QED
  BY <1>1, <1>2, <1>3 DEF DriversInit, DriversInv

\* The bytes the register file is ahead of the master by are the one being
\* clocked out and the one behind it.
LEMMA HalReadsInOrder ==
  ASSUME HalInv
  PROVE  Hal!ReadsInOrder
<1>. USE DEF HalInv, HalTypes, HalReads, HalFlags, Count, Empty, Hal!Empty
<1>1. shift # Empty => shift = taken
  OBVIOUS
<1>2. TXDR # Empty /\ m_phase = "read" /\ ~m_last =>
        TXDR = (taken + (IF shift = Empty THEN 0 ELSE 1)) % 4
  OBVIOUS
<1>3. ASSUME State = "tx", m_phase = "read", "ADDR" \notin flags
      PROVE  (fetched + 4 - taken) % 4 \in 0 .. 2
  <2>1. PICK k \in 0 .. 2 : fetched = (taken + k) % 4
    BY <1>3
  <2>2. taken \in 0 .. 3
    OBVIOUS
  <2>3. k = 0 => (fetched + 4 - taken) % 4 = 0
    BY ONLY <2>1, <2>2
  <2>4. k = 1 => (fetched + 4 - taken) % 4 = 1
    BY ONLY <2>1, <2>2
  <2>5. k = 2 => (fetched + 4 - taken) % 4 = 2
    BY ONLY <2>1, <2>2
  <2>. QED
    BY ONLY <2>1, <2>3, <2>4, <2>5
<1>. QED
  BY <1>1, <1>2, <1>3 DEF Hal!ReadsInOrder

\* On the STM32s the master receives the bytes of a read in the order the register
\* file gave them, which runs ahead by two at most: after any interleaving of the
\* wire with the HAL's callbacks, whatever a transfer begins with.
THEOREM DriversReadInOrder == DriversSpec => []ReadsInOrder
<1>1. DriversInit => DriversInv
  BY DriversInitSafe
<1>2. DriversInv /\ [DriversNext]_driversVars => DriversInv'
  BY DriversInvInductive
<1>3. DriversInv => ReadsInOrder
  BY HalReadsInOrder DEF DriversInv, ReadsInOrder
<1>. QED
  BY <1>1, <1>2, <1>3, PTL DEF DriversSpec

\* Between interrupts the EFM32G210's TXBL interrupt is enabled exactly while the
\* slave is an addressed transmitter, if every read follows its pointer byte.
THEOREM DriversBracketTransmitter ==
  ASSUME GuidedReads
  PROVE  DriversSpec => []TXBLBracketsTransmitter
<1>1. DriversInit => DriversInv
  BY DriversInitSafe
<1>2. DriversInv /\ [DriversNext]_driversVars => DriversInv'
  BY DriversInvInductive
<1>3. DriversInv => TXBLBracketsTransmitter
  BY DEF DriversInv, TXBLBracketsTransmitter, EfmInv, EfmTXBL
<1>. QED
  BY <1>1, <1>2, <1>3, PTL DEF DriversSpec

\* No handler lets a byte of a transfer reach the register file before the
\* on_stop of the transfer before it, or an on_stop in the middle of a transfer
\* whose bytes it has seen, however late it is entered.
THEOREM DriversFollowWire ==
  ASSUME GuidedReads
  PROVE  DriversSpec => CallsFollowWire
<1>1. DriversInit => DriversInv
  BY DriversInitSafe
<1>2. DriversInv /\ [DriversNext]_driversVars => DriversInv'
  BY DriversInvInductive
<1>3. DriversInv /\ [DriversNext]_driversVars => [InWireOrder]_slaveBusVars
  BY DriversInvInductive DEF Answerable
<1>. QED
  BY <1>1, <1>2, <1>3, PTL DEF DriversSpec, CallsFollowWire, InWireOrder

\* On the LPC810 and the STM32s that holds of every master, also of one whose
\* reads open with a START of their own.
THEOREM OthersFollowWireAlways ==
  DriversSpec => [][driver # "efm32g210" => InWireOrder]_slaveBusVars
<1>1. DriversInit => DriversInv
  BY DriversInitSafe
<1>2. DriversInv /\ [DriversNext]_driversVars => DriversInv'
  BY DriversInvInductive
<1>3. DriversInv /\ [DriversNext]_driversVars
        => [driver # "efm32g210" => InWireOrder]_slaveBusVars
  BY DriversInvInductive DEF Answerable
<1>. QED
  BY <1>1, <1>2, <1>3, PTL DEF DriversSpec
==============================================================================

------------------------------ MODULE SlaveBus ------------------------------
(***************************************************************************)
(* The wire between a master (external) and a backend's I2C slave          *)
(* peripheral, seen from the backend's interrupt handler.                  *)
(*                                                                         *)
(* A transfer is a START, any number of repeated STARTs, and a STOP.  The  *)
(* slave stretches the clock after each address and each byte until its    *)
(* handler lets go (m_waits).  The register file is reduced to one         *)
(* question: whose bytes has it seen since its last on_stop?  It counts    *)
(* bytes and cannot see a START, so a byte that reaches it before the      *)
(* on_stop of the transfer before is taken for one of that transfer.       *)
(***************************************************************************)
EXTENDS Naturals

CONSTANTS
  BareReads     \* the master may read without having written a pointer byte

ASSUME SlaveBusAssumption == BareReads \in BOOLEAN

NoTransfer == 2

VARIABLES
  m_phase,      \* "idle", "write" or "read"
  m_sent,       \* it has written a byte, the pointer, in this transfer
  m_waits,      \* SCL is held low: the master cannot go on
  transfer,     \* the transfer in progress or, when idle, the last one: 0 or 1
  owner         \* the transfer whose bytes the register file has seen, or NoTransfer

wire         == <<m_phase, m_sent, m_waits, transfer>>
slaveBusVars == <<wire, owner>>

WireInit ==
  /\ m_phase = "idle"
  /\ m_sent = FALSE
  /\ m_waits = FALSE
  /\ transfer = 0
  /\ owner = NoTransfer

\* An address goes out: a transfer begins, or a repeated START continues it.
Addressed(phase) ==
  /\ ~m_waits
  /\ \/ /\ m_phase = "idle"
        /\ transfer' = 1 - transfer
        /\ m_sent' = FALSE
     \/ /\ m_phase # "idle"
        /\ UNCHANGED <<transfer, m_sent>>
  /\ phase = "write" \/ m_sent' \/ BareReads
  /\ m_phase' = phase
  /\ m_waits' = TRUE

MasterSends ==
  /\ m_phase = "write" /\ ~m_waits
  /\ m_waits' = TRUE
  /\ m_sent' = TRUE
  /\ UNCHANGED <<m_phase, transfer, owner>>

MasterStops ==
  /\ m_phase # "idle" /\ ~m_waits
  /\ m_phase' = "idle"
  /\ UNCHANGED <<m_sent, m_waits, transfer, owner>>

\* The core ends the cycle: the master has lost its power wherever it was, and
\* reset_for_cycle has cleared the register file.
MasterOff ==
  /\ m_phase' = "idle"
  /\ m_waits' = FALSE
  /\ UNCHANGED <<m_sent, transfer>>
  /\ owner' = NoTransfer

\* on_write_byte or on_read_request, for the transfer in progress.
Deliver == owner' = transfer

on_stop == owner' = NoTransfer

\* Calls reach the register file in the order of the wire: no byte of a
\* transfer before the on_stop of the one before it, and no on_stop in the
\* middle of a transfer that it has already seen bytes of.
CallsFollowWire ==
  [][/\ owner' # owner => owner = NoTransfer \/ owner' = NoTransfer
     /\ owner' # owner /\ owner = transfer /\ m_phase # "idle" => m_phase' = "idle"]_slaveBusVars

\* The on_stop of a transfer is not left for the next one to bring: after the
\* last transfer of a cycle, the one that writes DONE, there is no next one.
StopIsHeard == m_phase = "idle" /\ owner # NoTransfer ~> owner = NoTransfer

\* The handler never keeps the clock stretched for good.
ClockIsReleased == m_waits ~> ~m_waits
=============================================================================

------------------------------ MODULE LpcSlave ------------------------------
(***************************************************************************)
(* The LPC810's I2C interrupt handler (platform_lpc810_i2c.c).  The        *)
(* peripheral raises two things: SLVPENDING, with what it is pending for   *)
(* in SLVSTATE and the clock held low until SLVCONTINUE, and SLVDESEL,     *)
(* which a STOP latches.  The handler decides on one snapshot of both.     *)
(* The wire may do anything the clock stretching allows while it runs.     *)
(***************************************************************************)
EXTENDS SlaveBus

VARIABLES
  slave_on,   \* between platform_i2c_slave_init and _deinit
  SLVSTATE,   \* "addr", "rx" or "tx" when SLVPENDING, else "none"
  SLVDESEL,
  pc,         \* "thread" when the handler is not running
  stat        \* its snapshot: a record of the two

isr  == <<pc, stat>>
vars == <<slaveBusVars, slave_on, SLVSTATE, SLVDESEL, isr>>

Nothing == [state |-> "none", desel |-> FALSE]

Init ==
  /\ WireInit
  /\ slave_on = TRUE
  /\ SLVSTATE = "none" /\ SLVDESEL = FALSE
  /\ pc = "thread" /\ stat = Nothing

-----------------------------------------------------------------------------
(* The master and the peripheral, external. *)
Address ==
  /\ slave_on
  /\ \E phase \in {"write", "read"} : Addressed(phase)
  /\ SLVSTATE' = "addr"
  /\ UNCHANGED <<owner, slave_on, SLVDESEL, isr>>

SendByte ==
  /\ MasterSends
  /\ SLVSTATE' = "rx"
  /\ UNCHANGED <<slave_on, SLVDESEL, isr>>

\* The master clocks for a byte the handler has yet to supply.
AskForByte ==
  /\ m_phase = "read" /\ ~m_waits
  /\ m_waits' = TRUE
  /\ SLVSTATE' = "tx"
  /\ UNCHANGED <<m_phase, m_sent, transfer, owner, slave_on, SLVDESEL, isr>>

Stop ==
  /\ MasterStops
  /\ SLVDESEL' = TRUE
  /\ UNCHANGED <<slave_on, SLVSTATE, isr>>

-----------------------------------------------------------------------------
(* I2C0_IRQHandler *)
Enter ==
  /\ pc = "thread" /\ slave_on
  /\ SLVDESEL \/ SLVSTATE # "none"
  /\ pc' = "deselect"
  /\ stat' = [state |-> SLVSTATE, desel |-> SLVDESEL]
  /\ UNCHANGED <<slaveBusVars, slave_on, SLVSTATE, SLVDESEL>>

\* Mutants: a deselect that comes with something pending is left for the next
\* interrupt; a deselect counts only with something pending.
DeselectLast ==
  /\ pc = "deselect"
  /\ IF stat.desel /\ stat.state = "none"
       THEN SLVDESEL' = FALSE /\ on_stop
       ELSE UNCHANGED <<SLVDESEL, owner>>
  /\ pc' = "pending"
  /\ UNCHANGED <<wire, slave_on, SLVSTATE, stat>>
DeselectNested ==
  /\ pc = "deselect"
  /\ IF stat.desel /\ stat.state # "none"
       THEN SLVDESEL' = FALSE /\ on_stop
       ELSE UNCHANGED <<SLVDESEL, owner>>
  /\ pc' = "pending"
  /\ UNCHANGED <<wire, slave_on, SLVSTATE, stat>>

Deselect ==
  /\ pc = "deselect"
  /\ IF stat.desel
       THEN SLVDESEL' = FALSE /\ on_stop
       ELSE UNCHANGED <<SLVDESEL, owner>>
  /\ pc' = "pending"
  /\ UNCHANGED <<wire, slave_on, SLVSTATE, stat>>

\* Mutant: only a byte is continued after, not an address.
PendingNoContinue ==
  /\ pc = "pending"
  /\ IF stat.state \in {"rx", "tx"}
       THEN SLVSTATE' = "none" /\ m_waits' = FALSE /\ Deliver
       ELSE UNCHANGED <<SLVSTATE, m_waits, owner>>
  /\ pc' = "thread"
  /\ stat' = Nothing
  /\ UNCHANGED <<m_phase, m_sent, transfer, slave_on, SLVDESEL>>

\* The byte is handed over before SLVCONTINUE lets the clock go.
Pending ==
  /\ pc = "pending"
  /\ IF stat.state # "none"
       THEN /\ SLVSTATE' = "none"
            /\ m_waits' = FALSE
            /\ IF stat.state = "addr" THEN UNCHANGED owner ELSE Deliver
       ELSE UNCHANGED <<SLVSTATE, m_waits, owner>>
  /\ pc' = "thread"
  /\ stat' = Nothing
  /\ UNCHANGED <<m_phase, m_sent, transfer, slave_on, SLVDESEL>>

-----------------------------------------------------------------------------
\* SLVEN is cleared; nothing clears SLVDESEL, which may or may not outlive it.
platform_i2c_slave_deinit ==
  /\ pc = "thread" /\ slave_on
  /\ slave_on' = FALSE
  /\ SLVSTATE' = "none"
  /\ SLVDESEL' \in {FALSE, SLVDESEL}
  /\ MasterOff
  /\ UNCHANGED isr

platform_i2c_slave_init ==
  /\ ~slave_on
  /\ slave_on' = TRUE
  /\ UNCHANGED <<slaveBusVars, SLVSTATE, SLVDESEL, isr>>

I2C0_IRQHandler == Enter \/ Deselect \/ Pending

Next ==
  \/ Address \/ SendByte \/ AskForByte \/ Stop
  \/ I2C0_IRQHandler
  \/ platform_i2c_slave_deinit \/ platform_i2c_slave_init

Spec == Init /\ [][Next]_vars
=============================================================================

-------------------------- MODULE TransactionStore --------------------------
(***************************************************************************)
(* What the Data Vault promises the main MCU: a store whose transactions   *)
(* are atomic at their STOP.  (docs/I2C_INTEGRATION_GUIDE.md section 3 and *)
(* section 5 of the design are the promise; the operators follow the       *)
(* handlers of core/src/vault_i2c_registers.c.)                            *)
(*                                                                         *)
(* A transaction is a register and a payload.  The main MCU's power may be *)
(* cut while it is talking, but only once DONE has been accepted: what got *)
(* through until then has been stored, and no STOP will ever follow.       *)
(***************************************************************************)
EXTENDS Integers, Sequences

CONSTANTS
  Size,       \* bytes the context buffer holds
  Writes,     \* [reg, payload]: what the master may write
  Reads,      \* [reg, count]: what the master may read
  Default     \* the interval an unwritten store uses, by byte

VARIABLES
  store,      \* [data, length, interval, valid, done]
  reply       \* the bytes of the last completed read

absVars == <<store, reply>>

Least(a, b) == IF a < b THEN a ELSE b

\* What the bytes of a payload change by themselves.
Effect(st, reg, p) ==
  CASE reg = 2 /\ Len(p) >= 2 -> [st EXCEPT !.length = Least(p[1] + 256 * p[2], Size)]
    [] reg = 3 -> [st EXCEPT !.data = [i \in DOMAIN @ |->
                                         IF i < Len(p) THEN p[i + 1] ELSE @[i]]]
    [] reg = 5 /\ Len(p) >= 4 -> [st EXCEPT !.interval = [i \in 0..3 |-> p[i + 1]]]
    [] OTHER -> st

\* What the STOP adds: a non-empty context is valid, a DONE is accepted.
Completed(st, reg, p) ==
  [st EXCEPT !.valid = @ \/ (reg = 3 /\ p # <<>>),
             !.done  = @ \/ (reg = 4 /\ p # <<>> /\ p[1] = 1)]

\* Byte i of a register; reads past its end and of COMMAND give 0xFF.
Answer(st, reg, i) ==
  CASE reg = 0 /\ i = 0 -> IF st.valid THEN 1 ELSE 0
    [] reg = 1 /\ i = 0 -> 1
    [] reg = 2 /\ i < 2 -> IF i = 0 THEN st.length % 256 ELSE st.length \div 256
    [] reg = 3 /\ i < Size -> st.data[i]
    [] reg = 5 /\ i < 4 -> st.interval[i]
    [] OTHER -> 255

-----------------------------------------------------------------------------
Init ==
  /\ store = [data |-> [i \in 0 .. Size - 1 |-> 0], length |-> 0,
              interval |-> Default, valid |-> FALSE, done |-> FALSE]
  /\ reply = <<>>

Write(w) ==
  /\ store' = Completed(Effect(store, w.reg, w.payload), w.reg, w.payload)
  /\ UNCHANGED reply

Read(r) ==
  /\ reply' = [i \in 1 .. r.count |-> Answer(store, r.reg, i - 1)]
  /\ UNCHANGED store

\* A new wake cycle: the DONE that ended the last one is forgotten.
NewCycle ==
  /\ store.done
  /\ store' = [store EXCEPT !.done = FALSE]
  /\ UNCHANGED reply

\* Power is cut k bytes into a write the master should not have started.
CutOff(w, k) ==
  /\ store.done
  /\ store' = [Effect(store, w.reg, SubSeq(w.payload, 1, k)) EXCEPT !.done = FALSE]
  /\ UNCHANGED reply

Next ==
  \/ \E w \in Writes : Write(w)
  \/ \E r \in Reads : Read(r)
  \/ NewCycle
  \/ \E w \in Writes : \E k \in 0 .. Len(w.payload) : CutOff(w, k)

Spec == Init /\ [][Next]_absVars
=============================================================================

----------------------------- MODULE MCVaultBus -----------------------------
(***************************************************************************)
(* VaultBus with a small repertoire of transactions: every register, full, *)
(* short and overlong payloads, values that look like register addresses,  *)
(* a length above the buffer, and reads of each register past its end.     *)
(***************************************************************************)
EXTENDS VaultBus

MCWrites ==
  { [reg |-> 0, payload |-> <<1>>],
    [reg |-> 2, payload |-> <<1>>],
    [reg |-> 2, payload |-> <<1, 0>>],
    [reg |-> 2, payload |-> <<2, 1>>],
    [reg |-> 3, payload |-> <<>>],
    [reg |-> 3, payload |-> <<4>>],
    [reg |-> 3, payload |-> <<1, 2, 3>>],
    [reg |-> 4, payload |-> <<1>>],
    [reg |-> 4, payload |-> <<2, 1>>],
    [reg |-> 5, payload |-> <<9, 8>>],
    [reg |-> 5, payload |-> <<5, 0, 0, 0>>],
    [reg |-> 6, payload |-> <<1>>] }

MCReads ==
  { [reg |-> 0, count |-> 2], [reg |-> 1, count |-> 1], [reg |-> 2, count |-> 3],
    [reg |-> 3, count |-> 3], [reg |-> 4, count |-> 1], [reg |-> 5, count |-> 5] }

\* One transaction per kind of register, for the runs with master resets.
MCFewWrites ==
  { [reg |-> 2, payload |-> <<1, 0>>],
    [reg |-> 3, payload |-> <<4, 1>>],
    [reg |-> 4, payload |-> <<1>>],
    [reg |-> 5, payload |-> <<5, 0, 0, 0>>],
    [reg |-> 6, payload |-> <<1>>] }

MCFewReads == { [reg |-> 0, count |-> 1], [reg |-> 3, count |-> 2] }
=============================================================================

---------------------------- MODULE MCVaultSystem ----------------------------
(***************************************************************************)
(* VaultSystem with a transaction of each kind that matters to the loop or *)
(* to what outlives a cycle: the context, the interval (whole and short),  *)
(* DONE and another command, and a read of the status.                     *)
(***************************************************************************)
EXTENDS VaultSystem

MCWrites ==
  { [reg |-> 3, payload |-> <<4, 1>>],
    [reg |-> 4, payload |-> <<1>>],
    [reg |-> 4, payload |-> <<2, 1>>],
    [reg |-> 5, payload |-> <<9, 8>>],
    [reg |-> 5, payload |-> <<5, 0, 0, 0>>] }

MCReads == { [reg |-> 0, count |-> 1] }
=============================================================================

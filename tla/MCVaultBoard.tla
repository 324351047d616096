---------------------------- MODULE MCVaultBoard ----------------------------
(***************************************************************************)
(* VaultBoard with numbers of one to three digits, with and without zeros. *)
(***************************************************************************)
EXTENDS VaultBoard

MCInterval == {0, 7, 10, 60, 99, 305}
=============================================================================

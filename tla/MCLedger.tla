------------------------------ MODULE MCLedger ------------------------------
(***************************************************************************)
(* Ledger for TLC: the calls are interchangeable, so are the batches and   *)
(* events that carry their names.                                          *)
(***************************************************************************)
EXTENDS Ledger, TLC

Symmetry == Permutations(Calls)
=============================================================================

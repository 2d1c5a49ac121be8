-------------------------- MODULE MCBatchScheduler --------------------------
(***************************************************************************)
(* Instances of BatchScheduler for TLC: three batches, one of which the    *)
(* ledger does not know, two items, and two workers that are started once  *)
(* or twice.                                                               *)
(***************************************************************************)
EXTENDS BatchScheduler
=============================================================================

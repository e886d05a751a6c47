----------------------------- MODULE MCTraining -----------------------------
(* The training run on small instances.                                     *)
EXTENDS SyncInvariant, TLC

\* Workers differ only in their ids, which the code never compares or orders.
WorkerSymmetry == Permutations(Workers)
=============================================================================

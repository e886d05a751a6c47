---------------------------- MODULE MCWeightStore ----------------------------
(* The weight store and its file on a small instance.                       *)
EXTENDS WeightStore, TLC

ThreadSymmetry == Permutations(Threads)
=============================================================================

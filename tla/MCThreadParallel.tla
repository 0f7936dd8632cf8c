-------------------------- MODULE MCThreadParallel --------------------------
(* ThreadParallel on small instances. *)
EXTENDS ThreadParallel, TLC

(* The workers run the same loop: they may be exchanged in safety runs. *)
WorkerSymmetry == Permutations(Workers)
=============================================================================

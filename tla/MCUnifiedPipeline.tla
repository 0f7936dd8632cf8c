------------------------- MODULE MCUnifiedPipeline -------------------------
(* UnifiedPipeline on small instances. *)
EXTENDS UnifiedPipeline, TLC

(* Clients are interchangeable in safety runs. *)
ClientSymmetry == Permutations(Starters) \cup Permutations(Stoppers)
=============================================================================

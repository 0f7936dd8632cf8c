------------------------- MODULE MCCompositeOutput -------------------------
(* CompositeOutput on small instances. *)
EXTENDS CompositeOutput
=============================================================================

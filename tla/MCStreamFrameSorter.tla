------------------------- MODULE MCStreamFrameSorter -------------------------
(* A stream of a few bytes. *)
EXTENDS StreamFrameSorter
=============================================================================

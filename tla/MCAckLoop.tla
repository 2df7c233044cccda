------------------------------ MODULE MCAckLoop ------------------------------
(* Instances of AckLoop for TLC. *)
EXTENDS AckLoop, TLC

CONSTANTS f1, f2, ping

MCFrame == {f1, f2, ping}

MCNoFrame == {}

\* The two data frames are interchangeable.
Symmetry == Permutations({f1, f2})
=============================================================================

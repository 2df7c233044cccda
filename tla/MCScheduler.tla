----------------------------- MODULE MCScheduler -----------------------------
(* Instances of Scheduler for TLC *)
EXTENDS Scheduler, TLC

CONSTANTS f1, f2, crypto, ping, pths, wu, initial, p1, p2

None == {}

(* Three paths; the initial one sends nothing, p1 may fail and be closed *)
ThreePaths == {initial, p1, p2}
DataFrames == {f1, f2, ping}
DataAndWindowUpdate == {f1, ping, wu}
WindowUpdate == {wu}
TwoAndOne == [p \in ThreePaths |-> IF p = initial THEN 0 ELSE IF p = p1 THEN 2 ELSE 1]
FirstPath == {p1}
SymmetryFrames == Permutations({f1, f2})

(* The handshake on the initial path, and a path of the client; both may fail *)
TwoPaths == {initial, p1}
HandshakeFrames == {f1, crypto, ping, pths}
Crypto == {crypto}
Paths == {pths}
TwoEach == [p \in TwoPaths |-> 2]
ThreeAndOne == [p \in TwoPaths |-> IF p = initial THEN 3 ELSE 1]
=============================================================================

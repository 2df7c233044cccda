--------------------------- MODULE ReceivedPackets ---------------------------
(***************************************************************************)
(* What receivedPacketHistory promises its user: it remembers exactly the  *)
(* packet numbers that were received and not yet deleted.                  *)
(***************************************************************************)
EXTENDS Naturals

CONSTANT MaxPacketNumber    \* bound on the packet numbers that are used

VARIABLE received           \* the packet numbers an ACK may report

Init == received = {}

Remember(p) == received' = received \cup {p}

Forget(p) == received' = {n \in received : n > p}

Next == \/ \E p \in 1..MaxPacketNumber : Remember(p)
        \/ \E p \in 0..MaxPacketNumber : Forget(p)

Spec == Init /\ [][Next]_received
=============================================================================

------------------------ MODULE ReceivedPacketHistory ------------------------
(***************************************************************************)
(* ackhandler/received_packet_history.go on its own: the received packet   *)
(* numbers of a path as a list of intervals, and what the list implements. *)
(***************************************************************************)
EXTENDS PacketIntervals

VARIABLES
    ranges,                          \* receivedPacketHistory.ranges
    lowestInReceivedPacketNumbers    \* written by DeleteUpTo, never read

vars == <<ranges, lowestInReceivedPacketNumbers>>

-----------------------------------------------------------------------------
(* The history on its own: packets arrive in any order and any number of     *)
(* times, and DeleteUpTo is called with any number.                          *)

Init ==
    /\ ranges = <<>>
    /\ lowestInReceivedPacketNumbers = 0

ReceivedPacket(p) ==
    /\ ranges' = IF TooManyRanges(ranges) THEN ranges ELSE Insert(ranges, p)
    /\ UNCHANGED lowestInReceivedPacketNumbers

DeleteUpTo(p) ==
    /\ lowestInReceivedPacketNumbers' =
           IF p + 1 > lowestInReceivedPacketNumbers THEN p + 1 ELSE lowestInReceivedPacketNumbers
    /\ ranges' = Delete(ranges, p)

Next ==
    \/ \E p \in 1..MaxPacketNumber : ReceivedPacket(p)
    \/ \E p \in 0..MaxPacketNumber : DeleteUpTo(p)

Spec == Init /\ [][Next]_vars

-----------------------------------------------------------------------------
(* Properties *)

\* The list never grows beyond protocol.MaxTrackedReceivedAckRanges.
TypeOK ==
    /\ ranges \in Seq(PacketInterval)
    /\ Len(ranges) <= MaxTrackedReceivedAckRanges
    /\ lowestInReceivedPacketNumbers \in Nat

\* The list is sorted, no interval is empty, and between two neighbours at
\* least one number is missing: an ACK built from it (GetAckRanges) is one that
\* AckFrame.validateAckRanges accepts, and every loop that stops early at a
\* neighbour (ReceivedPacket, DeleteUpTo, determineNewlyAckedPackets) is right to.
Separated == SeparatedList(ranges)

\* A ReceivedPacket that is not refused adds exactly its number to what the next
\* ACK reports and a DeleteUpTo(p) removes exactly the numbers up to p: no merge,
\* trim or early return of the walks changes anything else.
CallsAreExact ==
    [][/\ \A p \in 1..MaxPacketNumber : ReceivedPacket(p) =>
              Covered(ranges') = IF TooManyRanges(ranges) THEN Covered(ranges)
                                 ELSE Covered(ranges) \cup {p}
       /\ \A p \in 0..MaxPacketNumber : DeleteUpTo(p) =>
              Covered(ranges') = {n \in Covered(ranges) : n > p}]_vars

\* The list implements the set of received packet numbers of ReceivedPackets.
AsSet == INSTANCE ReceivedPackets WITH received <- Covered(ranges)

ImplementsSet == AsSet!Spec
=============================================================================

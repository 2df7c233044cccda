--------------------------- MODULE PacketIntervals ---------------------------
(***************************************************************************)
(* The list of intervals of ackhandler/received_packet_history.go and the  *)
(* walks over it.                                                          *)
(*                                                                         *)
(* A list is a sequence, from Front() to Back().  The methods walk it from *)
(* one end and stop at some element; they are written here as operators on *)
(* the list, with the place where the walk stops as a position.            *)
(***************************************************************************)
EXTENDS Integers, Sequences, SequencesExt

CONSTANTS
    MaxPacketNumber,               \* bound: the packet numbers are 1..MaxPacketNumber
    MaxTrackedReceivedAckRanges    \* protocol.MaxTrackedReceivedAckRanges

ASSUME PacketIntervalsAssumption ==
    /\ MaxPacketNumber \in Nat
    /\ MaxTrackedReceivedAckRanges \in Nat \ {0}

PacketInterval == [Start : Nat, End : Nat]

-----------------------------------------------------------------------------
(* ReceivedPacket *)

\* The loop from Back() to Front() passes over the intervals that start after
\* p + 1 and stops at the first one that does not; 0 when it runs off the list.
StopsAt(r, p) ==
    CHOOSE i \in 0..Len(r) :
        /\ \A j \in i+1..Len(r) : r[j].Start > p + 1
        /\ i > 0 => r[i].Start <= p + 1

\* Mutant: the extended interval is never merged.
NoMerge(r, i) == r

\* After the i-th interval was extended: merge it into the one before it when
\* nothing is missing between the two.
MergeWithPrev(r, i) ==
    IF i > 1 /\ r[i-1].End + 1 = r[i].Start
    THEN RemoveAt([r EXCEPT ![i-1] = [Start |-> r[i-1].Start, End |-> r[i].End]], i)
    ELSE r

Insert(r, p) ==
    LET i == StopsAt(r, p)
        new == [Start |-> p, End |-> p]
    IN  IF i > 0 /\ p >= r[i].Start /\ p <= r[i].End THEN r
        ELSE IF i > 0 /\ r[i].End = p - 1
             THEN MergeWithPrev([r EXCEPT ![i] = [Start |-> r[i].Start, End |-> p]], i)
        ELSE IF i > 0 /\ r[i].Start = p + 1
             THEN MergeWithPrev([r EXCEPT ![i] = [Start |-> p, End |-> r[i].End]], i)
        ELSE InsertAt(r, i + 1, new)

\* Mutant: off by one.
TooManyRangesLate(r) == Len(r) > MaxTrackedReceivedAckRanges

\* errTooManyOutstandingReceivedAckRanges, whatever the packet number is.
TooManyRanges(r) == Len(r) >= MaxTrackedReceivedAckRanges

-----------------------------------------------------------------------------
(* DeleteUpTo *)

\* The loop from Front() removes the intervals that end at or below p and
\* returns at the first one that reaches above p, which it may have trimmed.
NumDeleted(r, p) ==
    CHOOSE k \in 0..Len(r) :
        /\ \A j \in 1..k : r[j].End <= p
        /\ k < Len(r) => r[k+1].End > p

\* Mutant: an interval that starts at p is not trimmed.
DeleteBelow(r, p) ==
    LET k == NumDeleted(r, p)
        kept == SubSeq(r, k + 1, Len(r))
    IN  IF k < Len(r) /\ r[k+1].Start < p
        THEN [kept EXCEPT ![1] = [Start |-> p + 1, End |-> r[k+1].End]]
        ELSE kept

Delete(r, p) ==
    LET k == NumDeleted(r, p)
        kept == SubSeq(r, k + 1, Len(r))
    IN  IF k < Len(r) /\ r[k+1].Start <= p
        THEN [kept EXCEPT ![1] = [Start |-> p + 1, End |-> r[k+1].End]]
        ELSE kept

-----------------------------------------------------------------------------
(* Readers *)

\* Highest interval first, the order an AckFrame needs.
GetAckRanges(r) ==
    [i \in 1..Len(r) |-> [First |-> r[Len(r) + 1 - i].Start, Last |-> r[Len(r) + 1 - i].End]]

GetHighestAckRange(r) ==
    IF Len(r) > 0 THEN [First |-> r[Len(r)].Start, Last |-> r[Len(r)].End]
    ELSE [First |-> 0, Last |-> 0]

-----------------------------------------------------------------------------
(* What a list stands for *)

\* Sorted, no interval empty, at least one number missing between two neighbours.
SeparatedList(r) ==
    /\ \A i \in 1..Len(r) : 1 <= r[i].Start /\ r[i].Start <= r[i].End
    /\ \A i, j \in 1..Len(r) : i < j => r[i].End + 1 < r[j].Start

\* The packet numbers the list stands for.
Covered(r) == UNION {r[i].Start .. r[i].End : i \in 1..Len(r)}
=============================================================================

------------------------ MODULE ReceivedPacketHandler ------------------------
(***************************************************************************)
(* ackhandler/received_packet_handler.go: when one path of a session       *)
(* acknowledges what it received, and with which AckFrame.                 *)
(*                                                                         *)
(* A handler is a record and every method an operator on it.  The two      *)
(* counters stop at the threshold they are compared with.  ackAlarm is     *)
(* TRUE when the deadline is set; lastAck is the LargestAcked of the last  *)
(* AckFrame, 0 for nil.                                                    *)
(***************************************************************************)
EXTENDS PacketIntervals, FiniteSets

CONSTANTS
    BeforeVersion39,                    \* h.version < protocol.Version39
    MaxPacketsReceivedBeforeAckSend,    \* protocol.MaxPacketsReceivedBeforeAckSend
    RetransmittablePacketsBeforeAck     \* protocol.RetransmittablePacketsBeforeAck

ASSUME ReceivedPacketHandlerAssumption ==
    /\ BeforeVersion39 \in BOOLEAN
    /\ MaxPacketsReceivedBeforeAckSend \in Nat
    /\ RetransmittablePacketsBeforeAck \in Nat

ReceivedPacketHandlers ==
    {h \in [largestObserved : Nat, lowerLimit : Nat, ranges : Seq(PacketInterval),
            packetsReceivedSinceLastAck : 0..MaxPacketsReceivedBeforeAckSend,
            retransmittablePacketsReceivedSinceLastAck : 0..RetransmittablePacketsBeforeAck,
            ackQueued : BOOLEAN, ackAlarm : BOOLEAN, lastAck : Nat] :
        Len(h.ranges) <= MaxTrackedReceivedAckRanges}

NewReceivedPacketHandler ==
    [largestObserved |-> 0, lowerLimit |-> 0, ranges |-> <<>>,
     packetsReceivedSinceLastAck |-> 0,
     retransmittablePacketsReceivedSinceLastAck |-> 0,
     ackQueued |-> FALSE, ackAlarm |-> FALSE, lastAck |-> 0]

UpTo(limit, n) == IF n > limit THEN limit ELSE n

\* The conditions under which an ACK does not wait for the alarm, h being the
\* handler after the packet was counted and inserted.
AckNow(h, packetNumber, shouldInstigateAck) ==
    \/ h.ackQueued
    \/ h.lastAck = 0
    \/ /\ BeforeVersion39
       /\ h.packetsReceivedSinceLastAck >= MaxPacketsReceivedBeforeAckSend
    \/ h.lastAck # 0 /\ packetNumber < h.lastAck
    \/ h.lastAck # 0 /\ GetHighestAckRange(h.ranges).First > h.lastAck
    \/ /\ shouldInstigateAck
       /\ h.retransmittablePacketsReceivedSinceLastAck >= RetransmittablePacketsBeforeAck

\* Mutant: the alarm is only set together with an ACK that is due anyway.
maybeQueueAckNoAlarm(h, packetNumber, shouldInstigateAck) ==
    LET counted ==
          [h EXCEPT !.packetsReceivedSinceLastAck = UpTo(MaxPacketsReceivedBeforeAckSend, @ + 1),
                    !.retransmittablePacketsReceivedSinceLastAck =
                        IF shouldInstigateAck THEN UpTo(RetransmittablePacketsBeforeAck, @ + 1) ELSE @]
        now == AckNow(counted, packetNumber, shouldInstigateAck)
    IN  [counted EXCEPT !.ackQueued = now, !.ackAlarm = ~ now /\ @]

maybeQueueAck(h, packetNumber, shouldInstigateAck) ==
    LET counted ==
          [h EXCEPT !.packetsReceivedSinceLastAck = UpTo(MaxPacketsReceivedBeforeAckSend, @ + 1),
                    !.retransmittablePacketsReceivedSinceLastAck =
                        IF shouldInstigateAck THEN UpTo(RetransmittablePacketsBeforeAck, @ + 1) ELSE @]
        now == AckNow(counted, packetNumber, shouldInstigateAck)
    IN  [counted EXCEPT !.ackQueued = now,
                        !.ackAlarm = ~ now /\ (@ \/ shouldInstigateAck)]

\* errInvalidPacketNumber or errTooManyOutstandingReceivedAckRanges: the session ends.
ReceivedPacketRefused(h, packetNumber) ==
    \/ packetNumber = 0
    \/ packetNumber > h.lowerLimit /\ TooManyRanges(h.ranges)

ReceivedPacket(h, packetNumber, shouldInstigateAck) ==
    LET observed == [h EXCEPT !.largestObserved = IF packetNumber > @ THEN packetNumber ELSE @]
        inserted == [observed EXCEPT !.ranges = Insert(@, packetNumber)]
    IN  IF packetNumber <= h.lowerLimit \/ ReceivedPacketRefused(h, packetNumber) THEN observed
        ELSE maybeQueueAck(inserted, packetNumber, shouldInstigateAck)

SetLowerLimit(h, p) == [h EXCEPT !.lowerLimit = p, !.ranges = Delete(@, p)]

\* An alarm that is set may have expired.
AckDue(h) == h.ackQueued \/ h.ackAlarm

\* Mutant: the ranges are not looked at.
AcksEverything(h, n) ==
    n \in GetAckRanges(h.ranges)[Len(h.ranges)].First .. h.largestObserved

\* AckFrame.AcksPacket: with at most one range, everything from LowestAcked to
\* LargestAcked; with more, what is in a range.
AcksPacket(h, n) ==
    /\ n \in GetAckRanges(h.ranges)[Len(h.ranges)].First .. h.largestObserved
    /\ Len(h.ranges) > 1 =>
           \E i \in 1..Len(h.ranges) :
               LET range == GetAckRanges(h.ranges)[i] IN n \in range.First .. range.Last

\* The frame GetAckFrame and GetClosePathFrame build: the packet numbers it
\* acknowledges in place of its ranges.  Both index the list of ranges without
\* looking at its length, so it must not be empty.
AckFrame(h) ==
    [LargestAcked |-> h.largestObserved,
     acked |-> {n \in 1..h.largestObserved : AcksPacket(h, n)}]

GetAckFrame(h) ==
    [h EXCEPT !.lastAck = h.largestObserved, !.ackAlarm = FALSE, !.ackQueued = FALSE,
              !.packetsReceivedSinceLastAck = 0,
              !.retransmittablePacketsReceivedSinceLastAck = 0]
=============================================================================

-------------------------- MODULE SentPacketHandler --------------------------
(***************************************************************************)
(* ackhandler/sent_packet_handler.go and stop_waiting_manager.go: what one *)
(* path of a session knows about the packets it sent.                      *)
(*                                                                         *)
(* A handler is a record and every method an operator on it, so that a     *)
(* session with several paths has a function from paths to handlers.       *)
(*                                                                         *)
(* packetHistory is a set: the list is sorted by packet number, because    *)
(* SentPacket refuses a number that does not increase.  So is              *)
(* retransmissionQueue, which the session always drains to its end; `copy' *)
(* tells the packet DuplicatePacket queued from the original of the same   *)
(* number.                                                                 *)
(*                                                                         *)
(* Time: a packet with a higher number was not sent earlier, so the        *)
(* packets older than the loss delay are those up to some number k, which  *)
(* is a parameter.  lossTime and alarm are TRUE when the deadline is set.  *)
(* rtoCount only scales the RTO delay and is left out.                     *)
(***************************************************************************)
EXTENDS Integers, FiniteSets, FiniteSetsExt

CONSTANTS
    Frame,                        \* the retransmittable frames
    ClosePathFrame,               \* those Packet.IsRetransmittable does not know
    MaxTrackedSentPackets,        \* protocol.MaxTrackedSentPackets
    MaxTrackedSkippedPackets,     \* protocol.MaxTrackedSkippedPackets
    MaxNonRetransmittablePackets, \* protocol.MaxNonRetransmittablePackets
    maxTailLossProbes

ASSUME SentPacketHandlerAssumption ==
    /\ ClosePathFrame \subseteq Frame
    /\ MaxTrackedSentPackets \in Nat
    /\ MaxTrackedSkippedPackets \in Nat
    /\ MaxNonRetransmittablePackets \in Nat
    /\ maxTailLossProbes \in Nat

EncryptionLevel == {"unencrypted", "secure", "forwardSecure"}

Packet == [PacketNumber : Nat \ {0}, Frames : SUBSET Frame,
           EncryptionLevel : EncryptionLevel, copy : BOOLEAN]

\* Bytes on the wire: never 0, and more for more frames.
Length(p) == 1 + Cardinality(p.Frames)

TotalLength(P) == MapThenSumSet(Length, P)

NumTracked(h) == Cardinality(h.retransmissionQueue) + Cardinality(h.packetHistory)

\* The limits: SentPacket looks at MaxTrackedSentPackets, DuplicatePacket, which is
\* called right after it, adds a packet without looking.
WithinLimits(h) ==
    /\ Cardinality(h.skippedPackets) <= MaxTrackedSkippedPackets
    /\ Cardinality(h.packetHistory) <= MaxTrackedSentPackets
    /\ NumTracked(h) <= MaxTrackedSentPackets + 1

SentPacketHandlers ==
    {h \in [lastSentPacketNumber : Nat, skippedPackets : SUBSET Nat,
            numNonRetransmittablePackets : Nat, LargestAcked : Nat,
            largestReceivedPacketWithAck : Nat, packetHistory : SUBSET Packet,
            retransmissionQueue : SUBSET Packet, bytesInFlight : Nat,
            tlpCount : 0..maxTailLossProbes, lossTime : BOOLEAN, alarm : BOOLEAN,
            hasRTT : BOOLEAN, nextLeastUnacked : Nat, largestLeastUnackedSent : Nat,
            lastStopWaitingFrame : Nat] : WithinLimits(h)}

\* hasRTT: rttStats.SmoothedRTT() # 0.  lastStopWaitingFrame: its LeastUnacked, 0 for nil.
NewSentPacketHandler ==
    [lastSentPacketNumber |-> 0, skippedPackets |-> {},
     numNonRetransmittablePackets |-> 0, LargestAcked |-> 0,
     largestReceivedPacketWithAck |-> 0, packetHistory |-> {},
     retransmissionQueue |-> {}, bytesInFlight |-> 0,
     tlpCount |-> 0, lossTime |-> FALSE, alarm |-> FALSE,
     hasRTT |-> FALSE, nextLeastUnacked |-> 0, largestLeastUnackedSent |-> 0,
     lastStopWaitingFrame |-> 0]

-----------------------------------------------------------------------------
(* Readers *)

PacketNumbers(P) == {p.PacketNumber : p \in P}

largestInOrderAcked(h) ==
    IF h.packetHistory # {} THEN Min(PacketNumbers(h.packetHistory)) - 1 ELSE h.LargestAcked

GetLeastUnacked(h) == largestInOrderAcked(h) + 1

ShouldSendRetransmittablePacket(h) ==
    h.numNonRetransmittablePackets >= MaxNonRetransmittablePackets

IsRetransmittable(p) == p.Frames \ ClosePathFrame # {}

hasOutstandingRetransmittablePacket(h) == \E p \in h.packetHistory : IsRetransmittable(p)

SendingAllowed(h, congestionLimited) ==
    /\ NumTracked(h) < MaxTrackedSentPackets
    /\ congestionLimited => h.retransmissionQueue # {}

-----------------------------------------------------------------------------
(* Steps shared by the methods *)

\* Mutant: after the tail loss probes no alarm is set.
alarmForProbesOnly(h) ==
    [h EXCEPT !.alarm = h.packetHistory # {} /\ h.tlpCount < maxTailLossProbes]

updateLossDetectionAlarm(h) == [h EXCEPT !.alarm = h.packetHistory # {}]

\* Mutant: the least unacked packet is one further.
SkipsOne(n) == n + 2

\* The first packet number that is not below or at n.
After(n) == n + 1

\* Mutant: the bytes of a packet that is queued stay in flight.
queueWithoutBytes(h, P) ==
    [h EXCEPT !.packetHistory = @ \ P,
              !.retransmissionQueue = @ \cup P,
              !.nextLeastUnacked = Max({@} \cup {After(n) : n \in PacketNumbers(P)})]

\* queuePacketForRetransmission for every packet of P, with
\* QueuedRetransmissionForPacketNumber.
queueForRetransmission(h, P) ==
    [h EXCEPT !.bytesInFlight = @ - TotalLength(P),
              !.packetHistory = @ \ P,
              !.retransmissionQueue = @ \cup P,
              !.nextLeastUnacked = Max({@} \cup {After(n) : n \in PacketNumbers(P)})]

\* onPacketAcked for every packet of P.
onPacketsAcked(h, P) ==
    [h EXCEPT !.bytesInFlight = @ - TotalLength(P),
              !.packetHistory = @ \ P,
              !.tlpCount = IF P # {} THEN 0 ELSE @]

detectLostPackets(h, k) ==
    LET candidates == {p \in h.packetHistory : p.PacketNumber <= h.LargestAcked}
        lost == {p \in candidates : p.PacketNumber <= k}
    IN  [queueForRetransmission(h, lost) EXCEPT !.lossTime = candidates # lost]

SetInflightAsLost(h) ==
    queueForRetransmission(h, {p \in h.packetHistory : p.PacketNumber <= h.LargestAcked})

garbageCollectSkippedPackets(h) ==
    [h EXCEPT !.skippedPackets = {n \in @ : n > largestInOrderAcked(h)}]

-----------------------------------------------------------------------------
(* SentPacket *)

\* Mutant: off by one, the packet itself is not counted.
RefusedLate(h, n) ==
    \/ n <= h.lastSentPacketNumber
    \/ NumTracked(h) > MaxTrackedSentPackets

\* errPacketNumberNotIncreasing or ErrTooManyTrackedSentPackets.
SentPacketRefused(h, n) ==
    \/ n <= h.lastSentPacketNumber
    \/ NumTracked(h) + 1 > MaxTrackedSentPackets

\* Mutant: off by one, an entry too many is kept.
NewestAndOne(S) == {n \in S : Cardinality({m \in S : m > n}) <= MaxTrackedSkippedPackets}

\* The oldest entries go when there are too many.
Newest(S) == {n \in S : Cardinality({m \in S : m > n}) < MaxTrackedSkippedPackets}

\* Mutant: off by one, the number that is used is among them.
SkippedAndUsed(h, n) == h.lastSentPacketNumber + 1 .. n

Skipped(h, n) == h.lastSentPacketNumber + 1 .. n - 1

\* Mutant: sending does not arm the alarm.
SentPacketNoAlarm(h, p) ==
    [h EXCEPT !.skippedPackets = Newest(@ \cup Skipped(h, p.PacketNumber)),
              !.lastSentPacketNumber = p.PacketNumber,
              !.bytesInFlight = IF p.Frames # {} THEN @ + Length(p) ELSE @,
              !.packetHistory = IF p.Frames # {} THEN @ \cup {p} ELSE @,
              !.numNonRetransmittablePackets = IF p.Frames # {} THEN 0 ELSE @ + 1]

\* p.Frames: what stripNonRetransmittableFrames leaves.
SentPacket(h, p) ==
    updateLossDetectionAlarm(
        [h EXCEPT !.skippedPackets = Newest(@ \cup Skipped(h, p.PacketNumber)),
                  !.lastSentPacketNumber = p.PacketNumber,
                  !.bytesInFlight = IF p.Frames # {} THEN @ + Length(p) ELSE @,
                  !.packetHistory = IF p.Frames # {} THEN @ \cup {p} ELSE @,
                  !.numNonRetransmittablePackets = IF p.Frames # {} THEN 0 ELSE @ + 1])

-----------------------------------------------------------------------------
(* ReceivedAck, ReceivedClosePath.  An ACK is [LargestAcked, acked], where   *)
(* acked is the set of the packet numbers that AcksPacket accepts.           *)

AckForUnsentPacket(h, ack) == ack.LargestAcked > h.lastSentPacketNumber

\* Mutant: only a duplicate of the last one is recognised.
DuplicateAck(h, n) == n = h.largestReceivedPacketWithAck

DuplicateOrOutOfOrderAck(h, n) == n <= h.largestReceivedPacketWithAck

RepeatedAck(h, ack) == ack.LargestAcked <= largestInOrderAcked(h)

skippedPacketsAcked(h, ack) == h.skippedPackets \cap ack.acked # {}

\* Mutant: the missing ranges of the ACK are ignored.
AllUpToLargestAcked(h, ack) == {p \in h.packetHistory : p.PacketNumber <= ack.LargestAcked}

NewlyAckedPackets(h, ack) == {p \in h.packetHistory : p.PacketNumber \in ack.acked}

\* The packets for which a ReceivedAck calls onAckCallback.
AckedBy(h, ack, n) ==
    IF \/ AckForUnsentPacket(h, ack)
       \/ DuplicateOrOutOfOrderAck(h, n)
       \/ RepeatedAck(h, ack)
       \/ skippedPacketsAcked(h, ack)
    THEN {} ELSE NewlyAckedPackets(h, ack)

\* The ACK ends the session.
AckIsFatal(h, ack, n) ==
    \/ AckForUnsentPacket(h, ack)
    \/ /\ ~ DuplicateOrOutOfOrderAck(h, n)
       /\ ~ RepeatedAck(h, ack)
       /\ skippedPacketsAcked(h, ack)

maybeUpdateRTT(h, ack) ==
    [h EXCEPT !.hasRTT = @ \/ ack.LargestAcked \in PacketNumbers(h.packetHistory)]

stopWaitingReceivedAck(h, ack) ==
    [h EXCEPT !.nextLeastUnacked = IF ack.LargestAcked >= @ THEN After(ack.LargestAcked) ELSE @]

\* n: the number of the packet that carried the ACK; k: see above.
ReceivedAck(h, ack, n, k) ==
    LET seen == [h EXCEPT !.largestReceivedPacketWithAck = n]
        larger == [seen EXCEPT !.LargestAcked = ack.LargestAcked]
        acked == onPacketsAcked(maybeUpdateRTT(larger, ack), NewlyAckedPackets(h, ack))
        detected == updateLossDetectionAlarm(detectLostPackets(acked, k))
    IN  IF AckForUnsentPacket(h, ack) \/ DuplicateOrOutOfOrderAck(h, n) THEN h
        ELSE IF RepeatedAck(h, ack) THEN seen
        ELSE IF skippedPacketsAcked(h, ack) THEN larger
        ELSE stopWaitingReceivedAck(garbageCollectSkippedPackets(detected), ack)

\* The packets for which a ReceivedClosePath calls onAckCallback.
AckedByClosePath(h, cpf, n) ==
    IF \/ AckForUnsentPacket(h, cpf)
       \/ DuplicateOrOutOfOrderAck(h, n)
       \/ skippedPacketsAcked(h, cpf)
    THEN {} ELSE NewlyAckedPackets(h, cpf)

\* Its error, if any, is dropped by session.handleFrames.
ReceivedClosePath(h, cpf, n) ==
    LET seen == [h EXCEPT !.largestReceivedPacketWithAck = n]
        acked == onPacketsAcked(seen, NewlyAckedPackets(h, cpf))
    IN  IF AckForUnsentPacket(h, cpf) \/ DuplicateOrOutOfOrderAck(h, n) THEN h
        ELSE IF skippedPacketsAcked(h, cpf) THEN seen
        ELSE garbageCollectSkippedPackets(SetInflightAsLost(acked))

-----------------------------------------------------------------------------
(* OnAlarm *)

Back(h) == {p \in h.packetHistory : \A q \in h.packetHistory : q.PacketNumber <= p.PacketNumber}

OldestTwo(h) ==
    {p \in h.packetHistory :
        Cardinality({q \in h.packetHistory : q.PacketNumber < p.PacketNumber}) < 2}

TailLossProbe(h) == h.tlpCount < maxTailLossProbes

\* potentiallyFailed: what the onRTOCallback (path.onRTO) returns.
OnAlarm(h, k, potentiallyFailed) ==
    IF ~ hasOutstandingRetransmittablePacket(h) THEN [h EXCEPT !.alarm = FALSE]
    ELSE updateLossDetectionAlarm(
             IF h.lossTime THEN detectLostPackets(h, k)
             ELSE IF TailLossProbe(h)
                  THEN [queueForRetransmission(h, Back(h)) EXCEPT !.tlpCount = @ + 1]
             ELSE queueForRetransmission(h, IF potentiallyFailed THEN h.packetHistory ELSE OldestTwo(h)))

\* OnAlarm is at its RTO branch, the one that calls onRTOCallback.
AlarmIsRTO(h) ==
    /\ hasOutstandingRetransmittablePacket(h)
    /\ ~ h.lossTime
    /\ ~ TailLossProbe(h)

-----------------------------------------------------------------------------
(* The retransmission queue *)

\* DequeuePacketForRetransmission until it returns nil.
DequeueAll(h) == [h EXCEPT !.retransmissionQueue = {}]

DuplicatePacket(h, p) ==
    [h EXCEPT !.retransmissionQueue = @ \cup {[p EXCEPT !.copy = TRUE]}]

\* Of two packets with the number, the copy was queued first.
FirstQueued(h, n) ==
    LET named == {p \in h.retransmissionQueue : p.PacketNumber = n}
        copies == {p \in named : p.copy}
    IN  IF copies # {} THEN copies ELSE named

\* Mutant: the bytes of a packet that is removed stay in flight.
removeWithoutBytes(h, N) ==
    LET P == {p \in h.packetHistory : p.PacketNumber \in N}
        Q == UNION {FirstQueued(h, n) : n \in N \ PacketNumbers(P)}
    IN  [h EXCEPT !.packetHistory = @ \ P, !.retransmissionQueue = @ \ Q]

\* RemovePacketByNumber for every number of N: the session's scheduler calls it for
\* the duplicates of acknowledged packets.  Neither the alarm nor lossTime is touched.
RemovePacketsByNumber(h, N) ==
    LET P == {p \in h.packetHistory : p.PacketNumber \in N}
        Q == UNION {FirstQueued(h, n) : n \in N \ PacketNumbers(P)}
    IN  [onPacketsAcked(h, P) EXCEPT !.retransmissionQueue = @ \ Q]

-----------------------------------------------------------------------------
(* stopWaitingManager.GetStopWaitingFrame: the LeastUnacked of the frame it  *)
(* returns (0 for nil), and the handler after it.                            *)

StopWaitingIsNew(h) == h.nextLeastUnacked > h.largestLeastUnackedSent

StopWaitingIsRemade(h, force) ==
    force /\ h.lastStopWaitingFrame = 0 /\ h.largestLeastUnackedSent > 0

LeastUnackedToSend(h, force) ==
    IF StopWaitingIsNew(h) \/ StopWaitingIsRemade(h, force) THEN h.nextLeastUnacked
    ELSE IF force THEN h.lastStopWaitingFrame ELSE 0

GetStopWaitingFrame(h, force) ==
    [h EXCEPT !.largestLeastUnackedSent = IF StopWaitingIsNew(h) THEN h.nextLeastUnacked ELSE @,
              !.lastStopWaitingFrame =
                  IF StopWaitingIsNew(h) \/ StopWaitingIsRemade(h, force)
                  THEN h.nextLeastUnacked ELSE @]
=============================================================================

------------------------------- MODULE AckLoop -------------------------------
(***************************************************************************)
(* One direction of one path: a sentPacketHandler that sends frames over a *)
(* network that loses, duplicates, delays and reorders packets, the        *)
(* receivedPacketHandler of the peer, and the ACK packets on their way     *)
(* back.  The steps are those of the two sessions' run loops:              *)
(* scheduler.sendPacket, path.handlePacketImpl with session.handleFrames,  *)
(* and OnAlarm.                                                            *)
(***************************************************************************)
EXTENDS SentPacketHandler, ReceivedPacketHandler

CONSTANTS
    PingFrame,      \* the frame performPacketSending adds to have something to acknowledge
    MaxAckPackets,  \* bound: the ACK packets the peer sends
    FillerBound,    \* bound: packet numbers up to it may be skipped or carry only an ACK
    Duplication,    \* does the network duplicate packets (and never drop one explicitly)?
    MaxLosses,      \* bound: the packets the network drops
    PatientTimers   \* does the alarm wait until nothing is on its way?

ASSUME AckLoopAssumption ==
    /\ PingFrame \in Frame
    /\ MaxAckPackets \in Nat
    /\ FillerBound \in Nat
    /\ Duplication \in BOOLEAN
    /\ MaxLosses \in Nat
    /\ PatientTimers \in BOOLEAN

VARIABLES
    pending,     \* the frames that the streamFramer and the packetPacker hold
    snd,         \* the sender's sentPacketHandler
    data,        \* its packets in the network
    rcv,         \* the receiver's receivedPacketHandler
    received,    \* the packet numbers that arrived
    delivered,   \* the frames that arrived
    acks,        \* the receiver's ACK packets in the network
    numAcks,     \* the packet number of the last of them
    losses,      \* how many packets the network dropped
    closed       \* has an error ended one of the sessions?

vars == <<pending, snd, data, rcv, received, delivered, acks, numAcks, losses, closed>>

Data == [PacketNumber : 1..MaxPacketNumber, Frames : SUBSET Frame, LeastUnacked : 0..MaxPacketNumber]

Init ==
    /\ pending = Frame \ {PingFrame}
    /\ snd = NewSentPacketHandler
    /\ data = {}
    /\ rcv = NewReceivedPacketHandler
    /\ received = {}
    /\ delivered = {}
    /\ acks = {}
    /\ numAcks = 0
    /\ losses = 0
    /\ closed = FALSE

-----------------------------------------------------------------------------
(* The sender *)

\* Numbers are skipped when redundant packets were sealed but could not be sent.
NextPacketNumbers ==
    {n \in snd.lastSentPacketNumber + 1 .. MaxPacketNumber :
        n > snd.lastSentPacketNumber + 1 => n <= FillerBound}

Send(h, n, F, leastUnacked) ==
    LET p == [PacketNumber |-> n, Frames |-> F, EncryptionLevel |-> "forwardSecure", copy |-> FALSE]
    IN  IF SentPacketRefused(h, n)
        THEN closed' = TRUE /\ snd' = h /\ UNCHANGED data
        ELSE /\ snd' = SentPacket(h, p)
             /\ data' = data \cup {[PacketNumber |-> n, Frames |-> F, LeastUnacked |-> leastUnacked]}
             /\ UNCHANGED closed

\* One round of scheduler.sendPacket: getRetransmission empties the queue into the
\* framer, which permits sending whatever the congestion window says; a PING is
\* added when it is due; PackPacket takes what fits.  withStopWaiting: an ACK or a
\* stream retransmission goes along (force).
SendPacket(F, n, withStopWaiting, force) ==
    LET drained == DequeueAll(snd)
        available == pending \cup UNION {p.Frames : p \in snd.retransmissionQueue}
        due == IF ShouldSendRetransmittablePacket(snd) THEN {PingFrame} ELSE {}
        h == IF withStopWaiting THEN GetStopWaitingFrame(drained, force) ELSE drained
    IN  /\ ~ closed
        /\ n \in NextPacketNumbers
        /\ F # {}
        /\ due \subseteq F
        /\ F \subseteq available \cup due
        /\ snd.retransmissionQueue = {} => SendingAllowed(snd, FALSE)
        /\ pending' = available \ F
        /\ Send(h, n, F, IF withStopWaiting THEN LeastUnackedToSend(drained, force) ELSE 0)
        /\ UNCHANGED <<rcv, received, delivered, acks, numAcks, losses>>

\* A packet with an ACK for the other direction and nothing to acknowledge: from
\* performPacketSending when no PING is due, or from ackRemainingPaths, which does not
\* ask, when the congestion window is full of packets in flight.
SendAckOnly(n) ==
    /\ ~ closed
    /\ n \in NextPacketNumbers
    /\ n <= FillerBound
    /\ ShouldSendRetransmittablePacket(snd) => snd.packetHistory # {}
    /\ Send(GetStopWaitingFrame(snd, FALSE), n, {}, LeastUnackedToSend(snd, FALSE))
    /\ UNCHANGED <<pending, rcv, received, delivered, acks, numAcks, losses>>

\* path.handlePacketImpl and session.handleAckFrame for a packet with an ACK.
DeliverAck(a, k) ==
    /\ ~ closed
    /\ a \in acks
    /\ closed' = AckIsFatal(snd, a.ack, a.PacketNumber)
    /\ snd' = ReceivedAck(snd, a.ack, a.PacketNumber, k)
    /\ acks' = IF Duplication THEN acks ELSE acks \ {a}
    /\ UNCHANGED <<pending, data, rcv, received, delivered, numAcks, losses>>

\* The path timer and OnAlarm.  When the alarm is the loss time, the oldest packet
\* is overdue.
Alarm(k, potentiallyFailed) ==
    /\ ~ closed
    /\ snd.alarm
    /\ PatientTimers => data = {} /\ acks = {} /\ ~ AckDue(rcv)
    /\ snd.lossTime => k >= Min(PacketNumbers(snd.packetHistory))
    /\ snd' = OnAlarm(snd, k, potentiallyFailed)
    /\ UNCHANGED <<pending, data, rcv, received, delivered, acks, numAcks, losses, closed>>

-----------------------------------------------------------------------------
(* The receiver *)

\* Mutant: the packet that says so is below the limit too.
StopWaitingFrameAll(h, leastUnacked) == SetLowerLimit(h, leastUnacked)

\* session.handleFrames for a STOP_WAITING frame.
handleStopWaitingFrame(h, leastUnacked) == SetLowerLimit(h, leastUnacked - 1)

\* path.handlePacketImpl: the packet is registered before its frames are handled.
Deliver(m) ==
    LET registered == ReceivedPacket(rcv, m.PacketNumber, m.Frames # {})
        refused == ReceivedPacketRefused(rcv, m.PacketNumber)
    IN  /\ ~ closed
        /\ m \in data
        /\ closed' = refused
        /\ rcv' = IF ~ refused /\ m.LeastUnacked # 0
                  THEN handleStopWaitingFrame(registered, m.LeastUnacked)
                  ELSE registered
        /\ received' = received \cup {m.PacketNumber}
        /\ delivered' = IF refused THEN delivered ELSE delivered \cup m.Frames
        /\ data' = IF Duplication THEN data ELSE data \ {m}
        /\ UNCHANGED <<pending, snd, acks, numAcks, losses>>

\* scheduler.sendPacket at the receiver: path.GetAckFrame and the packet with it.
SendAck ==
    /\ ~ closed
    /\ AckDue(rcv)
    /\ numAcks < MaxAckPackets
    /\ numAcks' = numAcks + 1
    /\ acks' = acks \cup {[PacketNumber |-> numAcks + 1, ack |-> AckFrame(rcv)]}
    /\ rcv' = GetAckFrame(rcv)
    /\ UNCHANGED <<pending, snd, data, received, delivered, losses, closed>>

-----------------------------------------------------------------------------
(* The network *)

Lose ==
    /\ losses < MaxLosses
    /\ losses' = losses + 1
    /\ \/ \E m \in data : data' = data \ {m} /\ UNCHANGED acks
       \/ \E a \in acks : acks' = acks \ {a} /\ UNCHANGED data
    /\ UNCHANGED <<pending, snd, rcv, received, delivered, numAcks, closed>>

SendSomePacket ==
    \E F \in SUBSET Frame, n \in NextPacketNumbers, withStopWaiting, force \in BOOLEAN :
        SendPacket(F, n, withStopWaiting, force)

DeliverSome == \E m \in data : Deliver(m)

DeliverSomeAck == \E a \in acks, k \in 0..MaxPacketNumber : DeliverAck(a, k)

SomeAlarm == \E k \in 0..MaxPacketNumber, potentiallyFailed \in BOOLEAN : Alarm(k, potentiallyFailed)

Next ==
    \/ SendSomePacket
    \/ \E n \in NextPacketNumbers : SendAckOnly(n)
    \/ DeliverSome
    \/ SendAck
    \/ DeliverSomeAck
    \/ SomeAlarm
    \/ Lose

Spec == Init /\ [][Next]_vars

\* The run loops of both sessions keep running, an alarm that is set goes off, and
\* the network delivers what it does not drop.
Fairness ==
    /\ WF_vars(SendSomePacket)
    /\ WF_vars(DeliverSome)
    /\ WF_vars(SendAck)
    /\ WF_vars(DeliverSomeAck)
    /\ WF_vars(SomeAlarm)

FairSpec == Spec /\ Fairness

-----------------------------------------------------------------------------
(* Properties *)

\* The types of both handlers and of the packets in the network.  The handlers stay
\* within their limits: the sender's on the packets it tracks, the skipped packet
\* numbers it remembers and the tail loss probes, the receiver's on its ranges.
TypeOK ==
    /\ pending \subseteq Frame
    /\ snd \in SentPacketHandlers
    /\ NumTracked(snd) <= MaxTrackedSentPackets
    /\ data \subseteq Data
    /\ rcv \in ReceivedPacketHandlers
    /\ received \subseteq 1..MaxPacketNumber
    /\ delivered \subseteq Frame
    /\ \A a \in acks : a.PacketNumber \in 1..numAcks /\ a.ack.acked \subseteq 1..a.ack.LargestAcked
    /\ numAcks \in 0..MaxAckPackets
    /\ losses \in 0..MaxLosses
    /\ closed \in BOOLEAN

Tracked(h) == UNION {p.Frames : p \in h.packetHistory \cup h.retransmissionQueue}

\* Reliability: a frame the sender stopped tracking has arrived.  Whatever is lost,
\* reordered, declared lost too early, acknowledged twice or no longer acknowledged
\* because of a STOP_WAITING, no frame falls between the stream framer, the packet
\* history and the retransmission queue.
NoFrameForgotten ==
    Frame \ {PingFrame} \subseteq pending \cup Tracked(snd) \cup delivered

\* An ACK reports only packets that arrived: LargestAcked is taken from
\* largestObserved and the ranges from the history, and neither a STOP_WAITING nor a
\* late packet makes the two disagree (GetAckFrame, AcksPacket).
AcksAreHonest == \A a \in acks : a.ack.acked \subseteq received /\ a.ack.LargestAcked \in a.ack.acked

\* When GetAckFrame may be called with effect, or GetClosePathFrame after a first
\* packet, there is a range to report: ackRanges[len(ackRanges)-1] does not panic, and
\* the highest range ends at largestObserved, so determineNewlyAckedPackets of the
\* peer never runs into its BUG error.
AckHasRanges ==
    ~ closed /\ rcv.largestObserved > 0 =>
        /\ rcv.ranges # <<>>
        /\ GetHighestAckRange(rcv.ranges).Last = rcv.largestObserved

\* No ACK of an honest peer ends the session, however late it arrives: it never
\* acknowledges a packet that was not sent or a number that was skipped.
NoHonestAckIsFatal ==
    ~ closed => \A a \in acks : ~ AckIsFatal(snd, a.ack, a.PacketNumber)

\* bytesInFlight, which the congestion controller is given, is the size of the
\* packets in the history through every ACK, loss, probe and RTO; it is unsigned in
\* the code, so one subtraction too many would make it huge.
BytesInFlightExact == snd.bytesInFlight = TotalLength(snd.packetHistory)

\* As long as a packet is outstanding the loss detection alarm is set: a path that
\* waits for an ACK that never comes wakes up.
AlarmCoversHistory == snd.packetHistory # {} => snd.alarm

\* The sender announced, in a packet that arrived, that it does not wait for n.
StopWaitingArrived(n) ==
    \E m \in data : m.PacketNumber \in received /\ n < m.LeastUnacked

\* A packet that deserves an ACK gets one: it was reported in an ACK, a STOP_WAITING
\* excused it, or an ACK is queued or its alarm set (maybeQueueAck).
AckIsDue ==
    ~ closed =>
    \A m \in data :
        /\ m.PacketNumber \in received
        /\ m.Frames # {}
        => \/ AckDue(rcv)
           \/ \E a \in acks : m.PacketNumber \in a.ack.acked
           \/ StopWaitingArrived(m.PacketNumber)

\* A STOP_WAITING never names a packet after its own: StopWaitingFrame.Write returns
\* an error then, which ends the session.
StopWaitingFitsItsPacket == \A m \in data : m.LeastUnacked <= m.PacketNumber

\* The sender's LargestAcked never goes back, although it is assigned from the ACK
\* without a comparison: detectLostPackets judges by it.
LargestAckedMonotone == [][snd'.LargestAcked >= snd.LargestAcked]_vars

\* If the network drops a bounded number of packets, every frame arrives.
EverythingArrives == <>(Frame \ {PingFrame} \subseteq delivered)

\* ... and the sender learns it: nothing stays outstanding.
EverythingAcknowledged == <>[](snd.packetHistory = {} /\ snd.retransmissionQueue = {})
=============================================================================

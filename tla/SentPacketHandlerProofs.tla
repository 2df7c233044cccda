---------------------- MODULE SentPacketHandlerProofs -----------------------
(***************************************************************************)
(* What the methods of a sentPacketHandler do to the packets it tracks:    *)
(* which they add, move between the history and the queue, and remove.     *)
(***************************************************************************)
EXTENDS SentPacketHandler, TLAPS

\* All the proofs need of the type of a handler.
IsHandler(h) == {"packetHistory", "retransmissionQueue"} \subseteq DOMAIN h

Tracks(h) == h.packetHistory \cup h.retransmissionQueue

\* SentPacket adds the packet if it has frames to retransmit.
LEMMA SentPacketTracks ==
    ASSUME NEW h, NEW p, IsHandler(h)
    PROVE  /\ IsHandler(SentPacket(h, p))
           /\ Tracks(SentPacket(h, p)) = Tracks(h) \cup IF p.Frames # {} THEN {p} ELSE {}
<1> DEFINE g == [h EXCEPT !.skippedPackets = Newest(@ \cup Skipped(h, p.PacketNumber)),
                          !.lastSentPacketNumber = p.PacketNumber,
                          !.bytesInFlight = IF p.Frames # {} THEN @ + Length(p) ELSE @,
                          !.packetHistory = IF p.Frames # {} THEN @ \cup {p} ELSE @,
                          !.numNonRetransmittablePackets = IF p.Frames # {} THEN 0 ELSE @ + 1]
<1>1. /\ DOMAIN g = DOMAIN h
      /\ g.packetHistory = IF p.Frames # {} THEN h.packetHistory \cup {p} ELSE h.packetHistory
      /\ g.retransmissionQueue = h.retransmissionQueue
  BY DEF IsHandler
<1>2. SentPacket(h, p) = [g EXCEPT !.alarm = g.packetHistory # {}]
  BY DEF SentPacket, updateLossDetectionAlarm
<1> HIDE DEF g
<1> QED BY <1>1, <1>2 DEF IsHandler, Tracks

\* A method that moves packets from the history to the queue still tracks them all.
LEMMA queueForRetransmissionTracks ==
    ASSUME NEW h, NEW P, IsHandler(h), P \subseteq h.packetHistory
    PROVE  /\ IsHandler(queueForRetransmission(h, P))
           /\ Tracks(queueForRetransmission(h, P)) = Tracks(h)
<1> DEFINE a == h.bytesInFlight - TotalLength(P)
           b == Max({h.nextLeastUnacked} \cup {After(n) : n \in PacketNumbers(P)})
<1>1. queueForRetransmission(h, P) =
        [h EXCEPT !.bytesInFlight = a,
                  !.packetHistory = h.packetHistory \ P,
                  !.retransmissionQueue = h.retransmissionQueue \cup P,
                  !.nextLeastUnacked = b]
  BY DEF queueForRetransmission
<1> HIDE DEF a, b
<1> QED BY <1>1 DEF IsHandler, Tracks

\* The alarm is no packet.
LEMMA updateLossDetectionAlarmTracks ==
    ASSUME NEW h, IsHandler(h)
    PROVE  /\ IsHandler(updateLossDetectionAlarm(h))
           /\ Tracks(updateLossDetectionAlarm(h)) = Tracks(h)
  BY DEF updateLossDetectionAlarm, IsHandler, Tracks

\* A lost packet moves from the history to the queue.
LEMMA detectLostPacketsTracks ==
    ASSUME NEW h, NEW k, IsHandler(h)
    PROVE  /\ IsHandler(detectLostPackets(h, k))
           /\ Tracks(detectLostPackets(h, k)) = Tracks(h)
<1> DEFINE candidates == {p \in h.packetHistory : p.PacketNumber <= h.LargestAcked}
           lost == {p \in candidates : p.PacketNumber <= k}
           b == candidates # lost
<1>1. lost \subseteq h.packetHistory
  OBVIOUS
<1>2. detectLostPackets(h, k) = [queueForRetransmission(h, lost) EXCEPT !.lossTime = b]
  BY DEF detectLostPackets
<1> HIDE DEF lost, b
<1>3. /\ IsHandler(queueForRetransmission(h, lost))
      /\ Tracks(queueForRetransmission(h, lost)) = Tracks(h)
  BY <1>1, queueForRetransmissionTracks
<1> DEFINE g == queueForRetransmission(h, lost)
<1> HIDE DEF g
<1>4. /\ IsHandler([g EXCEPT !.lossTime = b])
      /\ Tracks([g EXCEPT !.lossTime = b]) = Tracks(g)
  <2>1. IsHandler(g)
    BY <1>3 DEF g
  <2> QED BY <2>1 DEF IsHandler, Tracks
<1> QED BY <1>2, <1>3, <1>4 DEF g

\* Forgetting skipped numbers touches no packet.
LEMMA garbageCollectSkippedPacketsTracks ==
    ASSUME NEW h, IsHandler(h)
    PROVE  /\ IsHandler(garbageCollectSkippedPackets(h))
           /\ Tracks(garbageCollectSkippedPackets(h)) = Tracks(h)
<1> DEFINE b == {n \in h.skippedPackets : n > largestInOrderAcked(h)}
<1>1. garbageCollectSkippedPackets(h) = [h EXCEPT !.skippedPackets = b]
  BY DEF garbageCollectSkippedPackets
<1> HIDE DEF b
<1> QED BY <1>1 DEF IsHandler, Tracks

\* An acknowledged packet is dropped from the history, and nothing else is.
LEMMA onPacketsAckedTracks ==
    ASSUME NEW h, NEW P, IsHandler(h)
    PROVE  /\ IsHandler(onPacketsAcked(h, P))
           /\ Tracks(onPacketsAcked(h, P)) \subseteq Tracks(h)
           /\ Tracks(h) \subseteq Tracks(onPacketsAcked(h, P)) \cup P
           /\ onPacketsAcked(h, P).retransmissionQueue = h.retransmissionQueue
<1> DEFINE a == h.bytesInFlight - TotalLength(P)
           b == IF P # {} THEN 0 ELSE h.tlpCount
<1>1. onPacketsAcked(h, P) =
        [h EXCEPT !.bytesInFlight = a, !.packetHistory = h.packetHistory \ P, !.tlpCount = b]
  BY DEF onPacketsAcked
<1> HIDE DEF a, b
<1> QED BY <1>1 DEF IsHandler, Tracks

\* Only packets named by the ACK are dropped.
LEMMA ReceivedAckTracks ==
    ASSUME NEW h, NEW ack, NEW n, NEW k, IsHandler(h)
    PROVE  /\ IsHandler(ReceivedAck(h, ack, n, k))
           /\ Tracks(ReceivedAck(h, ack, n, k)) \subseteq Tracks(h)
           /\ \A p \in Tracks(h) : \/ p \in Tracks(ReceivedAck(h, ack, n, k))
                                   \/ p.PacketNumber \in ack.acked
<1> DEFINE seen == [h EXCEPT !.largestReceivedPacketWithAck = n]
           larger == [seen EXCEPT !.LargestAcked = ack.LargestAcked]
           P == NewlyAckedPackets(h, ack)
           rtt == maybeUpdateRTT(larger, ack)
           acked == onPacketsAcked(rtt, P)
           lost == detectLostPackets(acked, k)
           detected == updateLossDetectionAlarm(lost)
           collected == garbageCollectSkippedPackets(detected)
           waited == stopWaitingReceivedAck(collected, ack)
<1>1. IsHandler(seen) /\ Tracks(seen) = Tracks(h)
  BY DEF IsHandler, Tracks
<1>2. IsHandler(larger) /\ Tracks(larger) = Tracks(h)
  BY DEF IsHandler, Tracks
<1>3. ReceivedAck(h, ack, n, k) \in {h, seen, larger, waited}
  BY DEF ReceivedAck
<1> HIDE DEF larger
<1>4. IsHandler(rtt) /\ Tracks(rtt) = Tracks(h)
  <2> DEFINE b == larger.hasRTT \/ ack.LargestAcked \in PacketNumbers(larger.packetHistory)
  <2>1. rtt = [larger EXCEPT !.hasRTT = b]
    BY DEF maybeUpdateRTT
  <2> HIDE DEF b
  <2> QED BY <1>2, <2>1 DEF IsHandler, Tracks
<1> HIDE DEF rtt
<1>5. /\ IsHandler(acked)
      /\ Tracks(acked) \subseteq Tracks(h)
      /\ Tracks(h) \subseteq Tracks(acked) \cup P
  BY <1>4, onPacketsAckedTracks
<1> HIDE DEF acked
<1>6. IsHandler(lost) /\ Tracks(lost) = Tracks(acked)
  BY <1>5, detectLostPacketsTracks
<1> HIDE DEF lost
<1>7. IsHandler(detected) /\ Tracks(detected) = Tracks(acked)
  BY <1>6, updateLossDetectionAlarmTracks
<1> HIDE DEF detected
<1>8. IsHandler(collected) /\ Tracks(collected) = Tracks(acked)
  BY <1>7, garbageCollectSkippedPacketsTracks
<1> HIDE DEF collected
<1>9. IsHandler(waited) /\ Tracks(waited) = Tracks(acked)
  <2> DEFINE b == IF ack.LargestAcked >= collected.nextLeastUnacked
                  THEN After(ack.LargestAcked) ELSE collected.nextLeastUnacked
  <2>1. waited = [collected EXCEPT !.nextLeastUnacked = b]
    BY DEF stopWaitingReceivedAck
  <2> HIDE DEF b
  <2> QED BY <1>8, <2>1 DEF IsHandler, Tracks
<1>10. \A p \in P : p.PacketNumber \in ack.acked
  BY DEF NewlyAckedPackets
<1> HIDE DEF seen, P, waited
<1> QED BY <1>1, <1>2, <1>3, <1>5, <1>9, <1>10

\* So it is with a CLOSE_PATH.
LEMMA ReceivedClosePathTracks ==
    ASSUME NEW h, NEW cpf, NEW n, IsHandler(h)
    PROVE  /\ IsHandler(ReceivedClosePath(h, cpf, n))
           /\ Tracks(ReceivedClosePath(h, cpf, n)) \subseteq Tracks(h)
           /\ \A p \in Tracks(h) : \/ p \in Tracks(ReceivedClosePath(h, cpf, n))
                                   \/ p.PacketNumber \in cpf.acked
<1> DEFINE seen == [h EXCEPT !.largestReceivedPacketWithAck = n]
           P == NewlyAckedPackets(h, cpf)
           acked == onPacketsAcked(seen, P)
           S == {p \in acked.packetHistory : p.PacketNumber <= acked.LargestAcked}
           lost == queueForRetransmission(acked, S)
           collected == garbageCollectSkippedPackets(lost)
<1>1. IsHandler(seen) /\ Tracks(seen) = Tracks(h)
  BY DEF IsHandler, Tracks
<1>2. ReceivedClosePath(h, cpf, n) \in {h, seen, collected}
  BY DEF ReceivedClosePath, SetInflightAsLost
<1> HIDE DEF seen
<1>3. /\ IsHandler(acked)
      /\ Tracks(acked) \subseteq Tracks(h)
      /\ Tracks(h) \subseteq Tracks(acked) \cup P
  BY <1>1, onPacketsAckedTracks
<1> HIDE DEF acked
<1>4. S \subseteq acked.packetHistory
  OBVIOUS
<1> HIDE DEF S
<1>5. IsHandler(lost) /\ Tracks(lost) = Tracks(acked)
  BY <1>3, <1>4, queueForRetransmissionTracks
<1> HIDE DEF lost
<1>6. IsHandler(collected) /\ Tracks(collected) = Tracks(acked)
  BY <1>5, garbageCollectSkippedPacketsTracks
<1>7. \A p \in P : p.PacketNumber \in cpf.acked
  BY DEF NewlyAckedPackets
<1> HIDE DEF P, collected
<1> QED BY <1>1, <1>2, <1>3, <1>6, <1>7

\* The timer moves packets to the queue, whichever branch it takes.
LEMMA OnAlarmTracks ==
    ASSUME NEW h, NEW k, NEW failed, IsHandler(h)
    PROVE  /\ IsHandler(OnAlarm(h, k, failed))
           /\ Tracks(OnAlarm(h, k, failed)) = Tracks(h)
<1> DEFINE cancelled == [h EXCEPT !.alarm = FALSE]
           detected == detectLostPackets(h, k)
           probe == queueForRetransmission(h, Back(h))
           probed == [probe EXCEPT !.tlpCount = @ + 1]
           some == IF failed THEN h.packetHistory ELSE OldestTwo(h)
           rto == queueForRetransmission(h, some)
<1>1. OnAlarm(h, k, failed) \in {cancelled, updateLossDetectionAlarm(detected),
                                 updateLossDetectionAlarm(probed), updateLossDetectionAlarm(rto)}
  BY DEF OnAlarm
<1>2. IsHandler(cancelled) /\ Tracks(cancelled) = Tracks(h)
  BY DEF IsHandler, Tracks
<1>3. IsHandler(detected) /\ Tracks(detected) = Tracks(h)
  BY detectLostPacketsTracks
<1>4. IsHandler(probe) /\ Tracks(probe) = Tracks(h)
  <2>1. Back(h) \subseteq h.packetHistory
    BY DEF Back
  <2> QED BY <2>1, queueForRetransmissionTracks
<1>5. IsHandler(probed) /\ Tracks(probed) = Tracks(h)
  <2> HIDE DEF probe
  <2> QED BY <1>4 DEF IsHandler, Tracks
<1>6. IsHandler(rto) /\ Tracks(rto) = Tracks(h)
  <2>1. some \subseteq h.packetHistory
    BY DEF OldestTwo
  <2> QED BY <2>1, queueForRetransmissionTracks
<1> HIDE DEF cancelled, detected, probed, rto
<1> QED BY <1>1, <1>2, <1>3, <1>5, <1>6, updateLossDetectionAlarmTracks

\* DuplicatePacket queues a copy of the packet and drops nothing.
LEMMA DuplicatePacketTracks ==
    ASSUME NEW h, NEW p, IsHandler(h)
    PROVE  /\ IsHandler(DuplicatePacket(h, p))
           /\ Tracks(DuplicatePacket(h, p)) = Tracks(h) \cup {[p EXCEPT !.copy = TRUE]}
<1> DEFINE c == [p EXCEPT !.copy = TRUE]
<1>1. DuplicatePacket(h, p) = [h EXCEPT !.retransmissionQueue = h.retransmissionQueue \cup {c}]
  BY DEF DuplicatePacket
<1> HIDE DEF c
<1>2. /\ IsHandler(DuplicatePacket(h, p))
      /\ Tracks(DuplicatePacket(h, p)) = Tracks(h) \cup {c}
  BY <1>1 DEF IsHandler, Tracks
<1> QED BY <1>2 DEF c

\* A STOP_WAITING frame touches no packet.
LEMMA GetStopWaitingFrameTracks ==
    ASSUME NEW h, NEW force, IsHandler(h)
    PROVE  /\ IsHandler(GetStopWaitingFrame(h, force))
           /\ Tracks(GetStopWaitingFrame(h, force)) = Tracks(h)
<1> DEFINE a == IF StopWaitingIsNew(h) THEN h.nextLeastUnacked ELSE h.largestLeastUnackedSent
           b == IF StopWaitingIsNew(h) \/ StopWaitingIsRemade(h, force)
                THEN h.nextLeastUnacked ELSE h.lastStopWaitingFrame
<1>1. GetStopWaitingFrame(h, force) =
        [h EXCEPT !.largestLeastUnackedSent = a, !.lastStopWaitingFrame = b]
  BY DEF GetStopWaitingFrame
<1> HIDE DEF a, b
<1> QED BY <1>1 DEF IsHandler, Tracks

\* Only packets with a number of N are removed.
LEMMA RemovePacketsByNumberTracks ==
    ASSUME NEW h, NEW N, IsHandler(h)
    PROVE  /\ IsHandler(RemovePacketsByNumber(h, N))
           /\ Tracks(RemovePacketsByNumber(h, N)) \subseteq Tracks(h)
           /\ \A p \in Tracks(h) : \/ p \in Tracks(RemovePacketsByNumber(h, N))
                                   \/ p.PacketNumber \in N
<1> DEFINE P == {p \in h.packetHistory : p.PacketNumber \in N}
           Q == UNION {FirstQueued(h, n) : n \in N \ PacketNumbers(P)}
           g == onPacketsAcked(h, P)
<1>1. RemovePacketsByNumber(h, N) =
        [g EXCEPT !.retransmissionQueue = g.retransmissionQueue \ Q]
  BY DEF RemovePacketsByNumber
<1>2. \A p \in P : p.PacketNumber \in N
  OBVIOUS
<1>3. \A p \in Q : p.PacketNumber \in N
  BY DEF FirstQueued
<1> HIDE DEF P, Q
<1>4. /\ IsHandler(g)
      /\ Tracks(g) \subseteq Tracks(h)
      /\ Tracks(h) \subseteq Tracks(g) \cup P
  BY onPacketsAckedTracks
<1> HIDE DEF g
<1>5. /\ IsHandler(RemovePacketsByNumber(h, N))
      /\ Tracks(RemovePacketsByNumber(h, N)) \subseteq Tracks(g)
      /\ Tracks(g) \subseteq Tracks(RemovePacketsByNumber(h, N)) \cup Q
  BY <1>1, <1>4 DEF IsHandler, Tracks
<1> QED BY <1>2, <1>3, <1>4, <1>5

\* Dequeuing everything leaves the history.
LEMMA DequeueAllTracks ==
    ASSUME NEW h, IsHandler(h)
    PROVE  /\ IsHandler(DequeueAll(h))
           /\ Tracks(DequeueAll(h)) = h.packetHistory
  BY DEF IsHandler, Tracks, DequeueAll
=============================================================================

-------------------------- MODULE SchedulerProofs ---------------------------
(***************************************************************************)
(* No frame is forgotten by the scheduler of a server, for any number of   *)
(* paths, frames and packets.                                              *)
(***************************************************************************)
EXTENDS SchedulerRoundProofs

-----------------------------------------------------------------------------
(* The events *)

\* A step that leaves the packets and what arrived alone; control frames may be due.
LEMMA InvSame ==
    ASSUME Inv, Becomes(World), received' = received,
           pending \subseteq pending', pending' \subseteq Frame,
           dupPackets' \subseteq dupPackets, paths' \subseteq Path, closed' = closed,
           handshakeComplete' \/ paths' # {InitialPath} => CryptoArrived(World, received)
    PROVE  Inv'
<1> DEFINE w == World
<1>1. /\ WorldOK(w) /\ ReceivedOK(w, received') /\ pending' \subseteq Frame
      /\ \A e \in dupPackets' : EntryOK(w, e)
      /\ closed' \/ Accounted(w, pending', received')
      /\ handshakeComplete' \/ paths' # {InitialPath} => CryptoArrived(w, received')
      /\ Becomes(w)
  BY DEF Inv, Accounted
<1> HIDE DEF w
<1> QED BY <1>1, InvAfter

\* The events of the run loop only add control frames to those that wait.
LEMMA EventPending ==
    ASSUME Inv, NEW P, pending \subseteq P, P \subseteq Frame, Event(P)
    PROVE  ~ closed /\ pending \subseteq pending' /\ pending' \subseteq Frame
  BY SchedulerAssumption DEF Event, ControlFrame

\* Packets that arrived are acknowledged on path p and their duplicates are dropped on
\* the other paths: all the frames that are no longer tracked have arrived.
LEMMA CrossAckInv ==
    ASSUME Inv, ~ closed, NEW p \in Path, NEW A \in SUBSET received[p], NEW h, IsHandler(h),
           Tracks(h) \subseteq Tracks(sph[p]),
           \A j \in Tracks(sph[p]) : j \in Tracks(h) \/ j.PacketNumber \in A,
           NEW P, PacketNumbers(P) \subseteq A,
           crossAckHandling([sph EXCEPT ![p] = h], p, P),
           pending \subseteq pending', pending' \subseteq Frame,
           UNCHANGED <<paths, handshakeComplete, next, sent, departed, received>>
    PROVE  Inv'
<1> DEFINE keys == {[path |-> p, PacketNumber |-> n] : n \in PacketNumbers(P)}
           entries == {e.entry : e \in {d \in dupPackets : d.key \in keys}}
           N(q) == PacketNumbers({d \in entries : d.path = q})
           S == [sph EXCEPT ![p] = h]
           w == [sph |-> sph', next |-> next, sent |-> sent, departed |-> departed]
<1>1. /\ sph' = [q \in Path |-> RemovePacketsByNumber(S[q], N(q))]
      /\ dupPackets' \subseteq dupPackets
  BY DEF crossAckHandling
<1>2. /\ WorldOK(World) /\ ReceivedOK(World, received) /\ Accounted(World, pending, received)
      /\ \A e \in dupPackets : EntryOK(World, e)
      /\ World.sph = sph /\ World.next = next /\ World.sent = sent /\ World.departed = departed
  BY DEF Inv, World
<1>3. w.sph = sph' /\ w.next = next /\ w.sent = sent /\ w.departed = departed
  OBVIOUS
<1>4. ASSUME NEW q \in Path, NEW n \in N(q)
      PROVE  \E m \in received[p] : sent[q][n] \subseteq sent[p][m]
  <2>1. PICK e \in dupPackets : e.key \in keys /\ e.entry.path = q /\ e.entry.PacketNumber = n
    BY DEF PacketNumbers
  <2>2. PICK m \in PacketNumbers(P) : e.key = [path |-> p, PacketNumber |-> m]
    BY <2>1
  <2>3. m \in received[p] /\ e.key.path = p /\ e.key.PacketNumber = m
    BY <2>2, SMTT(30)
  <2>4. m \in departed[p]
    BY <1>2, <2>3 DEF ReceivedOK
  <2>5. EntryOK(World, e)
    BY <1>2
  <2>6. sent[q][n] \subseteq sent[p][m]
    BY <1>2, <2>1, <2>3, <2>4, <2>5 DEF EntryOK
  <2> QED BY <2>3, <2>6
<1> HIDE DEF w, keys, entries, N
<1>5. ASSUME NEW q \in Path
      PROVE  /\ IsHandler(sph'[q])
             /\ Tracks(sph'[q]) \subseteq Tracks(sph[q])
             /\ \A j \in Tracks(sph[q]) : \/ j \in Tracks(sph'[q])
                                          \/ j.PacketNumber \in N(q)
                                          \/ q = p /\ j.PacketNumber \in A
  <2>1. /\ IsHandler(S[q])
        /\ Tracks(S[q]) \subseteq Tracks(sph[q])
        /\ \A j \in Tracks(sph[q]) : j \in Tracks(S[q]) \/ (q = p /\ j.PacketNumber \in A)
    <3>1. DOMAIN sph = Path /\ IsHandler(sph[q])
      BY <1>2 DEF WorldOK
    <3>2. S[q] = IF q = p THEN h ELSE sph[q]
      BY <3>1
    <3> QED BY <3>1, <3>2
  <2>2. sph'[q] = RemovePacketsByNumber(S[q], N(q))
    BY <1>1
  <2> DEFINE g == S[q]
  <2> HIDE DEF g
  <2>3. /\ IsHandler(RemovePacketsByNumber(g, N(q)))
        /\ Tracks(RemovePacketsByNumber(g, N(q))) \subseteq Tracks(g)
        /\ \A j \in Tracks(g) : \/ j \in Tracks(RemovePacketsByNumber(g, N(q)))
                                \/ j.PacketNumber \in N(q)
    BY <2>1, RemovePacketsByNumberTracks DEF g
  <2> HIDE DEF S
  <2> QED BY <2>1, <2>2, <2>3 DEF g
<1>6. DOMAIN sph' = Path
  BY <1>1
<1> HIDE DEF S
<1>7. WorldOK(w)
  <2>1. ASSUME NEW q \in Path, NEW j \in Tracks(w.sph[q]) PROVE Fits(w, q, j)
    <3>1. Fits(World, q, j)
      BY <1>2, <1>3, <1>5 DEF WorldOK
    <3> QED BY <1>2, <1>3, <3>1 DEF Fits
  <2> QED BY <1>2, <1>3, <1>5, <1>6, <2>1 DEF WorldOK
<1>8. \A f : Arrived(World, received, f) => Arrived(w, received, f)
  BY <1>2, <1>3 DEF Arrived
<1>9. ReceivedOK(w, received')
  BY <1>2, <1>3 DEF ReceivedOK
<1>10. \A e \in dupPackets' : EntryOK(w, e)
  BY <1>1, <1>2, <1>3 DEF EntryOK
<1>11. ASSUME NEW f, TrackedIn(World, f) PROVE TrackedIn(w, f) \/ Arrived(w, received, f)
  <2>1. PICK q \in Path : \E j \in Tracks(sph[q]) : f \in j.Frames
    BY <1>2, <1>11 DEF TrackedIn
  <2>2. PICK j \in Tracks(sph[q]) : f \in j.Frames
    BY <2>1
  <2>3. f \in sent[q][j.PacketNumber]
    BY <1>2, <2>2 DEF WorldOK, Fits
  <2>4. CASE j \in Tracks(sph'[q])
    BY <1>3, <2>2, <2>4 DEF TrackedIn
  <2>5. CASE j.PacketNumber \in N(q)
    BY <1>3, <1>4, <2>3, <2>5 DEF Arrived
  <2>6. CASE q = p /\ j.PacketNumber \in A
    BY <1>3, <2>3, <2>6 DEF Arrived
  <2> QED BY <1>5, <2>4, <2>5, <2>6
<1>12. Accounted(w, pending', received')
  BY <1>2, <1>8, <1>11 DEF Accounted
<1>13. handshakeComplete' \/ paths' # {InitialPath} => CryptoArrived(w, received')
  BY <1>8 DEF Inv, CryptoArrived
<1>14. Becomes(w) /\ paths' \subseteq Path
  BY <1>3 DEF Becomes, Inv
<1> QED BY <1>7, <1>9, <1>10, <1>12, <1>13, <1>14, InvAfter

\* handleAckFrame.
LEMMA ReceiveAckInv ==
    ASSUME Inv, NEW p \in Path, ReceiveAck(p)
    PROVE  Inv'
<1>1. /\ UNCHANGED <<paths, handshakeComplete, next, sent, departed, received>>
      /\ ~ closed /\ pending \subseteq pending' /\ pending' \subseteq Frame
  BY EventPending DEF ReceiveAck, keyVars, Inv
<1> DEFINE n == sph[p].largestReceivedPacketWithAck + 1
<1>2. PICK A \in SUBSET received[p], k \in 0..next[p] - 1 :
         crossAckHandling([sph EXCEPT ![p] = ReceivedAck(@, Ack(A), n, k)], p,
                          AckedBy(sph[p], Ack(A), n))
  BY DEF ReceiveAck
<1> DEFINE h == ReceivedAck(sph[p], Ack(A), n, k)
           P == AckedBy(sph[p], Ack(A), n)
<1>3. PacketNumbers(P) \subseteq A
  BY DEF AckedBy, NewlyAckedPackets, PacketNumbers, Ack
<1>4. IsHandler(sph[p])
  BY DEF Inv, WorldOK, World
<1> HIDE DEF n
<1>5. /\ IsHandler(h)
      /\ Tracks(h) \subseteq Tracks(sph[p])
      /\ \A j \in Tracks(sph[p]) : j \in Tracks(h) \/ j.PacketNumber \in Ack(A).acked
  BY <1>4, ReceivedAckTracks
<1>6. crossAckHandling([sph EXCEPT ![p] = h], p, P)
  BY <1>2
<1>7. Ack(A).acked = A
  BY DEF Ack
<1> HIDE DEF h, P
<1> QED BY <1>1, <1>3, <1>5, <1>6, <1>7, CrossAckInv

\* handleClosePathFrame.
LEMMA ReceiveClosePathInv ==
    ASSUME Inv, NEW p \in Path, ReceiveClosePath(p)
    PROVE  Inv'
<1>1. /\ UNCHANGED <<paths, handshakeComplete, next, sent, departed, received>>
      /\ ~ closed /\ pending \subseteq pending' /\ pending' \subseteq Frame
  BY EventPending DEF ReceiveClosePath, keyVars, Inv
<1>2. PICK A \in SUBSET received[p], n \in {0, 1} :
         crossAckHandling([sph EXCEPT ![p] = ReceivedClosePath(@, Ack(A),
                                                 sph[p].largestReceivedPacketWithAck + n)], p,
                          AckedByClosePath(sph[p], Ack(A), sph[p].largestReceivedPacketWithAck + n))
  BY DEF ReceiveClosePath
<1> DEFINE last == sph[p].largestReceivedPacketWithAck + n
           h == ReceivedClosePath(sph[p], Ack(A), last)
           P == AckedByClosePath(sph[p], Ack(A), last)
<1>3. PacketNumbers(P) \subseteq A
  BY DEF AckedByClosePath, NewlyAckedPackets, PacketNumbers, Ack
<1>4. IsHandler(sph[p])
  BY DEF Inv, WorldOK, World
<1> HIDE DEF last
<1>5. /\ IsHandler(h)
      /\ Tracks(h) \subseteq Tracks(sph[p])
      /\ \A j \in Tracks(sph[p]) : j \in Tracks(h) \/ j.PacketNumber \in Ack(A).acked
  BY <1>4, ReceivedClosePathTracks
<1>6. crossAckHandling([sph EXCEPT ![p] = h], p, P)
  BY <1>2 DEF last
<1>7. Ack(A).acked = A
  BY DEF Ack
<1> HIDE DEF h, P
<1> QED BY <1>1, <1>3, <1>5, <1>6, <1>7, CrossAckInv

\* The run loop calls OnAlarm.
LEMMA PathTimerInv ==
    ASSUME Inv, NEW p \in Path, PathTimer(p)
    PROVE  Inv'
<1>1. UNCHANGED <<paths, handshakeComplete, next, sent, departed, received, dupPackets, closed>>
  BY DEF PathTimer, keyVars
<1>2. PICK k \in 0..next[p] - 1, failed \in BOOLEAN :
         /\ sph' = [sph EXCEPT ![p] = OnAlarm(@, k, failed)]
         /\ Event(IF failed THEN pending \cup PathsFrame ELSE pending)
  BY DEF PathTimer
<1> DEFINE P == IF failed THEN pending \cup PathsFrame ELSE pending
<1>3. ~ closed /\ pending \subseteq pending' /\ pending' \subseteq Frame
  <2>1. pending \subseteq P /\ P \subseteq Frame
    BY SchedulerAssumption DEF Inv, ControlFrame
  <2>2. Event(P)
    BY <1>2
  <2> HIDE DEF P
  <2> QED BY <2>1, <2>2, EventPending
<1> DEFINE h == OnAlarm(sph[p], k, failed)
           w == WithHandler(World, p, h)
<1>4. /\ WorldOK(World) /\ ReceivedOK(World, received)
      /\ \A e \in dupPackets : EntryOK(World, e)
      /\ handshakeComplete \/ paths # {InitialPath} => CryptoArrived(World, received)
      /\ World.sph = sph /\ World.next = next /\ World.sent = sent /\ World.departed = departed
      /\ paths' \subseteq Path
      /\ Accounted(World, pending', received)
  BY <1>1, <1>3 DEF Inv, World, Accounted
<1>5. DOMAIN sph = Path /\ IsHandler(sph[p]) /\ \A j \in Tracks(sph[p]) : Fits(World, p, j)
  BY <1>4 DEF WorldOK
<1>6. IsHandler(h) /\ Tracks(h) = Tracks(sph[p])
  BY <1>5, OnAlarmTracks
<1>7. sph' = [sph EXCEPT ![p] = h]
  BY <1>2
<1> HIDE DEF h
<1>8. Becomes(w)
  BY <1>1, <1>4, <1>5, <1>7 DEF Becomes, WithHandler, WithHandlers
<1>9. WorldOK(w) /\ Extends(World, w)
  BY <1>4, <1>5, <1>6, WithHandlerOK
<1> HIDE DEF w
<1> QED BY <1>1, <1>3, <1>4, <1>8, <1>9, InvAfterSending

\* createPath sends a PING on the new path.
LEMMA CreatePathInv ==
    ASSUME Inv, NEW p \in Path, CreatePath(p)
    PROVE  Inv'
<1> DEFINE w == sendOnAll(World, {p}, {PingFrame}, level)
<1>1. /\ UNCHANGED <<handshakeComplete, pending, received, dupPackets, closed>>
      /\ ~ closed /\ handshakeComplete /\ HasNumber(World, p)
      /\ Becomes(w)
      /\ paths' = paths \cup {p}
  BY DEF CreatePath, keyVars, sendPackedPacket
<1>2. /\ WorldOK(World) /\ ReceivedOK(World, received) /\ Accounted(World, pending, received)
      /\ \A e \in dupPackets : EntryOK(World, e)
      /\ CryptoArrived(World, received)
      /\ paths' \subseteq Path /\ pending' \subseteq Frame
  BY <1>1 DEF Inv
<1>3. {p} \in SUBSET Path /\ {PingFrame} \in SUBSET Frame /\ {PingFrame} \subseteq HandshakeFrames
  BY SchedulerAssumption DEF HandshakeFrames, ControlFrame
<1>4. \A q \in {p} : HasNumber(World, q)
  BY <1>1
<1>5. WorldOK(w) /\ Extends(World, w)
  BY <1>2, <1>3, <1>4, SendOnAll
<1> HIDE DEF w
<1> QED BY <1>1, <1>2, <1>5, InvAfterSending

\* The steps that tell the session something and send nothing.
LEMMA QuietStepInv ==
    ASSUME Inv, NEW p \in Path,
           \/ ReceivePacket(p) \/ ReceivePathsFrame(p) \/ CreatePathFromRemote(p) \/ PathRunEnds(p)
           \/ WakeUp \/ CompleteHandshake \/ NewKeys \/ SchedulePathsFrame \/ UNCHANGED vars,
           ~ Client
    PROVE  Inv'
<1>1. /\ UNCHANGED <<sph, next, sent, departed, received, dupPackets, closed>>
      /\ \/ UNCHANGED <<paths, handshakeComplete>>
         \/ paths' \subseteq paths \cup {p} /\ CryptoFrame \subseteq Delivered
  BY DEF ReceivePacket, ReceivePathsFrame, CreatePathFromRemote, PathRunEnds, WakeUp, CompleteHandshake,
         NewKeys, SchedulePathsFrame, vars, worldVars, pathVars, keyVars
<1>2. \/ pending' = pending
      \/ pending' = pending \cup PathsFrame
      \/ Event(pending)
      \/ Event(pending \cup PathsFrame)
  BY DEF ReceivePacket, ReceivePathsFrame, CreatePathFromRemote, PathRunEnds, WakeUp, CompleteHandshake,
         NewKeys, SchedulePathsFrame, vars
<1>3. pending \subseteq pending' /\ pending' \subseteq Frame
  <2>1. pending \subseteq Frame /\ pending \cup PathsFrame \subseteq Frame
    BY SchedulerAssumption DEF Inv, ControlFrame
  <2> QED BY <1>2, <2>1, EventPending
<1>4. Becomes(World)
  BY <1>1 DEF Becomes, World
<1>5. handshakeComplete' \/ paths' # {InitialPath} => CryptoArrived(World, received)
  BY <1>1, CryptoArrivedMeans DEF Inv
<1>6. paths' \subseteq Path /\ dupPackets' \subseteq dupPackets
  BY <1>1 DEF Inv
<1> QED BY <1>1, <1>3, <1>4, <1>5, <1>6, InvSame

\* A packet arrives.
LEMMA ArriveInv ==
    ASSUME Inv, NEW p \in Path, Arrive(p)
    PROVE  Inv'
<1>1. UNCHANGED <<sph, next, sent, departed, paths, handshakeComplete, pending, dupPackets, closed>>
  BY DEF Arrive, pathVars, keyVars, worldVars
<1>2. PICK n \in departed[p] : received' = [received EXCEPT ![p] = @ \cup {n}]
  BY DEF Arrive
<1>3. /\ World.departed = departed /\ Becomes(World)
      /\ WorldOK(World) /\ ReceivedOK(World, received)
      /\ \A e \in dupPackets' : EntryOK(World, e)
      /\ paths' \subseteq Path /\ pending' \subseteq Frame
  BY <1>1 DEF Inv, World, Becomes
<1>4. received \in [Path -> SUBSET PacketNumber] /\ n \in PacketNumber
  BY <1>3 DEF ReceivedOK, WorldOK
<1>5. \A q \in Path : received'[q] = IF q = p THEN received[q] \cup {n} ELSE received[q]
  BY <1>2, <1>4
<1>6. ReceivedOK(World, received')
  <2>1. received' \in [Path -> SUBSET PacketNumber]
    BY <1>2, <1>4
  <2> QED BY <1>2, <1>3, <1>5, <2>1 DEF ReceivedOK
<1>7. \A f : Arrived(World, received, f) => Arrived(World, received', f)
  BY <1>5 DEF Arrived
<1>8. handshakeComplete' \/ paths' # {InitialPath} => CryptoArrived(World, received')
  BY <1>1, <1>7 DEF Inv, CryptoArrived
<1>9. closed' \/ Accounted(World, pending', received')
  BY <1>1, <1>7 DEF Inv, Accounted
<1> DEFINE w == World
<1>10. /\ Becomes(w) /\ WorldOK(w) /\ ReceivedOK(w, received')
       /\ \A e \in dupPackets' : EntryOK(w, e)
       /\ handshakeComplete' \/ paths' # {InitialPath} => CryptoArrived(w, received')
       /\ closed' \/ Accounted(w, pending', received')
  BY <1>3, <1>6, <1>8, <1>9
<1> HIDE DEF w
<1> QED BY <1>3, <1>10, InvAfter

-----------------------------------------------------------------------------
(* The theorems *)

\* Every step of a server keeps the invariant.
LEMMA InvStep ==
    ASSUME ~ Client, Inv, [Next]_vars
    PROVE  Inv'
<1>1. ASSUME NEW p \in Path, PathEvent(p) PROVE Inv'
  BY <1>1, ReceiveAckInv, ReceiveClosePathInv, PathTimerInv, QuietStepInv DEF PathEvent
<1>2. ASSUME NEW p \in Path, Round(p) PROVE Inv'
  BY <1>2, SendPacketInv, SendHandshakePacketInv, EndSendingHandshakeInv DEF Round
<1>3. ASSUME NEW p \in Path, CreatePath(p) \/ PathRunEnds(p) \/ Arrive(p) PROVE Inv'
  BY <1>3, CreatePathInv, QuietStepInv, ArriveInv
<1>4. CASE EndSending
  BY <1>4, EndSendingInv
<1>5. CASE WakeUp \/ CompleteHandshake \/ NewKeys \/ SchedulePathsFrame \/ UNCHANGED vars
  BY <1>5, QuietStepInv, SchedulerAssumption
<1> QED BY <1>1, <1>2, <1>3, <1>4, <1>5 DEF Next

\* The invariant holds in every state of a server, whatever its paths and frames.
THEOREM SchedulerInvariant ==
    ASSUME ~ Client
    PROVE  Spec => []Inv
<1>1. Init => Inv
  BY InvInit
<1>2. Inv /\ [Next]_vars => Inv'
  BY InvStep
<1> QED BY <1>1, <1>2, PTL DEF Spec

\* getRetransmission, sendPacket, crossAckHandling and the loss detection of the paths
\* together forget no stream frame of a server as long as no error closes the session:
\* every one is pending, tracked on some path, or has arrived.
THEOREM SchedulerForgetsNoFrame ==
    ASSUME ~ Client
    PROVE  Spec => []NoFrameForgotten
<1>1. Inv => NoFrameForgotten
  BY InvNoFrameForgotten
<1>2. Spec => []Inv
  BY SchedulerInvariant
<1> QED BY <1>1, <1>2, PTL

\* crossAckHandling drops no packet with a frame that the acknowledged duplicate did not
\* carry.
THEOREM SchedulerDropsOnlyRedundantPackets ==
    ASSUME ~ Client
    PROVE  Spec => []DropsOnlyRedundantPackets
<1>1. Inv => DropsOnlyRedundantPackets
  BY InvDropsOnlyRedundantPackets
<1>2. Spec => []Inv
  BY SchedulerInvariant
<1> QED BY <1>1, <1>2, PTL
=============================================================================

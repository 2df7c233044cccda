------------------------ MODULE SchedulerRoundProofs ------------------------
(***************************************************************************)
(* The rounds of sendPacket keep the invariant, on a server.               *)
(***************************************************************************)
EXTENDS SchedulerInvariantProofs

\* The STOP_WAITING of a round forgets no packet.
LEMMA WithStopWaitingOK ==
    ASSUME WorldOK(Drained), NEW p \in Path, NEW swf
    PROVE  /\ WorldOK(WithStopWaiting(p, swf))
           /\ Extends(Drained, WithStopWaiting(p, swf))
           /\ WithStopWaiting(p, swf).next = Drained.next
<1> DEFINE h == GetStopWaitingFrame(Drained.sph[p], hasStreamRetransmission)
<1>1. IsHandler(Drained.sph[p]) /\ \A k \in Tracks(Drained.sph[p]) : Fits(Drained, p, k)
  BY DEF WorldOK
<1>2. IsHandler(h) /\ Tracks(h) = Tracks(Drained.sph[p])
  BY <1>1, GetStopWaitingFrameTracks
<1>3. WithStopWaiting(p, swf) \in {WithHandler(Drained, p, h), Drained}
  BY DEF WithStopWaiting
<1> HIDE DEF h
<1>4. /\ WorldOK(WithHandler(Drained, p, h))
      /\ Extends(Drained, WithHandler(Drained, p, h))
      /\ WithHandler(Drained, p, h).next = Drained.next
  BY <1>1, <1>2, WithHandlerOK, SMTT(30)
<1>5. Extends(Drained, Drained)
  <2>1. \A q \in Path : Drained.next[q] \in Nat
    BY DEF WorldOK
  <2> QED BY <2>1, SMTT(30) DEF Extends
<1> QED BY <1>3, <1>4, <1>5

\* The STOP_WAITINGs of ackRemainingPaths forget no packet.
LEMMA WithStopWaitingsOK ==
    ASSUME NEW w, WorldOK(w), NEW S
    PROVE  /\ WorldOK(WithStopWaitings(w, S))
           /\ Extends(w, WithStopWaitings(w, S))
           /\ WithStopWaitings(w, S).next = w.next
<1> DEFINE H == [p \in Path |-> IF p \in S THEN GetStopWaitingFrame(w.sph[p], FALSE) ELSE w.sph[p]]
<1>1. DOMAIN H = Path
  OBVIOUS
<1>2. ASSUME NEW p \in Path
      PROVE  /\ IsHandler(H[p])
             /\ Tracks(H[p]) = Tracks(w.sph[p])
             /\ \A k \in Tracks(H[p]) : Fits(w, p, k)
  <2>1. IsHandler(w.sph[p]) /\ \A k \in Tracks(w.sph[p]) : Fits(w, p, k)
    BY DEF WorldOK
  <2> DEFINE g == GetStopWaitingFrame(w.sph[p], FALSE)
  <2>2. IsHandler(g) /\ Tracks(g) = Tracks(w.sph[p])
    BY <2>1, GetStopWaitingFrameTracks
  <2>3. H[p] = IF p \in S THEN g ELSE w.sph[p]
    OBVIOUS
  <2> HIDE DEF g, H
  <2> QED BY <2>1, <2>2, <2>3
<1>3. WithStopWaitings(w, S) = WithHandlers(w, H)
  BY DEF WithStopWaitings
<1>4. WithHandlers(w, H).next = w.next
  BY DEF WithHandlers
<1> HIDE DEF H
<1> QED BY <1>1, <1>2, <1>3, <1>4, WithHandlersOK

\* A server packs data only into forward-secure packets.
LEMMA LevelOfPackable ==
    ASSUME ~ Client, NEW all, NEW F \in SUBSET Packable(all)
    PROVE  /\ F \subseteq all
           /\ LevelOf(F) # "forwardSecure" => F \subseteq HandshakeFrames
           /\ level # "forwardSecure" => F \subseteq HandshakeFrames
<1>1. Packable(all) = IF all \cap CryptoFrame # {} THEN all \cap CryptoFrame
                      ELSE IF canSendData THEN all ELSE all \cap ControlFrame
  BY DEF Packable
<1>2. canSendData <=> level = "forwardSecure"
  BY DEF canSendData
<1> QED BY <1>1, <1>2 DEF LevelOf, HandshakeFrames

\* The frames of ackRemainingPaths' packets.
LEMMA LevelOfWindowUpdatePackets ==
    ASSUME ~ Client, NEW B, NEW all, NEW W, NEW G \in WindowUpdatePackets(B, all, W), NEW p \in B
    PROVE  /\ G[p] \subseteq all \cup W
           /\ LevelOf(G[p]) # "forwardSecure" => G[p] \subseteq HandshakeFrames
<1>1. /\ G[p] \subseteq all \cup W
      /\ \/ G[p] \subseteq CryptoFrame
         \/ G[p] \subseteq IF canSendData THEN Frame \ CryptoFrame ELSE ControlFrame
  BY DEF WindowUpdatePackets
<1>2. canSendData <=> level = "forwardSecure"
  BY DEF canSendData
<1> QED BY <1>1, <1>2 DEF LevelOf, HandshakeFrames

\* ackRemainingPaths keeps the invariant when nothing was forgotten before it.
LEMMA AckRemainingPathsInv ==
    ASSUME ~ Client, paths \subseteq Path,
           NEW w, WorldOK(w),
           ReceivedOK(w, received),
           \A e \in dupPackets : EntryOK(w, e),
           handshakeComplete \/ paths # {InitialPath} => CryptoArrived(w, received),
           NEW all \in SUBSET Frame, Accounted(w, all, received),
           AckRemainingPaths(w, all)
    PROVE  Inv'
<1>1. PICK A \in SUBSET paths, W \in SUBSET WindowUpdateFrame :
         LET B == IF W = {} THEN {} ELSE paths \ (A \cup {InitialPath})
             v == WithStopWaitings(w, A \cup B)
         IN  /\ \A p \in A \cup B : HasNumber(w, p)
             /\ \E G \in WindowUpdatePackets(B, all, W), stay \in {{}, W} :
                   LET F == [p \in A \cup B |-> IF p \in B THEN G[p] ELSE {}]
                   IN  /\ Becomes(sendEach(v, A \cup B, F, [p \in A \cup B |-> LevelOf(F[p])]))
                       /\ pending' = (all \ UNION {G[p] : p \in B}) \cup stay
             /\ closed' = \E p \in A \cup B : Refused(v, p)
             /\ UNCHANGED <<pathVars, keyVars, dupPackets, received>>
  BY DEF AckRemainingPaths
<1> DEFINE B == IF W = {} THEN {} ELSE paths \ (A \cup {InitialPath})
           R == A \cup B
           v == WithStopWaitings(w, R)
<1>2. PICK G \in WindowUpdatePackets(B, all, W), stay \in {{}, W} :
         LET F == [p \in R |-> IF p \in B THEN G[p] ELSE {}]
         IN  /\ Becomes(sendEach(v, R, F, [p \in R |-> LevelOf(F[p])]))
             /\ pending' = (all \ UNION {G[p] : p \in B}) \cup stay
  BY <1>1
<1>3. /\ \A p \in R : HasNumber(w, p)
      /\ closed' = \E p \in R : Refused(v, p)
      /\ UNCHANGED <<pathVars, keyVars, dupPackets, received>>
  BY <1>1
<1> DEFINE F == [p \in R |-> IF p \in B THEN G[p] ELSE {}]
           lvl == [p \in R |-> LevelOf(F[p])]
           x == sendEach(v, R, F, lvl)
<1>4. Becomes(x) /\ pending' = (all \ UNION {G[p] : p \in B}) \cup stay
  BY <1>2
<1>5. WorldOK(v) /\ Extends(w, v) /\ v.next = w.next
  BY WithStopWaitingsOK
<1>6. R \in SUBSET Path /\ B \subseteq R
  OBVIOUS
<1>7. WindowUpdateFrame \subseteq Frame
  BY SchedulerAssumption DEF ControlFrame
<1>8. \A p \in R : F[p] = (IF p \in B THEN G[p] ELSE {}) /\ lvl[p] = LevelOf(F[p])
  OBVIOUS
<1> HIDE DEF B, R, v, F, lvl
<1>9. ASSUME NEW p \in R
      PROVE  F[p] \in SUBSET Frame /\ (lvl[p] # "forwardSecure" => F[p] \subseteq HandshakeFrames)
  <2>1. CASE p \in B
    <3>1. /\ G[p] \subseteq all \cup W
          /\ LevelOf(G[p]) # "forwardSecure" => G[p] \subseteq HandshakeFrames
      BY <2>1, LevelOfWindowUpdatePackets
    <3> QED BY <1>7, <1>8, <2>1, <3>1
  <2>2. CASE p \notin B
    BY <1>8, <2>2
  <2> QED BY <2>1, <2>2
<1>10. \A p \in R : HasNumber(v, p)
  BY <1>3, <1>5 DEF HasNumber
<1>11. /\ WorldOK(x)
       /\ Extends(v, x)
       /\ \A p \in R : ~ Refused(v, p) /\ F[p] # {} =>
             NewPacket(v, p, F[p], lvl[p]) \in Tracks(x.sph[p])
  BY <1>5, <1>6, <1>9, <1>10, SendEach
<1> HIDE DEF x
<1>12. Extends(w, x)
  BY <1>5, <1>11, ExtendsTransitive
<1>13. closed' \/ Accounted(x, pending', received)
  <2> SUFFICES ASSUME \A p \in R : ~ Refused(v, p) PROVE Accounted(x, pending', received)
    BY <1>3
  <2>1. Accounted(x, all, received)
    BY <1>12, AccountedStays
  <2>2. ASSUME NEW p \in B, NEW f \in G[p] PROVE TrackedIn(x, f)
    <3>1. p \in R /\ p \in Path /\ F[p] = G[p]
      BY <1>6, <1>8
    <3>2. NewPacket(v, p, F[p], lvl[p]) \in Tracks(x.sph[p])
      BY <1>11, <3>1
    <3>3. NewPacket(v, p, F[p], lvl[p]).Frames = F[p]
      BY DEF NewPacket
    <3> QED BY <3>1, <3>2, <3>3 DEF TrackedIn
  <2>3. \A f \in all : f \in pending' \/ TrackedIn(x, f)
    BY <1>4, <2>2
  <2> QED BY <2>1, <2>3 DEF Accounted
<1>14. pending' \subseteq Frame
  BY <1>4, <1>7
<1>15. /\ paths' = paths /\ handshakeComplete' = handshakeComplete
       /\ received' = received /\ dupPackets' = dupPackets
  BY <1>3 DEF pathVars, keyVars
<1>16. paths' \subseteq Path
  BY <1>15
<1> QED BY <1>4, <1>11, <1>12, <1>13, <1>14, <1>15, <1>16, InvAfterSending

\* SentPacket refuses the packet of a round: the session ends.
LEMMA SendFailsInv ==
    ASSUME Inv, ~ Client, ~ closed, \A q \in paths : HandshakePackets(q) = {},
           NEW p \in Path, HasNumber(World, p),
           FramesToSend(p) \subseteq Frame,
           NEW F \in SUBSET Packable(FramesToSend(p)), F \subseteq Frame,
           NEW swf, SendFails(p, F, swf),
           UNCHANGED <<pathVars, keyVars, received>>
    PROVE  Inv'
<1> DEFINE w0 == WithStopWaiting(p, swf)
           w1 == sendOnAll(w0, {p}, F, LevelOf(F))
<1>1. /\ WorldOK(Drained) /\ Drained.next = next
      /\ ReceivedOK(Drained, received)
      /\ \A e \in dupPackets : EntryOK(Drained, e)
      /\ handshakeComplete \/ paths # {InitialPath} => CryptoArrived(Drained, received)
  BY DrainedOK
<1>2. WorldOK(w0) /\ Extends(Drained, w0) /\ w0.next = next
  BY <1>1, WithStopWaitingOK
<1>3. Becomes(w1) /\ closed' /\ dupPackets' = dupPackets
  BY DEF SendFails, sendPackedPacket
<1>4. LevelOf(F) # "forwardSecure" => F \subseteq HandshakeFrames
  BY LevelOfPackable
<1> HIDE DEF w0
<1>5. \A q \in {p} : HasNumber(w0, q)
  BY <1>2 DEF HasNumber, World
<1>6. WorldOK(w1) /\ Extends(w0, w1)
  <2>1. {p} \in SUBSET Path /\ F \in SUBSET Frame
    OBVIOUS
  <2> DEFINE lvl == LevelOf(F)
  <2>2. lvl # "forwardSecure" => F \subseteq HandshakeFrames
    BY <1>4
  <2> HIDE DEF lvl
  <2>3. WorldOK(sendOnAll(w0, {p}, F, lvl)) /\ Extends(w0, sendOnAll(w0, {p}, F, lvl))
    BY <1>2, <1>5, <2>1, <2>2, SendOnAll
  <2> QED BY <2>3 DEF lvl
<1> HIDE DEF w1
<1>7. Extends(Drained, w1)
  BY <1>1, <1>2, <1>6, ExtendsTransitive
<1>8. paths' = paths /\ handshakeComplete' = handshakeComplete /\ received' = received
  BY DEF pathVars, keyVars
<1>9. paths' \subseteq Path /\ pending' \subseteq Frame
  BY <1>8 DEF Inv, SendFails
<1> QED BY <1>1, <1>3, <1>6, <1>7, <1>8, <1>9, InvAfterSending

\* The last round of sendPacket, with ackRemainingPaths.
LEMMA EndSendingInv ==
    ASSUME Inv, ~ Client, EndSending
    PROVE  Inv'
<1> DEFINE all == pending \cup FramesForRetransmission
<1>1. /\ WorldOK(Drained)
      /\ ReceivedOK(Drained, received)
      /\ \A e \in dupPackets : EntryOK(Drained, e)
      /\ handshakeComplete \/ paths # {InitialPath} => CryptoArrived(Drained, received)
      /\ FramesForRetransmission \subseteq Frame
      /\ Accounted(Drained, all, received)
  BY DrainedOK DEF EndSending
<1>2. paths \subseteq Path /\ all \in SUBSET Frame
  BY <1>1 DEF Inv
<1>3. AckRemainingPaths(Drained, all)
  BY DEF EndSending
<1> HIDE DEF all
<1> QED BY <1>1, <1>2, <1>3, AckRemainingPathsInv

\* NextID names the packet that is about to be sent.
LEMMA NextIDParts ==
    ASSUME NEW w, NEW p
    PROVE  NextID(w, p).path = p /\ NextID(w, p).PacketNumber = w.next[p]
  BY DEF NextID

\* The entries that AddMappings adds are sound once the packet and its copies are sent.
LEMMA AddMappingsOK ==
    ASSUME NEW w0, NEW x, NEW p \in Path, NEW R \in SUBSET Path, NEW last \in Path, NEW dropable,
           NEW F, NEW G, G \subseteq F, dropable => G = F,
           R # {} => last \in R,
           \A e \in dupPackets : EntryOK(x, e),
           \A q \in R \cup {p} : w0.next[q] \in PacketNumber /\ w0.next[q] < x.next[q],
           x.sent[p][w0.next[p]] = F,
           \A q \in R : x.sent[q][w0.next[q]] \subseteq G,
           \A q \in R : w0.next[q] \in x.departed[q] => x.sent[q][w0.next[q]] = G,
           NEW e \in AddMappings(w0, p, R, last, dropable)
    PROVE  EntryOK(x, e)
<1>1. CASE e \in dupPackets
  BY <1>1
<1>2. CASE R # {} /\ e = [key |-> NextID(w0, p), entry |-> NextID(w0, last)]
  <2>1. /\ e.key.path = p /\ e.key.PacketNumber = w0.next[p]
        /\ e.entry.path = last /\ e.entry.PacketNumber = w0.next[last]
    BY <1>2, NextIDParts, SMTT(30)
  <2> QED BY <1>2, <2>1, SMTT(30) DEF EntryOK
<1>3. CASE dropable /\ \E q \in R : e = [key |-> NextID(w0, q), entry |-> NextID(w0, p)]
  <2>1. PICK q \in R : e = [key |-> NextID(w0, q), entry |-> NextID(w0, p)]
    BY <1>3
  <2>2. /\ e.key.path = q /\ e.key.PacketNumber = w0.next[q]
        /\ e.entry.path = p /\ e.entry.PacketNumber = w0.next[p]
    BY <2>1, NextIDParts, SMTT(30)
  <2> QED BY <1>3, <2>2 DEF EntryOK
<1> QED BY <1>1, <1>2, <1>3 DEF AddMappings

\* A packet leaves, with its duplicate, its copies and the PING.
LEMMA SendFramesInv ==
    ASSUME Inv, ~ Client, ~ closed, \A q \in paths : HandshakePackets(q) = {},
           NEW p \in paths, HasNumber(World, p),
           FramesToSend(p) \subseteq Frame,
           NEW F \in SUBSET Packable(FramesToSend(p)), F \subseteq Frame,
           NEW swf, NEW duplicate,
           NEW R \in SUBSET paths, p \notin R, \A q \in R : HasNumber(World, q),
           NEW last \in paths, R # {} => last \in R,
           NEW dropable, dropable => F \cap ClosePathFrame = {},
           NEW f \in SUBSET paths,
           SendFrames(p, F, swf, duplicate, R, last, dropable, f),
           UNCHANGED <<pathVars, keyVars, received>>
    PROVE  Inv'
<1> DEFINE lvl == LevelOf(F)
           G == GetCopyFrames(F)
           w0 == WithStopWaiting(p, swf)
           w1 == sendOnAll(w0, {p}, F, lvl)
           k == NewPacket(w0, p, F, lvl)
           h == DuplicatePacket(w1.sph[p], k)
           w2 == IF duplicate THEN WithHandler(w1, p, h) ELSE w1
           w3 == sendOnAll(w2, R, G, level)
           w4 == sendOnAll(w3, f, {PingFrame}, level)
<1>1. /\ WorldOK(Drained) /\ Drained.next = next
      /\ ReceivedOK(Drained, received)
      /\ \A e \in dupPackets : EntryOK(Drained, e)
      /\ handshakeComplete \/ paths # {InitialPath} => CryptoArrived(Drained, received)
      /\ Accounted(Drained, pending \cup FramesForRetransmission, received)
  BY DrainedOK
<1>2. p \in Path /\ last \in Path /\ R \in SUBSET Path /\ f \in SUBSET Path /\ {p} \in SUBSET Path
  BY DEF Inv
<1>3. WorldOK(w0) /\ Extends(Drained, w0) /\ w0.next = next
  BY <1>1, <1>2, WithStopWaitingOK
<1>4. /\ ~ Refused(w0, p)
      /\ \A q \in f : HasNumber(w3, q)
      /\ Becomes(w4)
      /\ dupPackets' = AddMappings(w0, p, R, last, dropable)
      /\ FramesToSend(p) \ F \subseteq pending'
      /\ pending' \subseteq FramesToSend(p) \cup F
  BY DEF SendFrames, sendPackedPacket
<1>5. /\ F \subseteq FramesToSend(p)
      /\ lvl # "forwardSecure" => F \subseteq HandshakeFrames
      /\ level # "forwardSecure" => F \subseteq HandshakeFrames
  BY LevelOfPackable
<1>6. G \subseteq F /\ (dropable => G = F)
  BY DEF GetCopyFrames
<1>7. k.PacketNumber = w0.next[p] /\ k.Frames = F /\ k.EncryptionLevel = lvl
  BY DEF NewPacket
<1> HIDE DEF lvl, G, w0
<1>8. /\ WorldOK(w1) /\ Extends(w0, w1)
      /\ w1.sent[p][w0.next[p]] = F
      /\ F # {} => k \in Tracks(w1.sph[p])
      /\ w0.next[p] \in PacketNumber
      /\ w0.next[p] < w1.next[p]
  <2>1. \A q \in {p} : HasNumber(w0, q)
    BY <1>3 DEF HasNumber, World
  <2> HIDE DEF k
  <2>2. F \in SUBSET Frame
    OBVIOUS
  <2>3. /\ WorldOK(w1) /\ Extends(w0, w1)
        /\ \A q \in {p} : ~ Refused(w0, q) =>
              /\ w1.sent[q][w0.next[q]] = F
              /\ F # {} => NewPacket(w0, q, F, lvl) \in Tracks(w1.sph[q])
        /\ \A q \in {p} : /\ w0.next[q] \in PacketNumber
                          /\ w0.next[q] < w1.next[q]
    BY <1>2, <1>3, <1>5, <2>1, <2>2, SendOnAll
  <2> HIDE DEF w1
  <2>4. p \in {p}
    OBVIOUS
  <2> QED BY <1>4, <2>3, <2>4, Zenon DEF k
<1>9. \A q \in R : w1.next[q] = w0.next[q]
  BY <1>2 DEF sendOnAll, sendEach
<1> HIDE DEF w1
<1>10. WorldOK(w2) /\ Extends(w1, w2) /\ w2.next = w1.next
  <2>1. CASE duplicate
    <3>1. IsHandler(w1.sph[p]) /\ \A j \in Tracks(w1.sph[p]) : Fits(w1, p, j)
      BY <1>2, <1>8 DEF WorldOK
    <3> DEFINE c == [k EXCEPT !.copy = TRUE]
    <3>2. IsHandler(h) /\ Tracks(h) = Tracks(w1.sph[p]) \cup {c}
      BY <3>1, DuplicatePacketTracks
    <3>3. c.PacketNumber = w0.next[p] /\ c.Frames = F /\ c.EncryptionLevel = lvl
      BY DEF NewPacket
    <3> HIDE DEF c, h, k
    <3>4. Fits(w1, p, c)
      BY <1>5, <1>8, <3>3 DEF Fits
    <3>5. \A j \in Tracks(h) : Fits(w1, p, j)
      BY <3>1, <3>2, <3>4
    <3>6. Tracks(w1.sph[p]) \subseteq Tracks(h)
      BY <3>2
    <3> DEFINE v == WithHandler(w1, p, h)
    <3>7. /\ WorldOK(v)
          /\ Tracks(w1.sph[p]) \subseteq Tracks(h) => Extends(w1, v)
          /\ v.next = w1.next
      BY <1>2, <1>8, <3>2, <3>5, WithHandlerOK, SMTT(30)
    <3>8. w2 = v
      BY <2>1
    <3> HIDE DEF v, w2
    <3> QED BY <3>6, <3>7, <3>8
  <2>2. CASE ~ duplicate
    <3>1. \A q \in Path : w1.next[q] \in Nat
      BY <1>8 DEF WorldOK
    <3>2. w2 = w1
      BY <2>2
    <3> HIDE DEF w2
    <3>3. Extends(w1, w1)
      BY <3>1, SMTT(30) DEF Extends
    <3> QED BY <1>8, <3>2, <3>3
  <2> QED BY <2>1, <2>2
<1> HIDE DEF w2, k, h
<1>11. /\ WorldOK(w3) /\ Extends(w2, w3)
       /\ \A q \in R : /\ w2.next[q] \in PacketNumber
                       /\ w2.next[q] < w3.next[q]
                       /\ \/ w3.sent[q][w2.next[q]] = G
                          \/ w3.sent[q][w2.next[q]] = {} /\ w2.next[q] \notin w3.departed[q]
  <2>1. \A q \in R : HasNumber(w2, q)
    BY <1>3, <1>9, <1>10 DEF HasNumber, World
  <2>2. G \in SUBSET Frame /\ (level # "forwardSecure" => G \subseteq HandshakeFrames)
    BY <1>5, <1>6
  <2>3. /\ WorldOK(w3) /\ Extends(w2, w3)
        /\ \A q \in R : ~ Refused(w2, q) =>
              /\ w3.sent[q][w2.next[q]] = G
              /\ G # {} => NewPacket(w2, q, G, level) \in Tracks(w3.sph[q])
        /\ \A q \in R : /\ w2.next[q] \in PacketNumber
                        /\ w2.next[q] < w3.next[q]
                        /\ Refused(w2, q) => /\ w3.sent[q][w2.next[q]] = {}
                                             /\ w2.next[q] \notin w3.departed[q]
    <3> DEFINE lv == level
    <3>1. lv # "forwardSecure" => G \subseteq HandshakeFrames
      BY <2>2
    <3> HIDE DEF lv
    <3> DEFINE y == sendOnAll(w2, R, G, lv)
    <3>2. /\ WorldOK(y) /\ Extends(w2, y)
          /\ \A q \in R : ~ Refused(w2, q) =>
                /\ y.sent[q][w2.next[q]] = G
                /\ G # {} => NewPacket(w2, q, G, lv) \in Tracks(y.sph[q])
          /\ \A q \in R : /\ w2.next[q] \in PacketNumber
                          /\ w2.next[q] < y.next[q]
                          /\ Refused(w2, q) => /\ y.sent[q][w2.next[q]] = {}
                                               /\ w2.next[q] \notin y.departed[q]
      BY <1>2, <1>10, <2>1, <2>2, <3>1, SendOnAll, ZenonT(30)
    <3> QED BY <3>2 DEF lv
  <2> HIDE DEF w3
  <2> QED BY <2>3
<1> HIDE DEF w3
<1>12. WorldOK(w4) /\ Extends(w3, w4)
  <2>1. {PingFrame} \in SUBSET Frame /\ {PingFrame} \subseteq HandshakeFrames
    BY SchedulerAssumption DEF HandshakeFrames, ControlFrame
  <2> QED BY <1>2, <1>4, <1>11, <2>1, SendOnAll
<1> HIDE DEF w4
<1>13. Extends(w1, w4) /\ Extends(w0, w4) /\ Extends(Drained, w4)
  <2>1. Extends(w1, w3)
    BY <1>8, <1>10, <1>11, ExtendsTransitive
  <2>2. Extends(w1, w4)
    BY <1>8, <1>11, <1>12, <2>1, ExtendsTransitive
  <2>3. Extends(w0, w4)
    BY <1>3, <1>8, <1>12, <2>2, ExtendsTransitive
  <2> QED BY <1>1, <1>3, <1>12, <2>2, <2>3, ExtendsTransitive
<1>14. \A e \in dupPackets : EntryOK(w4, e)
  BY <1>1, <1>12, <1>13, EntryStays
<1>15. w4.sent[p][w0.next[p]] = F
  BY <1>2, <1>8, <1>13 DEF Extends
<1>16. /\ \A q \in R : w4.sent[q][w0.next[q]] \subseteq G
       /\ \A q \in R : w0.next[q] \in w4.departed[q] => w4.sent[q][w0.next[q]] = G
  <2>1. ASSUME NEW q \in R
        PROVE  /\ w4.sent[q][w0.next[q]] \subseteq G
               /\ w0.next[q] \in w4.departed[q] => w4.sent[q][w0.next[q]] = G
    <3>1. w2.next[q] = w0.next[q]
      BY <1>9, <1>10
    <3>2. /\ w4.sent[q][w2.next[q]] = w3.sent[q][w2.next[q]]
          /\ w2.next[q] \in w4.departed[q] <=> w2.next[q] \in w3.departed[q]
      BY <1>2, <1>11, <1>12 DEF Extends
    <3> QED BY <1>11, <3>1, <3>2
  <2> QED BY <2>1
<1>17. \A q \in R \cup {p} : w0.next[q] \in PacketNumber /\ w0.next[q] < w4.next[q]
  <2>1. ASSUME NEW q \in R \cup {p}, NEW x, WorldOK(x), Extends(x, w4),
               w0.next[q] \in PacketNumber, w0.next[q] < x.next[q]
        PROVE  w0.next[q] < w4.next[q]
    <3>1. q \in Path
      BY <1>2
    <3>2. w0.next[q] \in Nat /\ x.next[q] \in Nat /\ w4.next[q] \in Nat
      BY <1>3, <1>12, <2>1, <3>1 DEF WorldOK
    <3>3. x.next[q] <= w4.next[q]
      BY <2>1, <3>1 DEF Extends
    <3> QED BY <2>1, <3>2, <3>3, SMTT(30)
  <2>2. w0.next[p] < w4.next[p]
    BY <1>8, <1>13, <2>1
  <2>3. ASSUME NEW q \in R PROVE w0.next[q] \in PacketNumber /\ w0.next[q] < w4.next[q]
    <3>1. w2.next[q] = w0.next[q]
      BY <1>9, <1>10
    <3> QED BY <1>11, <1>12, <2>1, <3>1
  <2> QED BY <1>8, <2>2, <2>3
<1>18. \A e \in dupPackets' : EntryOK(w4, e)
  <2>1. ASSUME NEW e \in AddMappings(w0, p, R, last, dropable) PROVE EntryOK(w4, e)
    BY <1>2, <1>6, <1>14, <1>15, <1>16, <1>17, AddMappingsOK
  <2> QED BY <1>4, <2>1
<1>19. Accounted(w4, pending', received)
  <2>1. Accounted(w4, pending \cup FramesForRetransmission, received)
    BY <1>1, <1>13, AccountedStays
  <2>2. pending \cup FramesForRetransmission \subseteq FramesToSend(p)
    BY DEF FramesToSend
  <2>3. \A g \in F : TrackedIn(w4, g)
    <3>1. F # {} => k \in Tracks(w4.sph[p])
      BY <1>2, <1>8, <1>13 DEF Extends
    <3> QED BY <1>2, <1>7, <3>1 DEF TrackedIn
  <2> QED BY <1>4, <2>1, <2>2, <2>3 DEF Accounted
<1>20. /\ paths' = paths /\ handshakeComplete' = handshakeComplete /\ received' = received
  BY DEF pathVars, keyVars
<1>21. paths' \subseteq Path /\ pending' \subseteq Frame
  BY <1>4, <1>20 DEF Inv
<1> QED BY <1>1, <1>4, <1>12, <1>13, <1>18, <1>19, <1>20, <1>21, InvAfterSending

\* A packet without copies leaves, then the ACKs that are due.
LEMMA SendUncopiedInv ==
    ASSUME Inv, ~ Client, ~ closed, \A q \in paths : HandshakePackets(q) = {},
           NEW p \in paths, HasNumber(World, p),
           FramesToSend(p) \subseteq Frame,
           NEW F \in SUBSET Packable(FramesToSend(p)), F \subseteq Frame,
           NEW swf, SendUncopied(p, F, swf)
    PROVE  Inv'
<1> DEFINE lvl == LevelOf(F)
           w0 == WithStopWaiting(p, swf)
           w1 == sendOnAll(w0, {p}, F, lvl)
           k == NewPacket(w0, p, F, lvl)
           all == FramesToSend(p) \ F
<1>1. /\ WorldOK(Drained) /\ Drained.next = next
      /\ ReceivedOK(Drained, received)
      /\ \A e \in dupPackets : EntryOK(Drained, e)
      /\ handshakeComplete \/ paths # {InitialPath} => CryptoArrived(Drained, received)
      /\ Accounted(Drained, pending \cup FramesForRetransmission, received)
  BY DrainedOK
<1>2. p \in Path /\ {p} \in SUBSET Path /\ paths \subseteq Path
  BY DEF Inv
<1>3. WorldOK(w0) /\ Extends(Drained, w0) /\ w0.next = next
  BY <1>1, <1>2, WithStopWaitingOK
<1>4. ~ Refused(w0, p) /\ AckRemainingPaths(w1, all)
  BY DEF SendUncopied, sendPackedPacket
<1>5. lvl # "forwardSecure" => F \subseteq HandshakeFrames
  BY LevelOfPackable
<1>6. k.Frames = F
  BY DEF NewPacket
<1> HIDE DEF lvl, w0
<1>7. WorldOK(w1) /\ Extends(w0, w1) /\ (F # {} => k \in Tracks(w1.sph[p]))
  <2>1. \A q \in {p} : HasNumber(w0, q)
    BY <1>3 DEF HasNumber, World
  <2> HIDE DEF k
  <2>2. F \in SUBSET Frame
    OBVIOUS
  <2>3. /\ WorldOK(w1) /\ Extends(w0, w1)
        /\ \A q \in {p} : ~ Refused(w0, q) =>
              /\ w1.sent[q][w0.next[q]] = F
              /\ F # {} => NewPacket(w0, q, F, lvl) \in Tracks(w1.sph[q])
    BY <1>2, <1>3, <1>5, <2>1, <2>2, SendOnAll
  <2> HIDE DEF w1
  <2>4. p \in {p}
    OBVIOUS
  <2> QED BY <1>4, <2>3, <2>4, Zenon DEF k
<1> HIDE DEF w1, k
<1>8. Extends(Drained, w1)
  BY <1>1, <1>3, <1>7, ExtendsTransitive
<1>9. Accounted(w1, all, received)
  <2>1. Accounted(w1, pending \cup FramesForRetransmission, received)
    BY <1>1, <1>8, AccountedStays
  <2>2. pending \cup FramesForRetransmission \subseteq FramesToSend(p)
    BY DEF FramesToSend
  <2>3. \A g \in F : TrackedIn(w1, g)
    BY <1>2, <1>6, <1>7 DEF TrackedIn
  <2> QED BY <2>1, <2>2, <2>3 DEF Accounted
<1>10. ReceivedOK(w1, received) /\ \A g : Arrived(Drained, received, g) => Arrived(w1, received, g)
  BY <1>1, <1>8, ArrivedStays
<1>11. handshakeComplete \/ paths # {InitialPath} => CryptoArrived(w1, received)
  BY <1>1, <1>10 DEF CryptoArrived
<1>12. \A e \in dupPackets : EntryOK(w1, e)
  BY <1>1, <1>7, <1>8, EntryStays
<1>13. all \in SUBSET Frame
  OBVIOUS
<1> HIDE DEF all
<1> QED BY <1>2, <1>4, <1>7, <1>9, <1>10, <1>11, <1>12, <1>13, AckRemainingPathsInv

\* The schedulers select among the paths of the session.
LEMMA SelectablePaths == Selectable \subseteq paths /\ Candidates \subseteq paths
  BY DEF Selectable, Candidates

\* A round of sendPacket without a handshake packet.
LEMMA SendPacketInv ==
    ASSUME Inv, ~ Client, NEW p \in Path, SendPacket(p)
    PROVE  Inv'
<1>1. /\ ~ closed
      /\ \A q \in paths : HandshakePackets(q) = {}
      /\ HasNumber(World, p)
      /\ UNCHANGED <<pathVars, keyVars, received>>
  BY DEF SendPacket
<1>2. p \in paths
  BY SelectablePaths DEF SendPacket
<1>3. PICK F \in SUBSET Packable(FramesToSend(p)), swf \in BOOLEAN :
          \/ SendFails(p, F, swf)
          \/ SendUncopied(p, F, swf)
          \/ \E duplicate \in BOOLEAN, R \in RedundantPaths(p, F), f \in PathsToPing :
             \E last \in IF R = {} THEN {p} ELSE R, dropable \in BOOLEAN :
                /\ dropable => R # {} /\ F \cap ClosePathFrame = {}
                /\ SendFrames(p, F, swf, duplicate, R, last, dropable, f)
  BY SMTT(30) DEF SendPacket
<1>4. FramesToSend(p) \subseteq Frame
  <2>1. FramesForRetransmission \subseteq Frame
    BY <1>1, DrainedOK
  <2>2. pending \subseteq Frame
    BY DEF Inv
  <2> QED BY <2>1, <2>2, SchedulerAssumption DEF FramesToSend, ControlFrame
<1>5. F \subseteq Frame
  BY <1>4, LevelOfPackable
<1>6. CASE SendFails(p, F, swf)
  BY <1>1, <1>4, <1>5, <1>6, SendFailsInv
<1>7. CASE SendUncopied(p, F, swf)
  BY <1>1, <1>2, <1>4, <1>5, <1>7, SendUncopiedInv
<1>8. CASE ~ SendFails(p, F, swf) /\ ~ SendUncopied(p, F, swf)
  <2>1. PICK duplicate \in BOOLEAN, R \in RedundantPaths(p, F), f \in PathsToPing :
           \E last \in IF R = {} THEN {p} ELSE R, dropable \in BOOLEAN :
               /\ dropable => R # {} /\ F \cap ClosePathFrame = {}
               /\ SendFrames(p, F, swf, duplicate, R, last, dropable, f)
    BY <1>3, <1>8
  <2>2. PICK last \in IF R = {} THEN {p} ELSE R, dropable \in BOOLEAN :
               /\ dropable => R # {} /\ F \cap ClosePathFrame = {}
               /\ SendFrames(p, F, swf, duplicate, R, last, dropable, f)
    BY <2>1
  <2>3. R \in SUBSET paths /\ p \notin R /\ \A q \in R : HasNumber(World, q)
    <3> DEFINE others == {q \in Candidates \ {p, InitialPath} :
                             CongestionPermitting(q) /\ HasNumber(World, q)}
    <3>1. R \subseteq others
      BY DEF RedundantPaths
    <3> QED BY <3>1, SelectablePaths
  <2>4. f \in SUBSET paths
    BY DEF PathsToPing
  <2>5. last \in paths /\ (R # {} => last \in R)
    BY <1>2, <2>3
  <2>6. dropable => F \cap ClosePathFrame = {}
    BY <2>2
  <2>7. SendFrames(p, F, swf, duplicate, R, last, dropable, f)
    BY <2>2
  <2> QED BY <1>1, <1>2, <1>4, <1>5, <2>3, <2>4, <2>5, <2>6, <2>7, SendFramesInv
<1> QED BY <1>6, <1>7, <1>8

\* The handshake packet k is dequeued after the packets D: it alone may be missing.
LEMMA WithoutHandshakePacketOK ==
    ASSUME Inv, ~ closed, NEW p \in paths, NEW k \in HandshakePackets(p), NEW D \in DequeuedFirst
    PROVE  /\ WorldOK(WithoutHandshakePacket(p, k, D))
           /\ WithoutHandshakePacket(p, k, D).next = next
           /\ ReceivedOK(WithoutHandshakePacket(p, k, D), received)
           /\ \A e \in dupPackets : EntryOK(WithoutHandshakePacket(p, k, D), e)
           /\ handshakeComplete \/ paths # {InitialPath} =>
                 CryptoArrived(WithoutHandshakePacket(p, k, D), received)
           /\ UNION {FramesOf(D[r]) : r \in Path} \subseteq Frame
           /\ k.Frames \subseteq Frame
           /\ k.Frames \subseteq HandshakeFrames
           /\ Accounted(WithoutHandshakePacket(p, k, D),
                        pending \cup (UNION {FramesOf(D[r]) : r \in Path}) \cup k.Frames, received)
<1> DEFINE d == WithoutHandshakePacket(p, k, D)
           gone(q) == IF q = p THEN D[q] \cup {k} ELSE D[q]
           U == UNION {FramesOf(D[r]) : r \in Path}
<1>1. /\ DOMAIN d.sph = Path
      /\ \A q \in Path : d.sph[q] = [sph[q] EXCEPT !.retransmissionQueue = sph[q].retransmissionQueue \ gone(q)]
      /\ d.next = next
      /\ d.sent = sent
      /\ d.departed = departed
  BY DEF WithoutHandshakePacket, WithHandlers, World
<1>2. World.sph = sph /\ World.next = next /\ World.sent = sent /\ World.departed = departed
  BY DEF World
<1>3. WorldOK(World) /\ ReceivedOK(World, received) /\ Accounted(World, pending, received)
  BY DEF Inv
<1>4. k \in Queued(p) /\ k.EncryptionLevel # "forwardSecure" /\ p \in Path
  BY DEF HandshakePackets, ForwardSecure, Inv
<1>5. \A r \in Path : D[r] \subseteq Queued(r)
  BY DEF DequeuedFirst, ForwardSecure
<1>6. \A q \in Path : \A j \in gone(q) : j.Frames \subseteq U \cup k.Frames
  BY SMTT(30) DEF FramesOf
<1> HIDE DEF d, gone
<1>7. ASSUME NEW q \in Path
      PROVE  /\ IsHandler(d.sph[q])
             /\ Tracks(d.sph[q]) \subseteq Tracks(sph[q])
             /\ Tracks(sph[q]) \subseteq Tracks(d.sph[q]) \cup gone(q)
  <2>1. IsHandler(sph[q])
    BY <1>2, <1>3 DEF WorldOK
  <2> DEFINE h == sph[q]
             g == gone(q)
  <2>2. d.sph[q] = [h EXCEPT !.retransmissionQueue = h.retransmissionQueue \ g]
    BY <1>1
  <2> HIDE DEF h, g
  <2>3. /\ IsHandler(d.sph[q])
        /\ Tracks(d.sph[q]) \subseteq Tracks(h)
        /\ Tracks(h) \subseteq Tracks(d.sph[q]) \cup g
    BY <2>1, <2>2 DEF IsHandler, Tracks, h
  <2> QED BY <2>3 DEF h, g
<1>8. WorldOK(d)
  <2>1. ASSUME NEW q \in Path, NEW j \in Tracks(d.sph[q]) PROVE Fits(d, q, j)
    <3>1. Fits(World, q, j)
      BY <1>2, <1>3, <1>7 DEF WorldOK
    <3> QED BY <1>1, <1>2, <3>1 DEF Fits
  <2> QED BY <1>1, <1>2, <1>3, <1>7, <2>1 DEF WorldOK
<1>9. ReceivedOK(d, received)
  BY <1>1, <1>2, <1>3, SMTT(30) DEF ReceivedOK
<1>10. \A e \in dupPackets : EntryOK(d, e)
  BY <1>1, <1>2 DEF Inv, EntryOK
<1>11. \A f : Arrived(World, received, f) <=> Arrived(d, received, f)
  BY <1>1, <1>2 DEF Arrived
<1>12. handshakeComplete \/ paths # {InitialPath} => CryptoArrived(d, received)
  BY <1>11 DEF Inv, CryptoArrived
<1>13. ASSUME NEW q \in Path, NEW j \in Queued(q)
       PROVE  /\ j.Frames \subseteq Frame
              /\ j.EncryptionLevel # "forwardSecure" => j.Frames \subseteq HandshakeFrames
  <2>1. Fits(World, q, j)
    BY <1>2, <1>3 DEF WorldOK, Queued, Tracks
  <2>2. sent[q][j.PacketNumber] \subseteq Frame
    BY <1>2, <1>3, <2>1, SMTT(30) DEF WorldOK, Fits
  <2> QED BY <1>2, <2>1, <2>2 DEF Fits
<1>14. U \subseteq Frame
  BY <1>5, <1>13, SMTT(30) DEF FramesOf
<1>15. k.Frames \subseteq Frame /\ k.Frames \subseteq HandshakeFrames
  BY <1>4, <1>13
<1> HIDE DEF U
<1>16. ASSUME NEW f, TrackedIn(World, f)
       PROVE  f \in U \cup k.Frames \/ TrackedIn(d, f)
  <2>1. PICK q \in Path : \E j \in Tracks(sph[q]) : f \in j.Frames
    BY <1>2, <1>16 DEF TrackedIn
  <2>2. PICK j \in Tracks(sph[q]) : f \in j.Frames
    BY <2>1
  <2>3. j \in Tracks(d.sph[q]) \/ j \in gone(q)
    BY <1>7
  <2> QED BY <1>6, <2>2, <2>3 DEF TrackedIn
<1>17. Accounted(d, pending \cup U \cup k.Frames, received)
  BY <1>3, <1>11, <1>16 DEF Accounted
<1>18. U = UNION {FramesOf(D[r]) : r \in Path} /\ d = WithoutHandshakePacket(p, k, D)
  BY DEF U, d
<1> QED BY <1>1, <1>8, <1>9, <1>10, <1>12, <1>14, <1>15, <1>17, <1>18

\* A handshake packet is retransmitted on path q, or the session ends.
LEMMA SendHandshakePacketInv ==
    ASSUME Inv, ~ Client, NEW p \in Path, NEW q \in Path, SendHandshakePacket(p, q)
    PROVE  Inv'
<1>1. /\ ~ closed /\ p \in paths /\ q \in Path /\ HasNumber(World, q)
      /\ received' = received /\ paths' = paths /\ handshakeComplete' = handshakeComplete
      /\ dupPackets' = dupPackets /\ paths \subseteq Path /\ pending \subseteq Frame
  BY DEF SendHandshakePacket, pathVars, keyVars, Inv
<1>2. PICK k \in HandshakePackets(p), D \in DequeuedFirst :
         LET w0 == WithoutHandshakePacket(p, k, D)
             w1 == WithHandler(w0, q, GetStopWaitingFrame(w0.sph[q], TRUE))
             w2 == sendPackedPacket(w1, q, k.Frames, k.EncryptionLevel)
         IN  /\ pending' = pending \cup UNION {FramesOf(D[r]) : r \in Path}
             /\ closed' = (LeastUnackedToSend(w0.sph[q], TRUE) = 0 \/ Refused(w1, q))
             /\ Becomes(IF LeastUnackedToSend(w0.sph[q], TRUE) = 0 THEN w1 ELSE w2)
             /\ sending' = ~ closed'
  BY DEF SendHandshakePacket
<1> DEFINE w0 == WithoutHandshakePacket(p, k, D)
           h == GetStopWaitingFrame(w0.sph[q], TRUE)
           w1 == WithHandler(w0, q, h)
           F == k.Frames
           lvl == k.EncryptionLevel
           w2 == sendOnAll(w1, {q}, F, lvl)
           U == UNION {FramesOf(D[r]) : r \in Path}
<1>3. /\ pending' = pending \cup U
      /\ (Becomes(w1) /\ closed') \/ (Becomes(w2) /\ (closed' \/ ~ Refused(w1, q)))
  BY <1>2 DEF sendPackedPacket
<1>4. /\ WorldOK(w0)
      /\ w0.next = next
      /\ ReceivedOK(w0, received)
      /\ \A e \in dupPackets : EntryOK(w0, e)
      /\ handshakeComplete \/ paths # {InitialPath} => CryptoArrived(w0, received)
      /\ U \subseteq Frame
      /\ F \subseteq Frame
      /\ F \subseteq HandshakeFrames
      /\ Accounted(w0, pending \cup U \cup F, received)
  BY <1>1, WithoutHandshakePacketOK
<1> HIDE DEF w0, U, F, lvl
<1>5. IsHandler(h) /\ Tracks(h) = Tracks(w0.sph[q]) /\ \A j \in Tracks(h) : Fits(w0, q, j)
  <2>1. IsHandler(w0.sph[q]) /\ \A j \in Tracks(w0.sph[q]) : Fits(w0, q, j)
    BY <1>4 DEF WorldOK
  <2>2. IsHandler(h) /\ Tracks(h) = Tracks(w0.sph[q])
    BY <2>1, GetStopWaitingFrameTracks
  <2> QED BY <2>1, <2>2
<1> HIDE DEF h
<1>6. WorldOK(w1) /\ Extends(w0, w1) /\ w1.next = w0.next
  BY <1>4, <1>5, WithHandlerOK, SMTT(30)
<1>7. {q} \in SUBSET Path /\ F \in SUBSET Frame /\ \A r \in {q} : HasNumber(w1, r)
  BY <1>1, <1>4, <1>6 DEF HasNumber, World
<1> HIDE DEF w1
<1>8. /\ WorldOK(w2)
      /\ Extends(w1, w2)
      /\ \A r \in {q} : ~ Refused(w1, r) =>
            /\ w2.sent[r][w1.next[r]] = F
            /\ F # {} => NewPacket(w1, r, F, lvl) \in Tracks(w2.sph[r])
  BY <1>4, <1>6, <1>7, SendOnAll
<1> HIDE DEF w2
<1>9. Extends(w0, w2)
  BY <1>4, <1>6, <1>8, ExtendsTransitive
<1>10. pending' \subseteq Frame /\ paths' \subseteq Path
  BY <1>1, <1>3, <1>4
<1>11. CASE Becomes(w1) /\ closed'
  BY <1>1, <1>4, <1>6, <1>10, <1>11, InvAfterSending
<1>12. CASE Becomes(w2) /\ (closed' \/ ~ Refused(w1, q))
  <2>1. ASSUME ~ Refused(w1, q) PROVE Accounted(w2, pending', received)
    <3>1. Accounted(w2, pending \cup U \cup F, received)
      BY <1>4, <1>9, AccountedStays
    <3>2. ASSUME NEW f \in F PROVE TrackedIn(w2, f)
      <4>1. NewPacket(w1, q, F, lvl) \in Tracks(w2.sph[q])
        BY <1>8, <2>1, <3>2
      <4>2. f \in NewPacket(w1, q, F, lvl).Frames
        BY <3>2 DEF NewPacket
      <4> QED BY <4>1, <4>2 DEF TrackedIn
    <3> QED BY <1>3, <3>1, <3>2 DEF Accounted
  <2> QED BY <1>1, <1>4, <1>8, <1>9, <1>10, <1>12, <2>1, InvAfterSending
<1> QED BY <1>3, <1>11, <1>12

\* A handshake packet that no path takes is dropped: no path may take it because there
\* are others beside the initial one, so the peer has the crypto stream.
LEMMA EndSendingHandshakeInv ==
    ASSUME Inv, ~ Client, NEW p \in Path, EndSendingHandshake(p)
    PROVE  Inv'
<1>1. ~ closed /\ p \in paths /\ NoneSelectable /\ paths \subseteq Path /\ pending \subseteq Frame
  BY DEF EndSendingHandshake, Inv
<1>2. PICK k \in HandshakePackets(p), D \in DequeuedFirst :
          AckRemainingPaths(WithoutHandshakePacket(p, k, D),
                            pending \cup UNION {FramesOf(D[r]) : r \in Path})
  BY DEF EndSendingHandshake
<1>3. paths # {InitialPath}
  <2>1. hasRetransmission
    BY <1>1, <1>2 DEF HandshakePackets, hasRetransmission
  <2> QED BY <1>1, <2>1 DEF NoneSelectable, Candidates
<1> DEFINE w0 == WithoutHandshakePacket(p, k, D)
           F == k.Frames
           U == UNION {FramesOf(D[r]) : r \in Path}
           all == pending \cup U
<1>4. /\ WorldOK(w0)
      /\ ReceivedOK(w0, received)
      /\ \A e \in dupPackets : EntryOK(w0, e)
      /\ handshakeComplete \/ paths # {InitialPath} => CryptoArrived(w0, received)
      /\ U \subseteq Frame
      /\ F \subseteq HandshakeFrames
      /\ Accounted(w0, pending \cup U \cup F, received)
  BY <1>1, WithoutHandshakePacketOK
<1>5. AckRemainingPaths(w0, all)
  BY <1>2
<1> HIDE DEF w0, U, F
<1>6. Accounted(w0, all, received)
  <2>1. CryptoArrived(w0, received)
    BY <1>3, <1>4
  <2>2. \A f \in F \ ControlFrame : Arrived(w0, received, f)
    BY <1>4, <2>1 DEF CryptoArrived, HandshakeFrames
  <2> QED BY <1>4, <2>2 DEF Accounted
<1>7. all \in SUBSET Frame
  BY <1>1, <1>4
<1> HIDE DEF all
<1> QED BY <1>1, <1>4, <1>5, <1>6, <1>7, AckRemainingPathsInv
=============================================================================

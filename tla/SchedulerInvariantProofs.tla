---------------------- MODULE SchedulerInvariantProofs ----------------------
(***************************************************************************)
(* The inductive invariant of the scheduler, and how sending packets and   *)
(* emptying the queues keep it.                                            *)
(***************************************************************************)
EXTENDS Scheduler, SentPacketHandlerProofs

-----------------------------------------------------------------------------
(* Sending *)

\* What a packet below forward security may carry, on a server.
HandshakeFrames == CryptoFrame \cup ControlFrame

\* k is the packet of path p that was sent with its number.
Fits(w, p, k) ==
    /\ k.PacketNumber \in PacketNumber
    /\ k.PacketNumber < w.next[p]
    /\ k.Frames = w.sent[p][k.PacketNumber]
    /\ k.EncryptionLevel # "forwardSecure" => k.Frames \subseteq HandshakeFrames

\* Packet numbers are fresh, and handlers track only packets that were sent.
WorldOK(w) ==
    /\ DOMAIN w.sph = Path
    /\ w.next \in [Path -> Nat \ {0}]
    /\ w.sent \in [Path -> [PacketNumber -> SUBSET Frame]]
    /\ w.departed \in [Path -> SUBSET PacketNumber]
    /\ \A p \in Path : IsHandler(w.sph[p])
    /\ \A p \in Path : \A k \in Tracks(w.sph[p]) : Fits(w, p, k)
    /\ \A p \in Path, n \in PacketNumber : w.next[p] <= n => w.sent[p][n] = {} /\ n \notin w.departed[p]

\* From v to w packets were sent, and none was dropped.
Extends(v, w) ==
    \A p \in Path :
        /\ Tracks(v.sph[p]) \subseteq Tracks(w.sph[p])
        /\ v.next[p] <= w.next[p]
        /\ \A n \in PacketNumber : n < v.next[p] =>
              w.sent[p][n] = v.sent[p][n] /\ (n \in w.departed[p] <=> n \in v.departed[p])

\* Sending twice is sending.
LEMMA ExtendsTransitive ==
    ASSUME NEW u, NEW v, NEW w, WorldOK(u), WorldOK(v), WorldOK(w), Extends(u, v), Extends(v, w)
    PROVE  Extends(u, w)
<1> SUFFICES ASSUME NEW p \in Path
             PROVE  /\ Tracks(u.sph[p]) \subseteq Tracks(w.sph[p])
                    /\ u.next[p] <= w.next[p]
                    /\ \A n \in PacketNumber : n < u.next[p] =>
                          w.sent[p][n] = u.sent[p][n] /\ (n \in w.departed[p] <=> n \in u.departed[p])
  BY DEF Extends
<1>1. u.next[p] \in Nat /\ v.next[p] \in Nat /\ w.next[p] \in Nat
  BY DEF WorldOK
<1>2. PacketNumber \subseteq Nat
  BY SchedulerAssumption DEF PacketNumber
<1> QED BY <1>1, <1>2 DEF Extends

\* Each path of R takes a number; the packet is tracked unless it was refused.
LEMMA SendEach ==
    ASSUME NEW w, WorldOK(w),
           NEW R \in SUBSET Path, \A p \in R : HasNumber(w, p),
           NEW F, NEW lvl,
           \A p \in R : F[p] \in SUBSET Frame /\ (lvl[p] # "forwardSecure" => F[p] \subseteq HandshakeFrames)
    PROVE  /\ WorldOK(sendEach(w, R, F, lvl))
           /\ Extends(w, sendEach(w, R, F, lvl))
           /\ \A p \in R : ~ Refused(w, p) =>
                 /\ sendEach(w, R, F, lvl).sent[p][w.next[p]] = F[p]
                 /\ F[p] # {} => NewPacket(w, p, F[p], lvl[p]) \in Tracks(sendEach(w, R, F, lvl).sph[p])
           /\ \A p \in R : /\ w.next[p] \in PacketNumber
                           /\ w.next[p] < sendEach(w, R, F, lvl).next[p]
                           /\ Refused(w, p) => /\ sendEach(w, R, F, lvl).sent[p][w.next[p]] = {}
                                               /\ w.next[p] \notin sendEach(w, R, F, lvl).departed[p]
<1> DEFINE x == sendEach(w, R, F, lvl)
           k(p) == NewPacket(w, p, F[p], lvl[p])
           yes(p) == p \in R /\ ~ Refused(w, p)
<1>1. DOMAIN x.sph = Path /\ DOMAIN x.next = Path /\ DOMAIN x.sent = Path /\ DOMAIN x.departed = Path
  BY DEF sendEach
<1>2. ASSUME NEW p \in Path
      PROVE  /\ x.sph[p] = IF yes(p) THEN SentPacket(w.sph[p], k(p)) ELSE w.sph[p]
             /\ x.next[p] = IF p \in R THEN w.next[p] + 1 ELSE w.next[p]
             /\ x.sent[p] = IF yes(p) THEN [w.sent[p] EXCEPT ![w.next[p]] = F[p]] ELSE w.sent[p]
             /\ x.departed[p] = IF yes(p) THEN w.departed[p] \cup {w.next[p]} ELSE w.departed[p]
  BY DEF sendEach
<1>3. /\ x.next = [p \in Path |-> x.next[p]]
      /\ x.sent = [p \in Path |-> x.sent[p]]
      /\ x.departed = [p \in Path |-> x.departed[p]]
  BY DEF sendEach
<1>4. ASSUME NEW p
      PROVE  /\ k(p).PacketNumber = w.next[p]
             /\ k(p).Frames = F[p]
             /\ k(p).EncryptionLevel = lvl[p]
  BY DEF NewPacket
<1>5. PacketNumber \subseteq Nat
  BY SchedulerAssumption DEF PacketNumber
<1>6. ASSUME NEW p \in R PROVE w.next[p] \in PacketNumber
  BY SchedulerAssumption DEF WorldOK, HasNumber, PacketNumber
<1> HIDE DEF x, k, yes
<1>7. ASSUME NEW p \in Path
      PROVE  /\ IsHandler(x.sph[p])
             /\ x.next[p] \in Nat \ {0}
             /\ w.next[p] <= x.next[p]
             /\ x.sent[p] \in [PacketNumber -> SUBSET Frame]
             /\ x.departed[p] \in SUBSET PacketNumber
             /\ \A n \in PacketNumber : n < w.next[p] =>
                   x.sent[p][n] = w.sent[p][n] /\ (n \in x.departed[p] <=> n \in w.departed[p])
             /\ \A n \in PacketNumber : x.next[p] <= n => x.sent[p][n] = {} /\ n \notin x.departed[p]
             /\ Tracks(x.sph[p]) = Tracks(w.sph[p]) \cup IF yes(p) /\ F[p] # {} THEN {k(p)} ELSE {}
             /\ yes(p) => x.sent[p][w.next[p]] = F[p]
  <2>1. /\ w.next[p] \in Nat \ {0}
        /\ w.sent[p] \in [PacketNumber -> SUBSET Frame]
        /\ w.departed[p] \in SUBSET PacketNumber
        /\ IsHandler(w.sph[p])
    BY DEF WorldOK
  <2>2. \A n \in PacketNumber : w.next[p] <= n => w.sent[p][n] = {} /\ n \notin w.departed[p]
    BY DEF WorldOK
  <2>3. CASE yes(p)
    <3>1. p \in R /\ F[p] \in SUBSET Frame
      BY <2>3 DEF yes
    <3>2. w.next[p] \in PacketNumber
      BY <3>1, <1>6
    <3>3. /\ x.sph[p] = SentPacket(w.sph[p], k(p))
          /\ x.next[p] = w.next[p] + 1
          /\ x.sent[p] = [w.sent[p] EXCEPT ![w.next[p]] = F[p]]
          /\ x.departed[p] = w.departed[p] \cup {w.next[p]}
      BY <1>2, <2>3, <3>1
    <3>4. /\ IsHandler(x.sph[p])
          /\ Tracks(x.sph[p]) = Tracks(w.sph[p]) \cup IF k(p).Frames # {} THEN {k(p)} ELSE {}
      BY <3>3, <2>1, SentPacketTracks
    <3>5. /\ x.sent[p] \in [PacketNumber -> SUBSET Frame]
          /\ x.sent[p][w.next[p]] = F[p]
          /\ \A n \in PacketNumber : n # w.next[p] => x.sent[p][n] = w.sent[p][n]
      BY <2>1, <3>1, <3>2, <3>3
    <3>6. /\ x.next[p] \in Nat \ {0}
          /\ w.next[p] <= x.next[p]
          /\ \A n \in PacketNumber : n < w.next[p] => x.sent[p][n] = w.sent[p][n]
          /\ \A n \in PacketNumber : x.next[p] <= n => x.sent[p][n] = {}
      BY <1>5, <2>1, <2>2, <3>3, <3>5
    <3>7. /\ x.departed[p] \in SUBSET PacketNumber
          /\ \A n \in PacketNumber : n < w.next[p] => (n \in x.departed[p] <=> n \in w.departed[p])
          /\ \A n \in PacketNumber : x.next[p] <= n => n \notin x.departed[p]
      <4>1. x.departed[p] \in SUBSET PacketNumber
        BY <2>1, <3>2, <3>3
      <4>2. ASSUME NEW n \in PacketNumber
            PROVE  /\ n < w.next[p] => n # w.next[p]
                   /\ x.next[p] <= n => n # w.next[p] /\ w.next[p] <= n
        BY <1>5, <2>1, <3>3
      <4>3. \A n \in PacketNumber : n # w.next[p] => (n \in x.departed[p] <=> n \in w.departed[p])
        BY <3>3
      <4> QED BY <2>2, <4>1, <4>2, <4>3
    <3> QED BY <1>4, <2>3, <3>4, <3>5, <3>6, <3>7
  <2>4. CASE ~ yes(p)
    <3>1. /\ x.sph[p] = w.sph[p]
          /\ x.next[p] \in {w.next[p], w.next[p] + 1}
          /\ x.sent[p] = w.sent[p]
          /\ x.departed[p] = w.departed[p]
      BY <1>2, <2>4
    <3>2. x.next[p] \in Nat \ {0} /\ w.next[p] <= x.next[p]
      BY <2>1, <3>1
    <3>3. \A n \in PacketNumber : x.next[p] <= n => w.next[p] <= n
      BY <1>5, <2>1, <3>1
    <3> QED BY <2>1, <2>2, <2>4, <3>1, <3>2, <3>3
  <2> QED BY <2>3, <2>4
<1>8. ASSUME NEW p \in Path, NEW j \in Tracks(x.sph[p])
      PROVE  Fits(x, p, j)
  <2>1. CASE j \in Tracks(w.sph[p])
    <3>1. Fits(w, p, j)
      BY <2>1 DEF WorldOK
    <3>2. w.next[p] \in Nat
      BY DEF WorldOK
    <3>3. j.PacketNumber < x.next[p]
      <4>1. j.PacketNumber \in Nat /\ j.PacketNumber < w.next[p]
        BY <1>5, <3>1 DEF Fits
      <4>2. x.next[p] \in Nat /\ w.next[p] <= x.next[p]
        BY <1>7
      <4> DEFINE n == j.PacketNumber
      <4> HIDE DEF n
      <4>3. n \in Nat /\ n < w.next[p]
        BY <4>1 DEF n
      <4>4. n < x.next[p]
        BY <3>2, <4>2, <4>3
      <4> QED BY <4>4 DEF n
    <3>4. x.sent[p][j.PacketNumber] = w.sent[p][j.PacketNumber]
      BY <1>7, <3>1 DEF Fits
    <3> QED BY <3>1, <3>3, <3>4 DEF Fits
  <2>2. CASE yes(p) /\ j = k(p)
    <3>1. p \in R
      BY <2>2 DEF yes
    <3>2. j.PacketNumber = w.next[p] /\ j.Frames = F[p] /\ j.EncryptionLevel = lvl[p]
      BY <1>4, <2>2
    <3>3. x.next[p] = w.next[p] + 1 /\ w.next[p] \in Nat
      BY <1>2, <3>1 DEF WorldOK
    <3>4. x.sent[p][w.next[p]] = F[p]
      BY <1>7, <2>2
    <3> QED BY <1>6, <3>1, <3>2, <3>3, <3>4 DEF Fits
  <2> QED BY <1>7, <2>1, <2>2
<1>9. WorldOK(x)
  <2>1. /\ x.next \in [Path -> Nat \ {0}]
        /\ x.sent \in [Path -> [PacketNumber -> SUBSET Frame]]
        /\ x.departed \in [Path -> SUBSET PacketNumber]
    BY <1>3, <1>7
  <2> QED BY <1>1, <1>7, <1>8, <2>1 DEF WorldOK
<1>10. Extends(w, x)
  BY <1>7 DEF Extends
<1>11. ASSUME NEW p \in R, ~ Refused(w, p)
       PROVE  x.sent[p][w.next[p]] = F[p] /\ (F[p] # {} => k(p) \in Tracks(x.sph[p]))
  BY <1>7, <1>11 DEF yes
<1>12. ASSUME NEW p \in R
       PROVE  /\ w.next[p] \in PacketNumber
              /\ w.next[p] < x.next[p]
              /\ Refused(w, p) => x.sent[p][w.next[p]] = {} /\ w.next[p] \notin x.departed[p]
  <2>1. x.next[p] = w.next[p] + 1 /\ w.next[p] \in Nat
    BY <1>2 DEF WorldOK
  <2>2. Refused(w, p) => x.sent[p] = w.sent[p] /\ x.departed[p] = w.departed[p]
    BY <1>2 DEF yes
  <2>3. w.sent[p][w.next[p]] = {} /\ w.next[p] \notin w.departed[p]
    BY <1>6, <2>1 DEF WorldOK
  <2> QED BY <1>6, <2>1, <2>2, <2>3
<1> QED BY <1>9, <1>10, <1>11, <1>12 DEF x, k

\* The same packet on each path of R.
LEMMA SendOnAll ==
    ASSUME NEW w, WorldOK(w),
           NEW R \in SUBSET Path, \A p \in R : HasNumber(w, p),
           NEW F \in SUBSET Frame,
           NEW lvl, lvl # "forwardSecure" => F \subseteq HandshakeFrames
    PROVE  /\ WorldOK(sendOnAll(w, R, F, lvl))
           /\ Extends(w, sendOnAll(w, R, F, lvl))
           /\ \A p \in R : ~ Refused(w, p) =>
                 /\ sendOnAll(w, R, F, lvl).sent[p][w.next[p]] = F
                 /\ F # {} => NewPacket(w, p, F, lvl) \in Tracks(sendOnAll(w, R, F, lvl).sph[p])
           /\ \A p \in R : /\ w.next[p] \in PacketNumber
                           /\ w.next[p] < sendOnAll(w, R, F, lvl).next[p]
                           /\ Refused(w, p) => /\ sendOnAll(w, R, F, lvl).sent[p][w.next[p]] = {}
                                               /\ w.next[p] \notin sendOnAll(w, R, F, lvl).departed[p]
<1> DEFINE G == [p \in R |-> F]
           l == [p \in R |-> lvl]
<1>1. \A p \in R : G[p] = F /\ l[p] = lvl
  OBVIOUS
<1>2. sendOnAll(w, R, F, lvl) = sendEach(w, R, G, l)
  BY DEF sendOnAll
<1> HIDE DEF G, l
<1>3. \A p \in R : G[p] \in SUBSET Frame /\ (l[p] # "forwardSecure" => G[p] \subseteq HandshakeFrames)
  BY <1>1
<1> DEFINE x == sendEach(w, R, G, l)
<1>4. /\ WorldOK(x)
      /\ Extends(w, x)
      /\ \A p \in R : ~ Refused(w, p) =>
            /\ x.sent[p][w.next[p]] = G[p]
            /\ G[p] # {} => NewPacket(w, p, G[p], l[p]) \in Tracks(x.sph[p])
      /\ \A p \in R : /\ w.next[p] \in PacketNumber
                      /\ w.next[p] < x.next[p]
                      /\ Refused(w, p) => x.sent[p][w.next[p]] = {} /\ w.next[p] \notin x.departed[p]
  BY <1>3, SendEach
<1> HIDE DEF x
<1> QED BY <1>1, <1>2, <1>4 DEF x

\* The handlers change: they still track only packets that were sent.
LEMMA WithHandlersOK ==
    ASSUME NEW w, WorldOK(w), NEW H, DOMAIN H = Path,
           \A p \in Path : IsHandler(H[p]) /\ \A k \in Tracks(H[p]) : Fits(w, p, k)
    PROVE  /\ WorldOK(WithHandlers(w, H))
           /\ (\A p \in Path : Tracks(w.sph[p]) \subseteq Tracks(H[p])) => Extends(w, WithHandlers(w, H))
<1> DEFINE x == WithHandlers(w, H)
<1>1. x.sph = H /\ x.next = w.next /\ x.sent = w.sent /\ x.departed = w.departed
  BY DEF WithHandlers
<1> HIDE DEF x
<1>2. ASSUME NEW q \in Path, NEW k \in Tracks(x.sph[q]) PROVE Fits(x, q, k)
  BY <1>1 DEF Fits
<1>3. WorldOK(x)
  BY <1>1, <1>2 DEF WorldOK
<1>4. \A q \in Path : w.next[q] \in Nat
  BY DEF WorldOK
<1>5. (\A p \in Path : Tracks(w.sph[p]) \subseteq Tracks(H[p])) => Extends(w, x)
  BY <1>1, <1>4 DEF Extends
<1> QED BY <1>3, <1>5 DEF x

\* The handler of one path changes.
LEMMA WithHandlerOK ==
    ASSUME NEW w, WorldOK(w), NEW p \in Path, NEW h, IsHandler(h),
           \A k \in Tracks(h) : Fits(w, p, k)
    PROVE  /\ WorldOK(WithHandler(w, p, h))
           /\ Tracks(w.sph[p]) \subseteq Tracks(h) => Extends(w, WithHandler(w, p, h))
           /\ WithHandler(w, p, h).next = w.next
           /\ WithHandler(w, p, h).sent = w.sent
           /\ WithHandler(w, p, h).departed = w.departed
           /\ WithHandler(w, p, h).sph[p] = h
<1> DEFINE H == [q \in Path |-> IF q = p THEN h ELSE w.sph[q]]
<1>1. DOMAIN H = Path /\ \A q \in Path : H[q] = IF q = p THEN h ELSE w.sph[q]
  OBVIOUS
<1>2. WithHandler(w, p, h) = WithHandlers(w, H)
  BY DEF WithHandler
<1> HIDE DEF H
<1>3. \A q \in Path : IsHandler(H[q]) /\ \A k \in Tracks(H[q]) : Fits(w, q, k)
  BY <1>1 DEF WorldOK
<1>4. /\ WorldOK(WithHandlers(w, H))
      /\ (\A q \in Path : Tracks(w.sph[q]) \subseteq Tracks(H[q])) => Extends(w, WithHandlers(w, H))
  BY <1>1, <1>3, WithHandlersOK
<1>5. /\ WithHandlers(w, H).next = w.next
      /\ WithHandlers(w, H).sent = w.sent
      /\ WithHandlers(w, H).departed = w.departed
      /\ WithHandlers(w, H).sph = H
  BY DEF WithHandlers
<1> QED BY <1>1, <1>2, <1>4, <1>5

-----------------------------------------------------------------------------
(* Where the frames are *)

Arrived(w, R, f) == \E p \in Path : \E n \in R[p] : f \in w.sent[p][n]

TrackedIn(w, f) == \E p \in Path : \E k \in Tracks(w.sph[p]) : f \in k.Frames

Accounted(w, P, R) ==
    \A f \in Frame \ ControlFrame : f \in P \/ TrackedIn(w, f) \/ Arrived(w, R, f)

\* Only packets that were sent arrive.
ReceivedOK(w, R) ==
    /\ R \in [Path -> SUBSET PacketNumber]
    /\ \A p \in Path : R[p] \subseteq w.departed[p]

\* A packet that arrived has a number below the next one.
LEMMA ReceivedWereSent ==
    ASSUME NEW w, WorldOK(w), NEW R, ReceivedOK(w, R), NEW p \in Path, NEW n \in R[p]
    PROVE  n \in PacketNumber /\ n < w.next[p]
<1>1. n \in PacketNumber /\ n \in w.departed[p]
  BY DEF ReceivedOK
<1>2. n \in Nat /\ w.next[p] \in Nat
  BY <1>1, SchedulerAssumption DEF WorldOK, PacketNumber
<1>3. ~ (w.next[p] <= n)
  BY <1>1 DEF WorldOK
<1> QED BY <1>1, <1>2, <1>3

\* Sending changes nothing that arrived: numbers are fresh.
LEMMA ArrivedStays ==
    ASSUME NEW v, NEW w, WorldOK(v), Extends(v, w), NEW R, ReceivedOK(v, R)
    PROVE  /\ ReceivedOK(w, R)
           /\ \A f : Arrived(v, R, f) => Arrived(w, R, f)
<1>1. ASSUME NEW p \in Path, NEW n \in R[p]
      PROVE  w.sent[p][n] = v.sent[p][n] /\ n \in w.departed[p]
  <2>1. n \in v.departed[p]
    BY DEF ReceivedOK
  <2>2. n \in PacketNumber /\ n < v.next[p]
    BY ReceivedWereSent
  <2> QED BY <2>1, <2>2 DEF Extends
<1> QED BY <1>1 DEF ReceivedOK, Arrived

\* Sending forgets no frame.
LEMMA AccountedStays ==
    ASSUME NEW v, NEW w, WorldOK(v), Extends(v, w), NEW R, ReceivedOK(v, R), NEW P, Accounted(v, P, R)
    PROVE  Accounted(w, P, R)
<1>1. \A f : TrackedIn(v, f) => TrackedIn(w, f)
  BY DEF TrackedIn, Extends
<1>2. \A f : Arrived(v, R, f) => Arrived(w, R, f)
  BY ArrivedStays
<1> QED BY <1>1, <1>2 DEF Accounted

\* The acknowledgment of the first drops the second.
EntryOK(w, e) ==
    /\ e.key.path \in Path /\ e.entry.path \in Path
    /\ e.key.PacketNumber \in PacketNumber /\ e.entry.PacketNumber \in PacketNumber
    /\ e.key.PacketNumber < w.next[e.key.path]
    /\ e.entry.PacketNumber < w.next[e.entry.path]
    /\ e.key.PacketNumber \in w.departed[e.key.path] =>
          w.sent[e.entry.path][e.entry.PacketNumber] \subseteq w.sent[e.key.path][e.key.PacketNumber]

\* Sending leaves the entries of dupPackets sound.
LEMMA EntryStays ==
    ASSUME NEW v, NEW w, WorldOK(v), WorldOK(w), Extends(v, w), NEW e, EntryOK(v, e)
    PROVE  EntryOK(w, e)
<1> DEFINE a == e.key.path
           b == e.entry.path
           m == e.key.PacketNumber
           n == e.entry.PacketNumber
<1>1. /\ a \in Path /\ b \in Path /\ m \in PacketNumber /\ n \in PacketNumber
      /\ m < v.next[a] /\ n < v.next[b]
      /\ m \in v.departed[a] => v.sent[b][n] \subseteq v.sent[a][m]
  BY DEF EntryOK
<1> SUFFICES /\ a \in Path /\ b \in Path /\ m \in PacketNumber /\ n \in PacketNumber
             /\ m < w.next[a] /\ n < w.next[b]
             /\ m \in w.departed[a] => w.sent[b][n] \subseteq w.sent[a][m]
  BY DEF EntryOK
<1> HIDE DEF a, b, m, n
<1>2. m \in Nat /\ n \in Nat
  BY <1>1, SchedulerAssumption DEF PacketNumber
<1>3. v.next[a] \in Nat /\ v.next[b] \in Nat /\ w.next[a] \in Nat /\ w.next[b] \in Nat
  BY <1>1 DEF WorldOK
<1>4. v.next[a] <= w.next[a] /\ v.next[b] <= w.next[b]
  BY <1>1 DEF Extends
<1>5. /\ w.sent[a][m] = v.sent[a][m] /\ w.sent[b][n] = v.sent[b][n]
      /\ m \in w.departed[a] <=> m \in v.departed[a]
  BY <1>1 DEF Extends
<1> QED BY <1>1, <1>2, <1>3, <1>4, <1>5

-----------------------------------------------------------------------------
(* The inductive invariant *)

CryptoArrived(w, R) == \A f \in CryptoFrame : Arrived(w, R, f)

Inv ==
    /\ paths \subseteq Path
    /\ pending \subseteq Frame
    /\ WorldOK(World)
    /\ ReceivedOK(World, received)
    /\ \A e \in dupPackets : EntryOK(World, e)
    /\ handshakeComplete \/ paths # {InitialPath} => CryptoArrived(World, received)
    /\ closed \/ Accounted(World, pending, received)

\* The two ways to say that the peer has the crypto stream.
LEMMA CryptoArrivedMeans == CryptoFrame \subseteq Delivered <=> CryptoArrived(World, received)
  BY DEF CryptoArrived, Arrived, Delivered, World

\* The invariant implies that no frame is forgotten.
LEMMA InvNoFrameForgotten == Inv => NoFrameForgotten
<1> SUFFICES ASSUME Inv, ~ closed, NEW f \in Frame \ ControlFrame
             PROVE  \/ f \in pending
                    \/ \E p \in Path : f \in FramesOf(TrackedPackets(p))
                    \/ f \in Delivered
  BY DEF NoFrameForgotten
<1>1. f \in pending \/ TrackedIn(World, f) \/ Arrived(World, received, f)
  BY DEF Inv, Accounted
<1>2. Arrived(World, received, f) => f \in Delivered
  BY DEF Arrived, Delivered, World
<1>3. TrackedIn(World, f) => \E p \in Path : f \in FramesOf(TrackedPackets(p))
  BY DEF TrackedIn, World, Tracks, FramesOf, TrackedPackets
<1> QED BY <1>1, <1>2, <1>3

\* The invariant implies that only redundant packets are dropped.
LEMMA InvDropsOnlyRedundantPackets == Inv => DropsOnlyRedundantPackets
  BY DEF Inv, EntryOK, World, DropsOnlyRedundantPackets

\* A world is what its four parts are.
LEMMA WorldParts ==
    ASSUME NEW v, NEW w, v.sph = w.sph, v.next = w.next, v.sent = w.sent, v.departed = w.departed
    PROVE  /\ WorldOK(w) => WorldOK(v)
           /\ \A R : ReceivedOK(w, R) => ReceivedOK(v, R)
           /\ \A e : EntryOK(w, e) => EntryOK(v, e)
           /\ \A R : CryptoArrived(w, R) => CryptoArrived(v, R)
           /\ \A P, R : Accounted(w, P, R) => Accounted(v, P, R)
<1>1. WorldOK(w) => WorldOK(v)
  BY DEF WorldOK, Fits
<1>2. \A f, R : Arrived(w, R, f) => Arrived(v, R, f)
  BY DEF Arrived
<1>3. \A f : TrackedIn(w, f) => TrackedIn(v, f)
  BY DEF TrackedIn
<1>4. \A R : ReceivedOK(w, R) => ReceivedOK(v, R)
  BY DEF ReceivedOK
<1>5. \A e : EntryOK(w, e) => EntryOK(v, e)
  BY DEF EntryOK
<1> QED BY <1>1, <1>2, <1>3, <1>4, <1>5 DEF CryptoArrived, Accounted

\* The invariant holds after a step that leads to the world w.
LEMMA InvAfter ==
    ASSUME NEW w, Becomes(w), WorldOK(w), ReceivedOK(w, received'),
           paths' \subseteq Path, pending' \subseteq Frame,
           \A e \in dupPackets' : EntryOK(w, e),
           handshakeComplete' \/ paths' # {InitialPath} => CryptoArrived(w, received'),
           closed' \/ Accounted(w, pending', received')
    PROVE  Inv'
<1>1. /\ World'.sph = w.sph /\ World'.next = w.next
      /\ World'.sent = w.sent /\ World'.departed = w.departed
  BY DEF World, Becomes
<1>2. /\ WorldOK(World')
      /\ ReceivedOK(World', received')
      /\ \A e \in dupPackets' : EntryOK(World', e)
      /\ handshakeComplete' \/ paths' # {InitialPath} => CryptoArrived(World', received')
      /\ closed' \/ Accounted(World', pending', received')
  BY <1>1, WorldParts
<1> QED BY <1>2 DEF Inv

\* Packets are sent and none is forgotten: the rest of the invariant follows.
LEMMA InvAfterSending ==
    ASSUME NEW v, NEW w, Becomes(w), WorldOK(v), WorldOK(w), Extends(v, w),
           ReceivedOK(v, received), received' = received,
           paths' \subseteq Path, pending' \subseteq Frame,
           \A e \in dupPackets' : EntryOK(v, e) \/ EntryOK(w, e),
           handshakeComplete' \/ paths' # {InitialPath} => CryptoArrived(v, received),
           closed' \/ Accounted(v, pending', received) \/ Accounted(w, pending', received)
    PROVE  Inv'
<1>1. ReceivedOK(w, received')
  BY ArrivedStays
<1>2. \A e \in dupPackets' : EntryOK(w, e)
  BY EntryStays
<1>3. handshakeComplete' \/ paths' # {InitialPath} => CryptoArrived(w, received')
  BY ArrivedStays DEF CryptoArrived
<1>4. closed' \/ Accounted(w, pending', received')
  BY AccountedStays
<1> QED BY <1>1, <1>2, <1>3, <1>4, InvAfter

\* The invariant holds when the session starts.
LEMMA InvInit == Init => Inv
<1> SUFFICES ASSUME Init PROVE Inv
  OBVIOUS
<1>1. IsHandler(NewSentPacketHandler) /\ Tracks(NewSentPacketHandler) = {}
  BY DEF NewSentPacketHandler, IsHandler, Tracks
<1>2. WorldOK(World)
  <2>1. /\ DOMAIN sph = Path
        /\ next \in [Path -> Nat \ {0}]
        /\ sent \in [Path -> [PacketNumber -> SUBSET Frame]]
        /\ departed \in [Path -> SUBSET PacketNumber]
    BY DEF Init
  <2>2. \A p \in Path : IsHandler(sph[p]) /\ Tracks(sph[p]) = {}
    BY <1>1 DEF Init
  <2>3. \A p \in Path, n \in PacketNumber : sent[p][n] = {} /\ n \notin departed[p]
    BY DEF Init
  <2> QED BY <2>1, <2>2, <2>3 DEF WorldOK, World
<1>3. ReceivedOK(World, received)
  BY DEF Init, ReceivedOK, World
<1>4. Accounted(World, pending, received)
  BY DEF Init, Accounted
<1> QED BY <1>2, <1>3, <1>4, SchedulerAssumption DEF Init, Inv

-----------------------------------------------------------------------------
(* getRetransmission *)

\* What is dequeued is pending again, or has arrived with the handshake.
LEMMA DrainedOK ==
    ASSUME Inv, ~ closed, \A p \in paths : HandshakePackets(p) = {}
    PROVE  /\ WorldOK(Drained)
           /\ Drained.next = next /\ Drained.sent = sent /\ Drained.departed = departed
           /\ ReceivedOK(Drained, received)
           /\ \A e \in dupPackets : EntryOK(Drained, e)
           /\ handshakeComplete \/ paths # {InitialPath} => CryptoArrived(Drained, received)
           /\ FramesForRetransmission \subseteq Frame
           /\ Accounted(Drained, pending \cup FramesForRetransmission, received)
<1> DEFINE d == Drained
<1>1. /\ DOMAIN d.sph = Path
      /\ \A p \in Path : d.sph[p] = IF p \in paths THEN DequeueAll(sph[p]) ELSE sph[p]
      /\ d.next = next
      /\ d.sent = sent
      /\ d.departed = departed
  BY DEF Drained, WithHandlers, World
<1> HIDE DEF d
<1>2. World.sph = sph /\ World.next = next /\ World.sent = sent /\ World.departed = departed
  BY DEF World
<1>3. WorldOK(World) /\ ReceivedOK(World, received) /\ Accounted(World, pending, received)
  BY DEF Inv
<1>4. ASSUME NEW p \in Path
      PROVE  /\ IsHandler(sph[p])
             /\ IsHandler(d.sph[p])
             /\ Tracks(d.sph[p]) \subseteq Tracks(sph[p])
             /\ p \notin paths => Tracks(d.sph[p]) = Tracks(sph[p])
             /\ Tracks(sph[p]) \subseteq Tracks(d.sph[p]) \cup Queued(p)
  <2>1. IsHandler(sph[p])
    BY <1>2, <1>3 DEF WorldOK
  <2> QED BY <1>1, <2>1, DequeueAllTracks DEF Tracks, Queued
<1>5. WorldOK(d)
  <2>1. ASSUME NEW p \in Path, NEW k \in Tracks(d.sph[p]) PROVE Fits(d, p, k)
    <3>1. Fits(World, p, k)
      BY <1>2, <1>3, <1>4 DEF WorldOK
    <3> QED BY <1>1, <1>2, <3>1 DEF Fits
  <2> QED BY <1>1, <1>2, <1>3, <1>4, <2>1 DEF WorldOK
<1>6. ReceivedOK(d, received)
  BY <1>1, <1>2, <1>3 DEF ReceivedOK
<1>7. \A e \in dupPackets : EntryOK(d, e)
  BY <1>1, <1>2 DEF Inv, EntryOK
<1>8. \A f : Arrived(World, received, f) <=> Arrived(d, received, f)
  BY <1>1, <1>2 DEF Arrived
<1>9. handshakeComplete \/ paths # {InitialPath} => CryptoArrived(d, received)
  BY <1>8 DEF Inv, CryptoArrived
<1>10. ASSUME NEW p \in Path, NEW k \in Queued(p)
       PROVE  /\ k.Frames \subseteq Frame
              /\ k.EncryptionLevel # "forwardSecure" => k.Frames \subseteq HandshakeFrames
  <2>1. Fits(World, p, k)
    BY <1>2, <1>3 DEF WorldOK, Queued, Tracks
  <2>2. sent[p][k.PacketNumber] \subseteq Frame
    BY <1>2, <1>3, <2>1 DEF WorldOK, Fits
  <2> QED BY <1>2, <2>1, <2>2 DEF Fits
<1>11. FramesForRetransmission \subseteq Frame
  BY <1>10 DEF FramesForRetransmission, FramesOf, ForwardSecure, Inv
<1>12. ASSUME NEW f \in Frame \ ControlFrame, TrackedIn(World, f)
       PROVE  f \in FramesForRetransmission \/ TrackedIn(d, f) \/ Arrived(d, received, f)
  <2>0. PICK p \in Path : \E k \in Tracks(sph[p]) : f \in k.Frames
    BY <1>2, <1>12 DEF TrackedIn
  <2>1. PICK k \in Tracks(sph[p]) : f \in k.Frames
    BY <2>0
  <2>2. CASE k \in Tracks(d.sph[p])
    BY <2>1, <2>2 DEF TrackedIn
  <2>3. CASE k \notin Tracks(d.sph[p])
    <3>1. p \in paths /\ k \in Queued(p)
      BY <1>4, <2>1, <2>3
    <3>2. CASE k.EncryptionLevel = "forwardSecure"
      BY <2>1, <3>1, <3>2 DEF FramesForRetransmission, FramesOf, ForwardSecure
    <3>3. CASE k.EncryptionLevel # "forwardSecure"
      <4>1. handshakeComplete
        BY <3>1, <3>3 DEF HandshakePackets, ForwardSecure
      <4>2. f \in CryptoFrame
        BY <1>10, <2>1, <3>1, <3>3 DEF HandshakeFrames
      <4> QED BY <1>9, <4>1, <4>2 DEF CryptoArrived
    <3> QED BY <3>2, <3>3
  <2> QED BY <2>2, <2>3
<1>13. Accounted(d, pending \cup FramesForRetransmission, received)
  BY <1>3, <1>8, <1>12 DEF Accounted
<1> QED BY <1>1, <1>5, <1>6, <1>7, <1>9, <1>11, <1>13 DEF d
=============================================================================

------------------------------ MODULE Scheduler ------------------------------
(***************************************************************************)
(* scheduler.go: how a session spreads frames over its paths, retransmits  *)
(* them on any path and duplicates them, together with the part of the run *)
(* loop of session.go that drives it (received ACKs and CLOSE_PATHs, path  *)
(* timers, the end of the handshake, new paths).                           *)
(*                                                                         *)
(* The run loop handles one event and then calls sendPacket, whose rounds  *)
(* are the steps taken while `sending' is TRUE.  Which of the eligible     *)
(* paths a round takes depends on the algorithm, RTTs, quotas and          *)
(* congestion windows; the choice is left open.  So is which pending       *)
(* frames fit into a packet and when the flow controllers let them go or   *)
(* ask for a WINDOW_UPDATE.                                                *)
(*                                                                         *)
(* The frames are stream frames, those of the crypto stream among them,    *)
(* and the control frames PING, PATHS and WINDOW_UPDATE, which are made    *)
(* when they are needed.  RST_STREAM, BLOCKED, ADD_ADDRESS and GOAWAY are  *)
(* left out.  A CLOSE_PATH is never made: session.closePath, which may do  *)
(* it, is only called to close without one.                                *)
(*                                                                         *)
(* The peer is honest: an ACK names packets that arrived (AcksAreHonest of *)
(* AckLoop), perhaps not all of them.  An ACK that is out of order changes *)
(* nothing and is left out.                                                *)
(***************************************************************************)
EXTENDS SentPacketHandler

CONSTANTS
    Path, InitialPath,   \* path IDs; protocol.InitialPathID
    Client,              \* is the session the client?
    oppRedundant,        \* SchedulerAlgorithm == "oppRedundant"
    CryptoFrame,         \* frames of the crypto stream
    PingFrame,
    PathsFrame,          \* the PATHS frame, {} if there is none
    WindowUpdateFrame,   \* the WINDOW_UPDATE frames
    MaxPacketNumber,     \* bound: packet numbers of a path
    LastNumber,          \* bound: the last packet number of each path
    FillerBound,         \* bound: the numbers that may be spent on a packet with only an ACK
    MaxAckPackets,       \* bound: ACKs that arrive on a path
    Failable,            \* bound: the paths that may become potentially failed
    Closable             \* bound: the paths that the peer may close

\* The frames of packetPacker.controlFrames.
ControlFrame == {PingFrame} \cup PathsFrame \cup WindowUpdateFrame \cup ClosePathFrame

ASSUME SchedulerAssumption ==
    /\ InitialPath \in Path
    /\ Client \in BOOLEAN
    /\ oppRedundant \in BOOLEAN
    /\ CryptoFrame \subseteq Frame
    /\ ControlFrame \subseteq Frame \ CryptoFrame
    /\ MaxPacketNumber \in Nat
    /\ LastNumber \in [Path -> 0..MaxPacketNumber]
    /\ FillerBound \in Nat
    /\ MaxAckPackets \in Nat
    /\ Failable \subseteq Path
    /\ Closable \subseteq Path

VARIABLES
    paths,               \* the keys of session.paths
    open,                \* path.open, for each path
    closeChan,           \* the paths with an entry in path.closeChan
    potentiallyFailed,   \* path.potentiallyFailed
    level,               \* the level of cryptoSetup.GetSealer()
    handshakeComplete,   \* session.handshakeComplete
    sph,                 \* path.sentPacketHandler
    next,                \* path.packetNumberGenerator.next
    pending,             \* the frames that the streamFramer and the packetPacker hold
    dupPackets,          \* scheduler.dupPackets: the entries of the map
    sent,                \* the frames of each packet that was sent, {} before
    departed,            \* the packets that left, those without such frames included
    received,            \* the packets that arrived at the peer
    sending,             \* is the run loop inside sendPacket?
    closed               \* has an error ended the session?

pathVars == <<paths, open, closeChan, potentiallyFailed>>
keyVars == <<level, handshakeComplete>>
worldVars == <<sph, next, sent, departed>>
vars == <<pathVars, keyVars, worldVars, pending, dupPackets, received, sending, closed>>

PacketNumber == 1..MaxPacketNumber

dupID == [path : Path, PacketNumber : PacketNumber]

Init ==
    /\ paths = {InitialPath}
    /\ open = [p \in Path |-> TRUE]
    /\ closeChan = {}
    /\ potentiallyFailed = [p \in Path |-> FALSE]
    /\ level = "unencrypted"
    /\ handshakeComplete = FALSE
    /\ sph = [p \in Path |-> NewSentPacketHandler]
    /\ next = [p \in Path |-> 1]
    /\ pending = Frame \ ControlFrame
    /\ dupPackets = {}
    /\ sent = [p \in Path |-> [n \in PacketNumber |-> {}]]
    /\ departed = [p \in Path |-> {}]
    /\ received = [p \in Path |-> {}]
    /\ sending = FALSE
    /\ closed = FALSE

Delivered == UNION {UNION {sent[p][n] : n \in received[p]} : p \in Path}

-----------------------------------------------------------------------------
(* Sending.  w = [sph, next, sent, departed] is what sending a packet        *)
(* changes.                                                                  *)

World == [sph |-> sph, next |-> next, sent |-> sent, departed |-> departed]

NewPacket(w, p, F, lvl) ==
    [PacketNumber |-> w.next[p], Frames |-> F, EncryptionLevel |-> lvl, copy |-> FALSE]

HasNumber(w, p) == w.next[p] <= LastNumber[p]

Refused(w, p) == SentPacketRefused(w.sph[p], w.next[p])

\* On each path p of R a packet with the frames F[p], sealed at lvl[p]:
\* writeAndSealPacket takes the number, SentPacket may still refuse the packet.
sendEach(w, R, F, lvl) ==
    LET S == {p \in R : ~ Refused(w, p)}
    IN  [sph  |-> [p \in Path |-> IF p \in S THEN SentPacket(w.sph[p], NewPacket(w, p, F[p], lvl[p]))
                                  ELSE w.sph[p]],
         next |-> [p \in Path |-> IF p \in R THEN w.next[p] + 1 ELSE w.next[p]],
         sent |-> [p \in Path |-> IF p \in S THEN [w.sent[p] EXCEPT ![w.next[p]] = F[p]]
                                  ELSE w.sent[p]],
         departed |-> [p \in Path |-> IF p \in S THEN w.departed[p] \cup {w.next[p]}
                                      ELSE w.departed[p]]]

sendOnAll(w, R, F, lvl) == sendEach(w, R, [p \in R |-> F], [p \in R |-> lvl])

sendPackedPacket(w, p, F, lvl) == sendOnAll(w, {p}, F, lvl)

\* The handlers of w become H.
WithHandlers(w, H) == [sph |-> H, next |-> w.next, sent |-> w.sent, departed |-> w.departed]

WithHandler(w, p, h) == WithHandlers(w, [q \in Path |-> IF q = p THEN h ELSE w.sph[q]])

Becomes(w) == sph' = w.sph /\ next' = w.next /\ sent' = w.sent /\ departed' = w.departed

-----------------------------------------------------------------------------
(* getRetransmission *)

Queued(p) == sph[p].retransmissionQueue

hasRetransmission == \E p \in paths : Queued(p) # {}

ForwardSecure(P) == {k \in P : k.EncryptionLevel = "forwardSecure"}

FramesOf(P) == UNION {k.Frames : k \in P}

\* Mutant: handshake packets are never retransmitted directly.
NoHandshakePackets(p) == {}

\* The packet it would return for a direct retransmission.
HandshakePackets(p) == IF handshakeComplete THEN {} ELSE Queued(p) \ ForwardSecure(Queued(p))

\* All the queues are drained.
Drained ==
    WithHandlers(World, [p \in Path |-> IF p \in paths THEN DequeueAll(sph[p]) ELSE sph[p]])

\* Mutant: only those of the paths that are not potentially failed.
FramesOfWorkingPaths ==
    UNION {FramesOf(ForwardSecure(Queued(p))) : p \in {q \in paths : ~ potentiallyFailed[q]}}

\* The frames that go back to the streamFramer and the packetPacker: for a PATHS frame
\* a new one; a WINDOW_UPDATE that is out of date does not go back, here it may stay
\* where it is and never be packed.
FramesForRetransmission == UNION {FramesOf(ForwardSecure(Queued(p))) : p \in paths}

-----------------------------------------------------------------------------
(* selectPath, selectRedundantPaths *)

\* Some scheduler may take these whatever their congestion windows.
Candidates ==
    IF paths = {InitialPath} THEN paths
    ELSE {p \in paths \ {InitialPath} : ~ potentiallyFailed[p]}

CongestionPermitting(p) == hasRetransmission \/ (open[p] /\ SendingAllowed(sph[p], FALSE))

\* The retransmission goes on another path when the first one has not been probed.
Reinjection(p) ==
    /\ ~ oppRedundant
    /\ p # InitialPath
    /\ \E from \in paths \ {p} : Queued(from) # {} /\ ~ sph[from].hasRTT

Selectable ==
    {p \in Candidates : CongestionPermitting(p)} \cup {p \in paths : Reinjection(p)}

\* nil: no path, or their congestion windows are full.
NoneSelectable == hasRetransmission => Candidates = {}

-----------------------------------------------------------------------------
(* The rounds of sendPacket *)

\* Mutant: data is sent at any level.
sendDataAlways == level \in EncryptionLevel

canSendData == IF Client THEN level # "unencrypted" ELSE level = "forwardSecure"

\* What PackPacket takes a packet from: crypto stream frames go alone, control frames
\* go at any level.
Packable(all) ==
    IF all \cap CryptoFrame # {} THEN all \cap CryptoFrame
    ELSE IF canSendData THEN all ELSE all \cap ControlFrame

\* performPacketSending adds a PING when too many packets need no ACK.
FramesToSend(p) ==
    pending \cup FramesForRetransmission
            \cup IF ShouldSendRetransmittablePacket(sph[p]) THEN {PingFrame} ELSE {}

\* packCryptoPacket seals below forward security.
LevelOf(F) == IF F \cap CryptoFrame # {} THEN "unencrypted" ELSE level

\* fromPth, the last path a packet was dequeued from, is pinged if it may have failed.
PathsToPing ==
    IF hasRetransmission
    THEN {{from} \cap {p \in paths : potentiallyFailed[p]} : from \in {p \in paths : Queued(p) # {}}}
    ELSE {{}}

\* Mutant: a PING is not copied, though IsDupDropable lets it pass.
CopyWithoutPing(F) == F \ (ClosePathFrame \cup {PingFrame})

\* Packet.GetCopyFrames
GetCopyFrames(F) == F \ ClosePathFrame

NothingToCopy(F) == oppRedundant /\ GetCopyFrames(F) = {}

\* The dupID of the packet that p sends next.
NextID(w, p) == [path |-> p, PacketNumber |-> w.next[p]]

\* dupPackets after the packet of p was copied to the paths of R, to `last' in the
\* end; the entries back are there if the packet IsDupDropable.
AddMappings(w, p, R, last, dropable) ==
    IF R = {} THEN dupPackets
    ELSE {e \in dupPackets : e.key \notin {NextID(w, q) : q \in R \cup {p}}}
         \cup {[key |-> NextID(w, p), entry |-> NextID(w, last)]}
         \cup IF dropable THEN {[key |-> NextID(w, q), entry |-> NextID(w, p)] : q \in R} ELSE {}

\* The copies go to the paths selectRedundantPaths found before the packet was sent.
RedundantPaths(p, F) ==
    LET others == {q \in Candidates \ {p, InitialPath} : CongestionPermitting(q) /\ HasNumber(World, q)}
    IN  IF ~ oppRedundant THEN {{}}
        ELSE IF hasRetransmission THEN {others} ELSE SUBSET others

\* Another path may take a duplicate, because the RTT of p is not known yet.
MayDuplicate(p) ==
    /\ ~ oppRedundant
    /\ ~ sph[p].hasRTT
    /\ \E q \in paths \ {p, InitialPath} : SendingAllowed(Drained.sph[q], FALSE)

hasStreamRetransmission == FramesForRetransmission \ ControlFrame # {}

\* The queues are drained and path p gets a STOP_WAITING, for stream retransmissions or
\* with an ACK.  Once there was a frame, `force' makes no difference to the handler.
WithStopWaiting(p, swf) ==
    IF swf THEN WithHandler(Drained, p, GetStopWaitingFrame(Drained.sph[p], hasStreamRetransmission))
    ELSE Drained

WithStopWaitings(w, S) ==
    WithHandlers(w, [p \in Path |-> IF p \in S THEN GetStopWaitingFrame(w.sph[p], FALSE) ELSE w.sph[p]])

\* The packets that PackPacket makes on the paths B, from the frames `all' and the
\* WINDOW_UPDATEs W that were just queued on each of them: the newest control frames are
\* packed first, and a PING goes alone.
WindowUpdatePackets(B, all, W) ==
    {G \in [B -> SUBSET (all \cup W)] :
        /\ \A p, q \in B : p # q => G[p] \cap G[q] \subseteq W
        /\ \A p \in B :
              \/ G[p] # {} /\ G[p] \subseteq CryptoFrame
              \/ /\ all \cap CryptoFrame \subseteq UNION {G[q] : q \in B}
                 /\ G[p] \subseteq IF canSendData THEN Frame \ CryptoFrame ELSE ControlFrame
                 /\ G[p] = {PingFrame} \/ G[p] \cap W # {}}

\* The end of sendPacket, when the frames `all' wait: the paths A send the ACKs that are
\* due.  With WINDOW_UPDATEs W, every other path but the initial one sends a packet,
\* whatever its state; those that were queued last stay.
AckRemainingPaths(w, all) ==
    \E A \in SUBSET paths, W \in SUBSET WindowUpdateFrame :
    LET B == IF W = {} THEN {} ELSE paths \ (A \cup {InitialPath})
        v == WithStopWaitings(w, A \cup B)
    IN  /\ \A p \in A \cup B : HasNumber(w, p)
        /\ \A p \in A : w.next[p] <= FillerBound
        /\ \E G \in WindowUpdatePackets(B, all, W), stay \in {{}, W} :
              LET F == [p \in A \cup B |-> IF p \in B THEN G[p] ELSE {}]
              IN  /\ Becomes(sendEach(v, A \cup B, F, [p \in A \cup B |-> LevelOf(F[p])]))
                  /\ pending' = (all \ UNION {G[p] : p \in B}) \cup stay
        /\ closed' = \E p \in A \cup B : Refused(v, p)
        /\ sending' = FALSE
        /\ UNCHANGED <<pathVars, keyVars, dupPackets, received>>

\* A packet with the frames F leaves on p: performPacketSending, which sends every
\* WINDOW_UPDATE twice, DuplicatePacket, the copies on the paths R, and a PING on the
\* paths f.
SendFrames(p, F, swf, duplicate, R, last, dropable, f) ==
    LET w0 == WithStopWaiting(p, swf)
        w1 == sendPackedPacket(w0, p, F, LevelOf(F))
        w2 == IF duplicate
              THEN WithHandler(w1, p, DuplicatePacket(w1.sph[p], NewPacket(w0, p, F, LevelOf(F))))
              ELSE w1
        w3 == sendOnAll(w2, R, GetCopyFrames(F), level)
    IN  /\ ~ NothingToCopy(F)
        /\ ~ Refused(w0, p)
        /\ \A q \in f : HasNumber(w3, q)
        /\ Becomes(sendOnAll(w3, f, {PingFrame}, level))
        /\ \E again \in SUBSET (F \cap WindowUpdateFrame) :
              pending' = (FramesToSend(p) \ F) \cup again
        /\ dupPackets' = AddMappings(w0, p, R, last, dropable)
        /\ closed' = \E q \in f : Refused(w3, q)
        /\ sending' = ~ closed'

\* A packet of which no frame can be copied, with only an ACK, is the last one of
\* sendPacket.
SendUncopied(p, F, swf) ==
    LET w0 == WithStopWaiting(p, swf)
    IN  /\ NothingToCopy(F)
        /\ ~ Refused(w0, p)
        /\ AckRemainingPaths(sendPackedPacket(w0, p, F, LevelOf(F)), FramesToSend(p) \ F)

\* SentPacket refuses the packet; sendPacket returns its error.
SendFails(p, F, swf) ==
    LET w0 == WithStopWaiting(p, swf)
    IN  /\ Refused(w0, p)
        /\ Becomes(sendPackedPacket(w0, p, F, LevelOf(F)))
        /\ pending' = FramesToSend(p) \ F
        /\ closed' = TRUE
        /\ sending' = FALSE
        /\ UNCHANGED dupPackets

\* A round without a handshake packet; F = {}: with only an ACK.
SendPacket(p) ==
    /\ sending /\ ~ closed
    /\ \A q \in paths : HandshakePackets(q) = {}
    /\ p \in Selectable
    /\ HasNumber(World, p)
    /\ \E F \in SUBSET Packable(FramesToSend(p)), swf \in BOOLEAN :
          /\ F = {} => /\ next[p] <= FillerBound
                       /\ FramesToSend(p) \cap (CryptoFrame \cup ControlFrame) = {}
          /\ F = {} \/ hasStreamRetransmission => swf
          /\ \/ SendFails(p, F, swf)
             \/ SendUncopied(p, F, swf)
             \/ \E duplicate \in BOOLEAN, R \in RedundantPaths(p, F), f \in PathsToPing :
                \E last \in IF R = {} THEN {p} ELSE R, dropable \in BOOLEAN :
                   /\ duplicate => MayDuplicate(p)
                   /\ dropable => R # {} /\ F \cap ClosePathFrame = {}
                   /\ SendFrames(p, F, swf, duplicate, R, last, dropable, f)
    /\ UNCHANGED <<pathVars, keyVars, received>>

\* The packets that getRetransmission may dequeue before it finds a handshake packet.
DequeuedFirst ==
    {D \in [Path -> SUBSET UNION {ForwardSecure(Queued(r)) : r \in paths}] :
        \A r \in Path : D[r] \subseteq IF r \in paths THEN ForwardSecure(Queued(r)) ELSE {}}

\* The handshake packet k of path p is dequeued, after the packets D.
WithoutHandshakePacket(p, k, D) ==
    WithHandlers(World, [q \in Path |-> [sph[q] EXCEPT !.retransmissionQueue =
                                            @ \ (IF q = p THEN D[q] \cup {k} ELSE D[q])]])

\* A round that retransmits a handshake packet, on path q; without a STOP_WAITING it
\* is an error.
SendHandshakePacket(p, q) ==
    /\ sending /\ ~ closed
    /\ p \in paths
    /\ q \in Selectable
    /\ HasNumber(World, q)
    /\ \E k \in HandshakePackets(p), D \in DequeuedFirst :
       LET w0 == WithoutHandshakePacket(p, k, D)
           w1 == WithHandler(w0, q, GetStopWaitingFrame(w0.sph[q], TRUE))
           w2 == sendPackedPacket(w1, q, k.Frames, k.EncryptionLevel)
       IN  /\ pending' = pending \cup UNION {FramesOf(D[r]) : r \in Path}
           /\ closed' = (LeastUnackedToSend(w0.sph[q], TRUE) = 0 \/ Refused(w1, q))
           /\ Becomes(IF LeastUnackedToSend(w0.sph[q], TRUE) = 0 THEN w1 ELSE w2)
           /\ sending' = ~ closed'
    /\ UNCHANGED <<pathVars, keyVars, dupPackets, received>>

\* Frames that are retransmitted wait for no window: a round with a path sends some.
MustSend ==
    /\ FramesForRetransmission \ WindowUpdateFrame # {}
    /\ canSendData
    /\ \E p \in Candidates : HasNumber(World, p)

\* The last round: no path may send, or there is nothing to send.
EndSending ==
    /\ sending /\ ~ closed
    /\ ~ MustSend
    /\ \A q \in paths : HandshakePackets(q) = {}
    /\ AckRemainingPaths(Drained, pending \cup FramesForRetransmission)

\* The handshake packet that was dequeued is gone.
EndSendingHandshake(p) ==
    /\ sending /\ ~ closed
    /\ p \in paths
    /\ NoneSelectable
    /\ \E k \in HandshakePackets(p), D \in DequeuedFirst :
          AckRemainingPaths(WithoutHandshakePacket(p, k, D),
                            pending \cup UNION {FramesOf(D[r]) : r \in Path})

-----------------------------------------------------------------------------
(* The events of the run loop, each followed by sendPacket *)

\* The frames P wait after the event; sendPacket begins with the WINDOW_UPDATEs that
\* are due.
Event(P) ==
    /\ ~ sending /\ ~ closed
    /\ sending' = TRUE
    /\ \E W \in SUBSET WindowUpdateFrame : pending' = P \cup W

\* scheduler.crossAckHandling for the packets P of path p: their duplicates are
\* removed from the other paths, and the entries both ways.
crossAckHandling(S, p, P) ==
    LET keys == {[path |-> p, PacketNumber |-> n] : n \in PacketNumbers(P)}
        entries == {e.entry : e \in {d \in dupPackets : d.key \in keys}}
        Dropped(q) == PacketNumbers({d \in entries : d.path = q})
    IN  /\ sph' = [q \in Path |-> RemovePacketsByNumber(S[q], Dropped(q))]
        /\ dupPackets' = {e \in dupPackets : e.key \notin keys \cup entries}

Ack(A) == [LargestAcked |-> Max(A), acked |-> A]

\* path.handlePacketImpl of a packet with an ACK: handleAckFrame.
ReceiveAck(p) ==
    /\ Event(pending)
    /\ p \in paths /\ open[p]
    /\ sph[p].largestReceivedPacketWithAck < MaxAckPackets
    /\ \E A \in SUBSET received[p], k \in 0..next[p] - 1 :
       LET n == sph[p].largestReceivedPacketWithAck + 1
       IN  /\ A # {}
           /\ crossAckHandling([sph EXCEPT ![p] = ReceivedAck(@, Ack(A), n, k)], p,
                               AckedBy(sph[p], Ack(A), n))
           /\ closed' = AckIsFatal(sph[p], Ack(A), n)
    /\ potentiallyFailed' = [potentiallyFailed EXCEPT ![p] = FALSE]
    /\ UNCHANGED <<paths, open, closeChan, keyVars, next, sent, departed, received>>

\* path.handlePacketImpl of a packet without an ACK, perhaps with an ADD_ADDRESS, which
\* the peer sends once its handshake is complete: it makes a PATHS frame due.
ReceivePacket(p) ==
    /\ \/ Event(pending)
       \/ level = "forwardSecure" /\ Event(pending \cup PathsFrame)
    /\ p \in paths /\ open[p]
    /\ potentiallyFailed' = [potentiallyFailed EXCEPT ![p] = FALSE]
    /\ UNCHANGED <<paths, open, closeChan, keyVars, worldVars, dupPackets, received, closed>>

\* A PATHS frame, on path q: the peer finds that p is potentially failed.
ReceivePathsFrame(p) ==
    /\ Event(pending)
    /\ p \in paths \cap Failable
    /\ \E q \in paths :
          /\ open[q]
          /\ potentiallyFailed' = [potentiallyFailed EXCEPT ![q] = FALSE, ![p] = TRUE]
    /\ UNCHANGED <<paths, open, closeChan, keyVars, worldVars, dupPackets, received, closed>>

\* handleClosePathFrame, for path p in a packet on path q.  The packet number that is
\* compared is the last one that came on p, whether it brought an ACK or not.
ReceiveClosePath(p) ==
    /\ Event(pending)
    /\ p \in paths \cap Closable
    /\ \E q \in paths :
          /\ open[q]
          /\ potentiallyFailed' = [potentiallyFailed EXCEPT ![q] = FALSE]
    /\ closeChan' = IF open[p] THEN closeChan \cup {p} ELSE closeChan
    /\ \E A \in SUBSET received[p], n \in {0, 1} :
       LET last == sph[p].largestReceivedPacketWithAck + n
       IN  /\ A # {}
           /\ last \in 1..MaxAckPackets
           /\ crossAckHandling([sph EXCEPT ![p] = ReceivedClosePath(@, Ack(A), last)], p,
                               AckedByClosePath(sph[p], Ack(A), last))
    /\ UNCHANGED <<paths, open, keyVars, next, sent, departed, received, closed>>

\* path.run: the timer of an open path; the run loop calls OnAlarm.  path.onRTO makes a
\* PATHS frame due when it finds the path potentially failed.
PathTimer(p) ==
    /\ p \in paths /\ open[p]
    /\ sph[p].alarm
    /\ \E k \in 0..next[p] - 1, failed \in BOOLEAN :
          /\ failed => AlarmIsRTO(sph[p]) /\ p \in Failable
          /\ Event(IF failed THEN pending \cup PathsFrame ELSE pending)
          /\ sph' = [sph EXCEPT ![p] = OnAlarm(@, k, failed)]
          /\ potentiallyFailed' = [potentiallyFailed EXCEPT ![p] = @ \/ failed]
    /\ UNCHANGED <<paths, open, closeChan, keyVars, next, dupPackets, sent, departed, received, closed>>

\* The session timer, sendingScheduled or a new key.
WakeUp ==
    /\ Event(pending)
    /\ UNCHANGED <<pathVars, keyVars, worldVars, dupPackets, received, closed>>

\* aeadChanged was closed: the peer has the crypto stream.
CompleteHandshake ==
    /\ Event(pending)
    /\ ~ handshakeComplete
    /\ level = "forwardSecure"
    /\ CryptoFrame \subseteq Delivered
    /\ handshakeComplete' = TRUE
    /\ UNCHANGED <<pathVars, level, worldVars, dupPackets, received, closed>>

\* createPathFromRemote.  The peer uses a path once its own handshake is complete.
CreatePathFromRemote(p) ==
    /\ Event(pending)
    /\ p \notin paths
    /\ IF Client THEN handshakeComplete
       ELSE level = "forwardSecure" /\ CryptoFrame \subseteq Delivered
    /\ paths' = paths \cup {p}
    /\ UNCHANGED <<open, closeChan, potentiallyFailed, keyVars, worldVars, dupPackets, received, closed>>

-----------------------------------------------------------------------------
(* The other goroutines and the peer *)

\* The goroutine of the crypto setup: a client may send data in secure packets.
NewKeys ==
    /\ ~ closed
    /\ level' \in IF Client /\ level = "unencrypted" THEN {"secure"} ELSE {"forwardSecure"}
    /\ Client /\ level' = "forwardSecure" => CryptoFrame \subseteq Delivered
    /\ level' # level
    /\ UNCHANGED <<pathVars, handshakeComplete, worldVars, pending, dupPackets, received, sending, closed>>

\* The goroutine of the path manager: createPath, with its PING.
CreatePath(p) ==
    /\ ~ closed
    /\ handshakeComplete
    /\ p \notin paths
    /\ HasNumber(World, p)
    /\ paths' = paths \cup {p}
    /\ Becomes(sendPackedPacket(World, p, {PingFrame}, level))
    /\ UNCHANGED <<open, closeChan, potentiallyFailed, keyVars, pending, dupPackets, received, sending, closed>>

\* A PATHS frame is due: every 200 ms, at the end of an iteration of the run loop, or
\* when the goroutine of the path manager has created its paths.
SchedulePathsFrame ==
    /\ ~ closed
    /\ handshakeComplete
    /\ pending' = pending \cup PathsFrame
    /\ UNCHANGED <<pathVars, keyVars, worldVars, dupPackets, received, sending, closed>>

\* The goroutine of a path finds the entry in its closeChan and ends.
PathRunEnds(p) ==
    /\ p \in closeChan
    /\ closeChan' = closeChan \ {p}
    /\ open' = [open EXCEPT ![p] = FALSE]
    /\ UNCHANGED <<paths, potentiallyFailed, keyVars, worldVars, pending, dupPackets, received, sending, closed>>

\* A packet arrives at the peer.  The rounds of sendPacket do not read what arrived,
\* so an arrival during them is put off to their end.
Arrive(p) ==
    /\ ~ sending
    /\ \E n \in departed[p] \ received[p] :
          received' = [received EXCEPT ![p] = @ \cup {n}]
    /\ UNCHANGED <<pathVars, keyVars, worldVars, pending, dupPackets, sending, closed>>

PathEvent(p) ==
    \/ ReceiveAck(p)
    \/ ReceivePacket(p)
    \/ ReceivePathsFrame(p)
    \/ ReceiveClosePath(p)
    \/ PathTimer(p)
    \/ CreatePathFromRemote(p)

Round(p) ==
    \/ SendPacket(p)
    \/ \E q \in Path : SendHandshakePacket(p, q)
    \/ EndSendingHandshake(p)

Next ==
    \/ \E p \in Path : PathEvent(p) \/ Round(p) \/ CreatePath(p) \/ PathRunEnds(p) \/ Arrive(p)
    \/ EndSending
    \/ WakeUp
    \/ CompleteHandshake
    \/ NewKeys
    \/ SchedulePathsFrame

Spec == Init /\ [][Next]_vars

-----------------------------------------------------------------------------
\* The type of the session, its paths and the map of duplicates; every sentPacketHandler
\* stays within its limits: the packets in its history, those it tracks in all, one more
\* because of DuplicatePacket, the skipped packet numbers and the tail loss probes.
TypeOK ==
    /\ InitialPath \in paths /\ paths \subseteq Path
    /\ open \in [Path -> BOOLEAN]
    /\ closeChan \subseteq paths
    /\ potentiallyFailed \in [Path -> BOOLEAN]
    /\ level \in EncryptionLevel
    /\ handshakeComplete \in BOOLEAN
    /\ sph \in [Path -> SentPacketHandlers]
    /\ next \in [Path -> 1..MaxPacketNumber + 1]
    /\ pending \subseteq Frame
    /\ dupPackets \subseteq [key : dupID, entry : dupID]
    /\ sent \in [Path -> [PacketNumber -> SUBSET Frame]]
    /\ departed \in [Path -> SUBSET PacketNumber]
    /\ received \in [Path -> SUBSET PacketNumber]
    /\ sending \in BOOLEAN
    /\ closed \in BOOLEAN

TrackedPackets(p) == sph[p].packetHistory \cup sph[p].retransmissionQueue

\* Whatever is lost, reordered, reinjected on another path or dropped because a
\* duplicate was acknowledged: as long as no error closes the session, a stream frame
\* that it took to send is still waiting to be packed, tracked on some path, or has
\* arrived.
NoFrameForgotten ==
    closed \/ \A f \in Frame \ ControlFrame :
                  \/ f \in pending
                  \/ \E p \in Path : f \in FramesOf(TrackedPackets(p))
                  \/ f \in Delivered

\* The acknowledgment of a packet drops its entry in dupPackets (crossAckHandling):
\* the packet dropped carries no frame that the acknowledged one did not carry.  An
\* entry whose key is a copy that SentPacket refused is never looked up.
DropsOnlyRedundantPackets ==
    \A e \in dupPackets :
        e.key.PacketNumber \in departed[e.key.path] =>
            sent[e.entry.path][e.entry.PacketNumber] \subseteq sent[e.key.path][e.key.PacketNumber]

\* With duplicates dropped on one path by ACKs of another, bytesInFlight of every
\* path is the sum of the packets it has in flight.
BytesInFlightExact ==
    \A p \in Path : sph[p].bytesInFlight = TotalLength(sph[p].packetHistory)

\* getRetransmission drops what "handshake packets" it finds in the queues after the
\* handshake.  They have no stream data: nothing but crypto stream frames and the
\* control frames that may leave below forward security too.
NoDataIsDropped ==
    handshakeComplete =>
        \A p \in paths :
            FramesOf(Queued(p) \ ForwardSecure(Queued(p))) \subseteq CryptoFrame \cup ControlFrame

\* PackHandshakeRetransmission: a handshake packet always gets a STOP_WAITING.
HandshakeRetransmissionHasStopWaiting ==
    sending /\ ~ closed =>
        \A p \in paths, q \in Selectable :
            HandshakePackets(p) # {} => LeastUnackedToSend(sph[q], TRUE) # 0

\* handleClosePathFrame lets the host retransmit what was sent on the path and not
\* acknowledged by the CLOSE_PATH frame: nothing stays in the history.
ClosedPathKeepsNothing ==
    [][\A p \in closeChan' \ closeChan : sph'[p].packetHistory = {}]_vars
=============================================================================

# Verification of the multipath QUIC transport

TLA+ modules, TLC configurations and TLAPS proofs for the transport in
`src/mpquic-go/src/github/lucas-clemente/quic-go` (all paths below are relative to it).
`PROJECT.json` holds the machine-readable part: the lines each definition models, the runs,
the hazards, the findings and the theorems.

## 1. The system

A session carries streams over several paths. Everything a session does happens in the run
loop of `session.go`: it takes one event (a received packet, a path's timer, a new key, a
wish to send), handles it, and calls `scheduler.sendPacket`, which sends packets in rounds
until nothing more can go. Other goroutines are those of the paths (`path.run`, timers), of the
path manager, of the crypto setup and of the application that reads and writes streams.

| Part | Source | State | Operations | Talks to |
|---|---|---|---|---|
| received packet history | `ackhandler/received_packet_history.go` | list of intervals | `ReceivedPacket`, `DeleteUpTo`, `GetAckRanges` | received packet handler |
| received packet handler | `ackhandler/received_packet_handler.go` | largest observed, lower limit, queued ACK and its alarm, counters | `ReceivedPacket`, `SetLowerLimit`, `GetAckFrame` | path, session |
| sent packet handler | `ackhandler/sent_packet_handler.go`, `stop_waiting_manager.go` | packet history, retransmission queue, skipped numbers, bytes in flight, alarms, probes | `SentPacket`, `ReceivedAck`, `ReceivedClosePath`, `OnAlarm`, `SetInflightAsLost`, `DuplicatePacket`, `RemovePacketByNumber`, `GetStopWaitingFrame` | path, session, scheduler, congestion control |
| scheduler | `scheduler.go` | map of duplicates, quotas | `sendPacket` and what it calls, `crossAckHandling` | all paths, packer, framer |
| session | `session.go` | paths, handshake state, closed paths, undecryptable packets | run loop, frame handlers, close | everything |
| path | `path.go` | open, potentially failed, timer, channels | `handlePacketImpl`, `run`, `onRTO`, `close` | session |
| path manager | `path_manager.go`, `pconn_manager.go` | next path ID, addresses | `createPath`, `createPathFromRemote`, `closePath` | session |
| packet packer | `packet_packer.go` | control frames | `PackPacket` and its variants | scheduler, crypto setup |
| packet number generator | `packet_number_generator.go` | next, next to skip | `Pop` | packer |
| stream, frame sorter, framer | `stream.go`, `stream_frame_sorter.go`, `stream_framer.go` | queue, gaps, read position; data to write; frames to retransmit | `Push`, `Head`, `Pop`, `Read`, `Write`, `Cancel`, `Reset` | session, flow control |
| streams map | `streams_map.go` | streams, limits, next to accept | open, accept, remove | session, application |
| flow control | `internal/flowcontrol` | windows of streams and connection | update, read, send | stream, framer |
| congestion | `congestion` | windows, RTTs | callbacks | sent packet handler |
| handshake, crypto | `internal/handshake`, `internal/crypto` | keys, messages | `HandleCryptoStream`, sealers | session, packer |
| wire format | `internal/wire` | none | parse, write | packer, unpacker |
| client, server, h2quic, traffic-gen, caddy, AStream | | | applications and set-up | session |

What makes it hard: packets and ACKs are lost, duplicated and reordered; timers fire while an
ACK is on its way; frames move between paths, are duplicated, and the acknowledgment of one
copy removes another; paths fail and close; the first path is abandoned after the
handshake; keys change while packets wait for retransmission; a reader copies from a frame
while another goroutine rearranges the queue. The hazards in `PROJECT.json` list each place.

## 2. The modules

**Received packets.** `PacketIntervals` has the walks over the list of intervals as
operators. `ReceivedPacketHistory` is the component; `ReceivedPackets` is what it promises (a
set of numbers), and `ImplementsSet` is the refinement, with `Covered(ranges)` as the mapping.
`ReceivedPacketHistoryProofs` proves it for all constants; the run checks the step property
behind it, `CallsAreExact`.

**Handlers of a path.** `SentPacketHandler` and `ReceivedPacketHandler` describe each method
as an operator from a record (the struct) to a record, so that the compositions can use one
handler or one per path. A packet's frames are a set; its length is 1 plus their number.
Time: packets with higher numbers are not older, so "older than the loss delay" is "up to
some number `k`", a parameter; a deadline is a boolean, set or not. Smoothed RTT is known or
not. What congestion control allows is a nondeterministic choice. The types of the two
records, `SentPacketHandlers` and `ReceivedPacketHandlers`, contain the limits of the code:
tracked packets (one more than `MaxTrackedSentPackets`, because `DuplicatePacket` does not
look), skipped numbers, probes, ranges.

**One path, both ends.** `AckLoop` composes a sender, the network and a receiver. With
`Duplication` a packet stays in the network for ever, so that it may arrive never, late or
several times. Without it packets are dropped explicitly, at most `MaxLosses` of them.

**All paths.** `Scheduler` has a sent packet handler per path and the events and
rounds of the run loop. Each event sets `sending`; the rounds of `sendPacket` follow until one of
the `EndSending` steps. `SendPacket` is a whole round: the queues of all paths are
drained, a STOP_WAITING is made, the packet is sealed and registered, it may be queued again
as a duplicate (unprobed path) or copied to other paths (`oppRedundant`), the map of
duplicates is updated, and a path that may have failed is pinged. The steps of the crypto
setup, of the path manager and of the path goroutines interleave with the rounds.
The peer is a set of arrived packets, those with only an ACK included, and acknowledges any
nonempty subset of them; `AcksAreHonest` of `AckLoop` justifies that.

The frames are stream frames, those of the crypto stream among them, and control frames.
`Packable` is what `PackPacket` takes a packet from: crypto stream frames alone, otherwise
everything, or only the control frames (at any level) while `canSendData` is false. The control
frames are the PING, the PATHS frame, which becomes due at the places that call
`schedulePathsFrame`, and the WINDOW_UPDATEs, which become due when the flow controllers say
so, are sent twice and which `AckRemainingPaths` sends on every path but the initial one,
failed and closed ones too. `NoFrameForgotten` is about stream frames; a control frame may
be lost. A PATHS frame that a server sends before it has its keys is dropped from the queue
after the handshake and not made again. No CLOSE_PATH frame is ever sent, because
`handleClosePathFrame`, the only caller of `session.closePath`, asks for none; the constant
`ClosePathFrame` is empty in all runs, and the theorems hold for any value of it.

**Streams.** `StreamFrameSorter` is the receive queue and the data path of `Read`, in two steps
because `Read` releases the mutex while it copies. The peer may send any part of the data
any number of times, which is what splitting in `stream_framer.go` together with late
originals gives. `FinWithData` chooses whether the FIN comes with data or alone.

**Packet numbers.** `PacketNumberGenerator`.

The modules named `MC...` give sets of model values. Operators commented "Mutant" are not
part of the model: each is a plausible mistake that makes a property fail.

## 3. The runs

| Run | Configuration | Distinct states | What it shows |
|---|---|---|---|
| received_history | 9 numbers, 4 ranges | 5 621 | intervals stay canonical and within the limit, calls are exact |
| ack_loop | 3 packets, 2 ACKs, duplication, 2 frames, 1 skipped number kept | 239 910 | reliability, honest ACKs, bookkeeping and limits of both handlers |
| ack_loop_live | 2 losses, 8 packets, 8 ACKs | 7 752 | everything arrives and is acknowledged |
| scheduler_redundant | 3 paths, copies, a path fails and closes | 676 296 | frames survive copies and cross-path ACKs |
| scheduler_reinjection | 3 paths, duplicates on unprobed paths, a WINDOW_UPDATE | 733 399 | frames survive reinjection and failure |
| scheduler_handshake | server, 2 paths, keys that change, a PATHS frame, 1 tracked packet per path | 1 236 216 | no stream data is dropped with the handshake packets, the limits hold |
| stream_frame_sorter | 6 bytes, 3 gaps | 2 570 | gaps are exact, nothing is stuck, reader and writer agree, the stream is read to its end |

The other five runs are expected to end in a violation: each checks what a comment, an error
message or a test of the repository says, and the code does something else (section 6).

**Bounds.** Packet numbers are few because a packet that was acknowledged or replaced has no
further influence: three numbers on a path give a hole, a packet above it and a
retransmission. Limits of the code (5000 tracked packets, 2500 ranges or gaps, 10 skipped
numbers, 19 packets without an ACK, 2 probes) are constants and small, so that they are
reached: skipped numbers and probes in ack_loop, ranges in received_history, tracked packets
in scheduler_handshake. `FillerBound` limits the numbers spent on packets that carry only an
ACK and, in `AckLoop`, those that are skipped.
Several scheduler runs give only one path a second number, fail or close only one path, and
let one or two ACK packets arrive per path; three paths are needed because the initial one is
not used once there are others. The sorter's six bytes allow more gaps than the limit with queued
frames between them, and a frame that covers several of them.
`CHECK_DEADLOCK FALSE` is set because all bounded systems stop when their numbers are spent
and the transport may be idle.
Data frames are interchangeable in ack_loop, scheduler_redundant and close_path, which declare
the symmetry; no run with a liveness property uses symmetry.

**Fairness.** `AckLoop`: weak fairness of sending, of both deliveries, of ACKs and of the
alarm. The run loops are `for` loops that always come back to their `select`, timers that are set
fire, and a network that drops finitely many packets delivers the others. `PatientTimers`
makes the alarm wait until nothing is on its way: otherwise spurious RTOs would use up the
bounded packet numbers, which the code's own numbers do not do. `StreamFrameSorter`: every
byte and the FIN arrive (`EverythingArrives`) and the application keeps reading.

## 4. The proofs

`ReceivedPacketHistoryProofs`, for all limits and numbers: `HistoryInvariant` (type and
`Separated`), `HistoryCallsAreExact`, `HistoryImplementsSet`. Type correctness and
`Separated` together are inductive: an insertion looks only at the neighbours of the place
where its walk stops, so that the result is separated follows from the separation of the
list before. Lemmas describe each outcome of an insertion (contained, extended at an end,
merged, new interval) and the number of intervals a deletion removes.

`SchedulerProofs`, for all sets of paths and frames, all limits and both values of
`oppRedundant`: `SchedulerInvariant`, `SchedulerForgetsNoFrame` (`NoFrameForgotten`) and
`SchedulerDropsOnlyRedundantPackets`. They are proved for a server (`ASSUME ~ Client`),
because for a client `NoFrameForgotten` is not true (the early_data finding). Reliability alone is not
inductive. The invariant `Inv` adds:

* the handlers of all paths track only packets that were sent, with those frames, and
  packets below forward security have only crypto stream frames and control frames (otherwise
  dropping them after the handshake would lose data);
* packet numbers that were not yet taken are fresh: no packet and no acknowledgment knows
  them (otherwise a mapping could come to mean another packet);
* every mapping leads from a packet to one whose frames are a subset of its own, as soon as
  the first has left (otherwise a cross-path acknowledgment could drop data). A copy that
  `SentPacket` refused never leaves, so that its entry is never looked up;
* packets that arrived have left;
* once the handshake is complete or there is a second path, the crypto stream has arrived;
* unless the session was closed, every stream frame is accounted for.

The argument: sending only moves a frame from pending or a queue to a history; loss
detection moves packets from a history to a queue; an ACK removes packets whose frames
have arrived; a cross-path acknowledgment removes packets whose frames are among those.

The assumptions are the `ASSUME`s of the modules: constants are numbers, sets of
frames and paths of the right kind.

**Only model-checked:** liveness; the properties of `AckLoop`; `BytesInFlightExact`, which is
about sums over sets; the limits of the handlers (`TypeOK`); `NoDataIsDropped`; the stream
frame sorter.

## 5. What is not modelled

Congestion windows, pacing and RTT values (real-valued; only their outcomes matter to the
properties); packet and frame encoding; cryptography and handshake messages; sockets and
addresses; logging and statistics; the applications. Of the frames, RST_STREAM, BLOCKED,
ADD_ADDRESS (but for the PATHS frame it makes due) and GOAWAY, and the PINGs that keep an idle
session alive. What a PING at the head of the control frames does to a queued ACK or
STOP_WAITING: in `Scheduler` the packet with the PING always leaves. Recursive locks, channels
that may block and concurrent use of the packer are hazards of the code that the atomic steps
of `Scheduler` hide; they are planned below.

## 6. Where code and documentation disagree

| Run | Stated | What the run shows |
|---|---|---|
| handshake_stop_waiting | `packet_packer.go:109` | a handshake retransmission on a new path has no STOP_WAITING; the session ends |
| early_data | `scheduler.go:92` | a client's data is dropped along with handshake packets |
| close_path | `session.go:681` | packets above `LargestAcked` stay on a closed path |
| eof | `stream_test.go:530` | a frame whose end was cut keeps its FIN: io.EOF before the end |
| skips_numbers | `packet_number_generator.go:11` | no number is ever skipped |

Other places where a comment promises more than the code does, none of them with
a run of its own: `SetLowerLimit` assigns the limit unconditionally, so that a late
STOP_WAITING lowers it again (`ackhandler/received_packet_handler.go:73`); a duplicate packet
is counted by `maybeQueueAck` (`:101`); `ackRemainingPaths` sends ACK-only packets without
regard to `MaxNonRetransmittablePackets` (`internal/protocol/server_parameters.go:98`); `Push`
deletes only the first of several adjacent queued frames that a new one covers
(`stream_frame_sorter.go:91`). The models contain all four behaviours; the properties of
the runs hold in spite of them.

## 7. Plan

Done: the acknowledgment machinery, the scheduler's treatment of frames, the stream frame
sorter, the packet number generator, proofs for the history and the scheduler.

Next, in this order:

1. `Stream`: `Read`, `Write`, deadlines, `Close`, `Cancel` and resets with the read and write
   channels; nobody waits for ever, bytes are written once.
2. `StreamsMap`: opening, accepting and removing against the limits, blocked callers.
3. `FlowControl`: windows of streams and of the connection at both ends, with
   reordered WINDOW_UPDATEs and resets; the sender never exceeds the receiver's
   window, credit comes back.
4. `PacketPacker`: control frames, PING, ACK and STOP_WAITING in one packet; no ACK is lost.
5. `PathManager` and `SessionClose`: creation and closing of paths, `pathsLock`, the channels of
   the path goroutines, close once, timeouts; no deadlock.
6. `PathSelection`: each algorithm as a choice from the eligible paths that `Scheduler` leaves
   open, as a refinement; liveness with failing paths.
7. `PacketNumberInference`, ACK frame ranges and the RTO backoff as pure
   functions with their integer widths.
8. Congestion bookkeeping (PRR, hybrid slow start), as far as it is integer arithmetic.

Theorems to come: the safety properties of the stream frame sorter, of flow control
(the sender stays within the window for all schedules), `AcksAreHonest` and
`NoFrameForgotten` of `AckLoop`, and the refinement of path selection.

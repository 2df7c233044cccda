-------------------------- MODULE StreamFrameSorter --------------------------
(***************************************************************************)
(* stream_frame_sorter.go: the receive queue of a stream, which cuts       *)
(* overlapping frames and keeps a list of the gaps, and the data path of   *)
(* stream.Read, which takes its frames out without holding the mutex.      *)
(*                                                                         *)
(* The peer sends Length bytes.  A frame that was lost comes again in      *)
(* parts (maybeSplitOffFrame of stream_framer.go), while the late original *)
(* may still arrive; so any part of the data may come, any number of       *)
(* times.  The bytes are told apart by their offsets.                      *)
(***************************************************************************)
EXTENDS Integers, FiniteSets, FiniteSetsExt

CONSTANTS
    Length,          \* bytes of the stream
    MaxByteCount,    \* end of the last gap
    MaxGaps,         \* protocol.MaxStreamFrameSorterGaps
    FinWithData      \* does the last data frame carry the FIN, or an empty one?

ASSUME StreamFrameSorterAssumption ==
    /\ Length \in Nat \ {0}
    /\ MaxByteCount \in Nat /\ Length < MaxByteCount
    /\ MaxGaps \in Nat \ {0}
    /\ FinWithData \in BOOLEAN

VARIABLES
    queuedFrames,      \* the frames of the map; their keys are their offsets
    readPosition,      \* streamFrameSorter.readPosition
    gaps,              \* streamFrameSorter.gaps: the intervals of the list
    reading,           \* the frame that Read got from Head and copies from, as a set
    readOffset,        \* stream.readOffset
    finishedReading,   \* stream.finishedReading: Read returned io.EOF
    err,               \* the error that Push or Read returned
    arrived            \* the bytes that arrived

vars == <<queuedFrames, readPosition, gaps, reading, readOffset, finishedReading, err, arrived>>

Byte == 0..Length - 1

StreamFrame == [Offset : 0..Length, DataLen : 0..Length, FinBit : BOOLEAN]

Interval == [Start : 0..MaxByteCount, End : 0..MaxByteCount]

End(f) == f.Offset + f.DataLen

\* What the streamFramer of the peer makes of the stream.
Sendable ==
    {f \in StreamFrame :
        /\ End(f) <= Length
        /\ f.FinBit <=> End(f) = Length /\ (FinWithData <=> f.DataLen > 0)
        /\ f.FinBit \/ f.DataLen > 0}

Init ==
    /\ queuedFrames = {}
    /\ readPosition = 0
    /\ gaps = {[Start |-> 0, End |-> MaxByteCount]}
    /\ reading = {}
    /\ readOffset = 0
    /\ finishedReading = FALSE
    /\ err = "none"
    /\ arrived = {}

-----------------------------------------------------------------------------
(* Push *)

At(offset) == {f \in queuedFrames : f.Offset = offset}

Put(frames, f) == {g \in frames : g.Offset # f.Offset} \cup {f}

CutFront(f, n) == [f EXCEPT !.Offset = @ + n, !.DataLen = @ - n]

\* A frame at the offset of a queued one loses the bytes they share.
WithoutQueued(f) ==
    IF At(f.Offset) = {} THEN f
    ELSE CutFront(f, (CHOOSE old \in At(f.Offset) : TRUE).DataLen)

First(G) == CHOOSE g \in G : \A h \in G : g.Start <= h.Start

Last(G) == CHOOSE g \in G : \A h \in G : h.Start <= g.Start

\* Mutant: a frame that begins inside a gap is not found there.
ReachedAtStart(f) == {g \in gaps : End(f) <= g.Start \/ f.Offset <= g.Start}

\* The search for the first gap stops at one of these.
Reached(f) == {g \in gaps : End(f) <= g.Start \/ f.Offset <= g.End}

\* errDuplicateStreamData
Duplicate(f) ==
    \/ \E old \in At(f.Offset) : f.DataLen <= old.DataLen
    \/ LET c == WithoutQueued(f)
       IN  Reached(c) # {} /\ End(c) <= First(Reached(c)).Start

\* endGap, the last gap that begins before the end of the frame.
EndGap(f, gap) == Last({g \in gaps : gap.Start <= g.Start /\ (g = gap \/ g.Start < End(f))})

NoGap(f) ==
    \/ Reached(f) = {}
    \/ LET endGap == EndGap(f, First(Reached(f)))
       IN  endGap.End <= End(f) /\ \A g \in gaps : g.Start <= endGap.Start

\* What is left of the frame after both cuts.
Cut(f, gap, endGap) ==
    LET start == Max({f.Offset, gap.Start})
        end == Min({End(f), endGap.End})
    IN  [f EXCEPT !.Offset = start, !.DataLen = end - start]

\* Mutant: a frame inside a gap leaves only the part before it.
GapsBefore(c, gap, endGap) ==
    {g \in gaps : g.Start < gap.Start \/ endGap.Start < g.Start}
    \cup {g \in {[Start |-> gap.Start, End |-> c.Offset]} : g.Start < g.End}

\* gap and endGap lose the bytes of the frame; the gaps between them are gone.
GapsLeft(c, gap, endGap) ==
    {g \in gaps : g.Start < gap.Start \/ endGap.Start < g.Start}
    \cup {g \in {[Start |-> gap.Start, End |-> c.Offset], [Start |-> End(c), End |-> endGap.End]} :
             g.Start < g.End}

\* Mutant: the frame after endGap is deleted too, though it is not covered.
CoveredAndNext(gap, endGap) ==
    {f \in queuedFrames : \E g \in gaps : /\ gap.Start <= g.Start /\ g.Start <= endGap.Start
                                          /\ f.Offset = g.End}

\* Of the frames between gap and endGap, the first after each gap is deleted.
Covered(gap, endGap) ==
    {f \in queuedFrames : \E g \in gaps : /\ gap.Start <= g.Start /\ g.Start < endGap.Start
                                          /\ f.Offset = g.End}

\* The frame goes into the gaps; the list may become too long.
Fill(f) ==
    LET gap == First(Reached(f))
        endGap == EndGap(f, gap)
        c == Cut(f, gap, endGap)
        left == GapsLeft(c, gap, endGap)
        frames == queuedFrames \ Covered(gap, endGap)
        tooMany == Cardinality(left) > MaxGaps
    IN  /\ gaps' = left
        /\ queuedFrames' = IF tooMany THEN frames ELSE Put(frames, c)
        /\ err' = IF tooMany THEN "too many gaps" ELSE err

\* stream.AddStreamFrame: a duplicate is no error, any other error closes the session.
Push(f) ==
    /\ err = "none"
    /\ f \in Sendable
    /\ arrived' = arrived \cup (f.Offset..End(f) - 1)
    /\ \/ /\ f.DataLen = 0
          /\ queuedFrames' = Put(queuedFrames, f)
          /\ UNCHANGED <<gaps, err>>
       \/ /\ f.DataLen > 0
          /\ Duplicate(f)
          /\ UNCHANGED <<queuedFrames, gaps, err>>
       \/ /\ f.DataLen > 0
          /\ ~ Duplicate(f)
          /\ IF NoGap(WithoutQueued(f))
             THEN err' = "bug" /\ UNCHANGED <<queuedFrames, gaps>>
             ELSE Fill(WithoutQueued(f))
    /\ UNCHANGED <<readPosition, reading, readOffset, finishedReading>>

-----------------------------------------------------------------------------
(* Read *)

Head == At(readPosition)

\* Mutant: the frame is popped before it is copied.
PopFirst ==
    /\ err = "none"
    /\ ~ finishedReading
    /\ reading = {}
    /\ Head # {}
    /\ reading' = Head
    /\ queuedFrames' = queuedFrames \ Head
    /\ UNCHANGED <<readPosition, gaps, readOffset, finishedReading, err, arrived>>

\* Read holds the mutex while it gets the head of the queue ...
ReadHead ==
    /\ err = "none"
    /\ ~ finishedReading
    /\ reading = {}
    /\ Head # {}
    /\ reading' = Head
    /\ UNCHANGED <<queuedFrames, readPosition, gaps, readOffset, finishedReading, err, arrived>>

\* Mutant: an empty frame with a FIN does not end the stream.
FinOfData(f) == f.FinBit /\ f.DataLen > 0

EndsStream(f) == f.FinBit

\* Mutant: all of the buffer counts as read.
AllOfBuffer(room, left) == room

BytesCopied(room, left) == Min({room, left})

Pop ==
    /\ queuedFrames' = queuedFrames \ Head
    /\ readPosition' = readPosition + SumSet({f.DataLen : f \in Head})

\* ... and again to Pop whatever is the head by then, when it has copied all of the
\* frame into the caller's buffer, which has room for that many bytes.
ReadData ==
    /\ \E f \in reading, room \in 1..Length :
       LET readPosInFrame == readOffset - f.Offset
           m == BytesCopied(room, f.DataLen - readPosInFrame)
       IN  IF readPosInFrame > f.DataLen
           THEN err' = "bug" /\ UNCHANGED <<readOffset, queuedFrames, readPosition, finishedReading>>
           ELSE /\ readOffset' = readOffset + m
                /\ IF readPosInFrame + m >= f.DataLen
                   THEN Pop /\ finishedReading' = EndsStream(f)
                   ELSE UNCHANGED <<queuedFrames, readPosition, finishedReading>>
                /\ UNCHANGED err
    /\ reading' = {}
    /\ UNCHANGED <<gaps, arrived>>

Next ==
    \/ \E f \in Sendable : Push(f)
    \/ ReadHead
    \/ ReadData

Spec == Init /\ [][Next]_vars

\* The peer retransmits until everything has arrived (EverythingArrives of AckLoop), and
\* the FIN has.  The frame of just one byte changes nothing once the byte arrived in any
\* frame, so its fairness says that the byte arrives.  The application reads.
FairSpec ==
    /\ Spec
    /\ \A b \in Byte : WF_vars(\E f \in Sendable : f.Offset = b /\ f.DataLen = 1 /\ Push(f))
    /\ WF_vars(\E f \in Sendable : f.FinBit /\ Push(f))
    /\ WF_vars(ReadHead)
    /\ WF_vars(ReadData)

-----------------------------------------------------------------------------
\* The types of the queue, its gaps and the reader; offsets stay within the stream.
TypeOK ==
    /\ queuedFrames \subseteq StreamFrame
    /\ readPosition \in 0..Length
    /\ gaps \subseteq Interval
    /\ reading \subseteq StreamFrame /\ Cardinality(reading) <= 1
    /\ readOffset \in 0..Length
    /\ finishedReading \in BOOLEAN
    /\ err \in {"none", "too many gaps", "bug"}
    /\ arrived \subseteq Byte

\* Whatever the overlaps, the gaps that Push keeps are the bytes that have not arrived,
\* each gap as large as possible.
GapsAreWhatIsMissing ==
    /\ \A b \in 0..MaxByteCount - 1 : (\E g \in gaps : g.Start <= b /\ b < g.End) <=> b \notin arrived
    /\ \A g, h \in gaps : g # h => g.End < h.Start \/ h.End < g.Start

\* No frame is deleted or cut too far: a byte that arrived and was not read yet can be
\* read as soon as those before it are, since Head finds the frame that holds it.
NothingIsStuck ==
    err = "none" /\ readPosition \in arrived => \E f \in Head : f.DataLen > 0

\* While Read copies a frame without the mutex, Push leaves it at the head of the queue,
\* so Pop removes the frame that was copied.
ReadsTheHead ==
    reading # {} => reading = Head

\* Neither "no gap found" and "no end gap found" of Push nor the readPosInFrame check of
\* Read ever fails.
NoBug ==
    err # "bug"

\* Read returns io.EOF only when the whole stream was read.
EOFIsTheEnd ==
    finishedReading => readOffset = Length

\* A stream that is not refused for its gaps is read to its end, then Read returns io.EOF.
StreamIsRead ==
    <>(err # "none" \/ (finishedReading /\ readOffset = Length))
=============================================================================

------------------------ MODULE PacketNumberGenerator ------------------------
(***************************************************************************)
(* packet_number_generator.go: the packet numbers of a path.  The random   *)
(* numbers are left open.                                                  *)
(***************************************************************************)
EXTENDS Integers

CONSTANTS
    averagePeriod,     \* protocol.SkipPacketAveragePeriodLength
    MaxPacketNumber    \* bound: the last number that is taken

VARIABLES
    next,              \* packetNumberGenerator.next
    nextToSkip,        \* packetNumberGenerator.nextToSkip
    used               \* the numbers that Pop returned

vars == <<next, nextToSkip, used>>

Init ==
    /\ next = 1
    /\ nextToSkip = 0
    /\ used = {}

\* The largest random number is about twice its expectation value.
generateNewSkip(n) == {n + 2 + skip : skip \in 0..2 * (averagePeriod - 1)}

\* When there is no random number, nextToSkip stays.
Pop ==
    /\ next <= MaxPacketNumber
    /\ used' = used \cup {next}
    /\ IF next + 1 = nextToSkip
       THEN next' = next + 2 /\ nextToSkip' \in generateNewSkip(next + 2) \cup {nextToSkip}
       ELSE next' = next + 1 /\ UNCHANGED nextToSkip

Next == Pop

Spec == Init /\ [][Next]_vars

-----------------------------------------------------------------------------
\* The generator randomly skips packet numbers: the first random number makes it skip
\* one of the first 2 * averagePeriod + 1.
SkipsNumbers ==
    next > 2 * averagePeriod + 1 => used # 1..next - 1
=============================================================================

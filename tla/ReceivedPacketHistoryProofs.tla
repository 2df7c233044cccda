-------------------- MODULE ReceivedPacketHistoryProofs --------------------
(***************************************************************************)
(* ReceivedPacketHistory keeps its list of intervals sorted and separated, *)
(* and implements the set of ReceivedPackets, for every bound on packet    *)
(* numbers and on the number of intervals.                                 *)
(***************************************************************************)
EXTENDS ReceivedPacketHistory, SequenceTheorems, WellFoundedInduction, TLAPS

\* A non-empty set of positions of a list has a largest member: this is what
\* makes the CHOOSE of StopsAt and of NumDeleted denote a position.
LEMMA LargestPosition ==
    ASSUME NEW n \in Nat, NEW T \in SUBSET (0..n), T # {}
    PROVE  \E x \in T : \A y \in T : y <= x
<1> DEFINE U == {n - x : x \in T}
<1>1. U \subseteq Nat /\ U # {}
    <2>1. \A x \in T : n - x \in Nat
        OBVIOUS
    <2>2. U \subseteq Nat
        BY <2>1, Zenon
    <2>3. PICK x \in T : TRUE
        OBVIOUS
    <2>4. n - x \in U
        BY Zenon
    <2> QED
        BY <2>2, <2>4
<1>2. PICK u \in U : \A v \in U : ~(<<v, u>> \in OpToRel(<, Nat))
    BY <1>1, WFMin, NatLessThanWellFounded
<1>3. \A v \in U : ~(v < u)
    BY <1>1, <1>2 DEF OpToRel
<1>4. PICK x \in T : u = n - x
    OBVIOUS
<1>5. \A y \in T : y <= x
    <2> TAKE y \in T
    <2>1. n - y \in U
        OBVIOUS
    <2>2. ~(n - y < n - x)
        BY <1>3, <1>4, <2>1
    <2> QED
        BY <2>2
<1> QED
    BY <1>5

-----------------------------------------------------------------------------
(* Lists: what InsertAt and RemoveAt return. *)

LEMMA InsertAtProperties ==
    ASSUME NEW S, NEW s \in Seq(S), NEW i \in 1..Len(s)+1, NEW e \in S
    PROVE  /\ InsertAt(s, i, e) \in Seq(S)
           /\ Len(InsertAt(s, i, e)) = Len(s) + 1
           /\ \A j \in 1..Len(s)+1 : InsertAt(s, i, e)[j] =
                  IF j < i THEN s[j] ELSE IF j = i THEN e ELSE s[j-1]
<1> DEFINE before == SubSeq(s, 1, i-1)
           after == SubSeq(s, i, Len(s))
<1>0. Len(s) \in Nat
    BY LenProperties
<1>1. /\ before \in Seq(S) /\ Len(before) = i - 1
      /\ \A j \in 1..i-1 : before[j] = s[j]
    BY <1>0, SubSeqProperties, ElementOfSeq
<1>2. /\ after \in Seq(S) /\ Len(after) = Len(s) - i + 1
      /\ \A j \in 1..Len(s)-i+1 : after[j] = s[i+j-1]
    BY <1>0, SubSeqProperties, ElementOfSeq
<1> HIDE DEF before, after
<1> DEFINE mid == <<e>>
           front == before \o mid
           res == front \o after
<1>3. mid \in Seq(S) /\ Len(mid) = 1 /\ mid[1] = e
    OBVIOUS
<1>4. InsertAt(s, i, e) = res
    BY Zenon DEF InsertAt, before, after
<1> HIDE DEF mid
<1>5. /\ front \in Seq(S) /\ Len(front) = Len(before) + Len(mid)
      /\ \A j \in 1..Len(before)+Len(mid) : front[j] =
             IF j <= Len(before) THEN before[j] ELSE mid[j - Len(before)]
    BY <1>1, <1>3, ConcatProperties, Zenon
<1> HIDE DEF front
<1>6. front \in Seq(S) /\ after \in Seq(S)
    BY <1>2, <1>5, Zenon
<1>7. /\ res \in Seq(S) /\ Len(res) = Len(front) + Len(after)
      /\ \A j \in 1..Len(front)+Len(after) : res[j] =
             IF j <= Len(front) THEN front[j] ELSE after[j - Len(front)]
    BY <1>6, ConcatProperties, Zenon
<1> HIDE DEF res
<1>9. ASSUME NEW j \in 1..Len(s)+1
      PROVE  res[j] = IF j < i THEN s[j] ELSE IF j = i THEN e ELSE s[j-1]
    <2>1. CASE j < i
        <3>1. res[j] = front[j]
            BY <1>0, <1>1, <1>2, <1>3, <1>5, <1>7, <2>1
        <3>2. front[j] = before[j]
            BY <1>0, <1>1, <1>3, <1>5, <2>1
        <3> QED
            BY <1>0, <1>1, <2>1, <3>1, <3>2
    <2>2. CASE j = i
        <3>1. res[j] = front[j]
            BY <1>0, <1>1, <1>2, <1>3, <1>5, <1>7, <2>2
        <3>2. front[j] = mid[1]
            BY <1>0, <1>1, <1>3, <1>5, <2>2
        <3> QED
            BY <1>0, <1>3, <2>2, <3>1, <3>2
    <2>3. CASE j > i
        <3>1. j - i \in 1..Len(s)-i+1 /\ i + (j - i) - 1 = j - 1
            BY <1>0, <2>3
        <3>2. res[j] = after[j - i]
            BY <1>0, <1>1, <1>2, <1>3, <1>5, <1>7, <2>3
        <3> QED
            BY <1>0, <1>2, <2>3, <3>1, <3>2
    <2> QED
        BY <1>0, <2>1, <2>2, <2>3
<1>10. Len(res) = Len(s) + 1
    BY <1>0, <1>1, <1>2, <1>3, <1>5, <1>7
<1> QED
    BY <1>4, <1>7, <1>9, <1>10, Zenon

LEMMA RemoveAtProperties ==
    ASSUME NEW S, NEW s \in Seq(S), NEW i \in 1..Len(s)
    PROVE  /\ RemoveAt(s, i) \in Seq(S)
           /\ Len(RemoveAt(s, i)) = Len(s) - 1
           /\ \A j \in 1..Len(s)-1 : RemoveAt(s, i)[j] = IF j < i THEN s[j] ELSE s[j+1]
<1> DEFINE before == SubSeq(s, 1, i-1)
           after == SubSeq(s, i+1, Len(s))
<1>0. Len(s) \in Nat
    BY LenProperties
<1>1. /\ before \in Seq(S) /\ Len(before) = i - 1
      /\ \A j \in 1..i-1 : before[j] = s[j]
    BY <1>0, SubSeqProperties, ElementOfSeq
<1>2. /\ after \in Seq(S) /\ Len(after) = Len(s) - i
      /\ \A j \in 1..Len(s)-i : after[j] = s[i+j]
    BY <1>0, SubSeqProperties, ElementOfSeq
<1> HIDE DEF before, after
<1>3. /\ before \o after \in Seq(S)
      /\ Len(before \o after) = Len(s) - 1
      /\ \A j \in 1..Len(s)-1 : (before \o after)[j] =
             IF j <= i - 1 THEN before[j] ELSE after[j - (i - 1)]
    <2>1. /\ before \o after \in Seq(S)
          /\ Len(before \o after) = Len(before) + Len(after)
          /\ \A j \in 1..Len(before)+Len(after) : (before \o after)[j] =
                 IF j <= Len(before) THEN before[j] ELSE after[j - Len(before)]
        BY <1>1, <1>2, ConcatProperties, Zenon
    <2>2. Len(before) = i - 1 /\ Len(before) + Len(after) = Len(s) - 1
        BY <1>0, <1>1, <1>2
    <2> QED
        BY <2>1, <2>2, Zenon
<1>4. RemoveAt(s, i) = before \o after
    BY DEF RemoveAt, before, after
<1>5. ASSUME NEW j \in 1..Len(s)-1
      PROVE  RemoveAt(s, i)[j] = IF j < i THEN s[j] ELSE s[j+1]
    <2>1. CASE j < i
        BY <1>0, <1>1, <1>3, <1>4, <2>1
    <2>2. CASE j >= i
        <3>1. j - (i - 1) \in 1..Len(s)-i /\ i + (j - (i - 1)) = j + 1
            BY <1>0, <2>2
        <3> QED
            BY <1>0, <1>2, <1>3, <1>4, <2>2, <3>1
    <2> QED
        BY <1>0, <2>1, <2>2
<1> QED
    BY <1>3, <1>4, <1>5

-----------------------------------------------------------------------------
(* The walks of the code stop somewhere. *)

LEMMA IntervalFields ==
    ASSUME NEW r \in Seq(PacketInterval)
    PROVE  /\ Len(r) \in Nat
           /\ \A i \in 1..Len(r) : r[i].Start \in Nat /\ r[i].End \in Nat
<1>1. Len(r) \in Nat
    BY LenProperties
<1>2. ASSUME NEW i \in 1..Len(r)
      PROVE  r[i].Start \in Nat /\ r[i].End \in Nat
    <2>1. r[i] \in PacketInterval
        BY ElementOfSeq, Zenon
    <2> QED
        BY <2>1 DEF PacketInterval
<1> QED
    BY <1>1, <1>2, Zenon

LEMMA StopsAtPosition ==
    ASSUME NEW r \in Seq(PacketInterval), NEW p \in Nat
    PROVE  /\ StopsAt(r, p) \in 0..Len(r)
           /\ \A j \in StopsAt(r, p)+1..Len(r) : r[j].Start > p + 1
           /\ StopsAt(r, p) > 0 => r[StopsAt(r, p)].Start <= p + 1
<1> DEFINE T == {i \in 0..Len(r) : i > 0 => r[i].Start <= p + 1}
<1>1. Len(r) \in Nat /\ \A i \in 1..Len(r) : r[i].Start \in Nat
    BY IntervalFields
<1>2. T \in SUBSET (0..Len(r)) /\ 0 \in T
    BY <1>1
<1> HIDE DEF T
<1>3. PICK i \in T : \A j \in T : j <= i
    BY <1>1, <1>2, LargestPosition, Zenon
<1>4. \A j \in i+1..Len(r) : r[j].Start > p + 1
    BY <1>1, <1>2, <1>3 DEF T
<1> DEFINE P(k) == /\ \A j \in k+1..Len(r) : r[j].Start > p + 1
                   /\ k > 0 => r[k].Start <= p + 1
<1>5. i \in 0..Len(r) /\ P(i)
    BY <1>3, <1>4 DEF T
<1>6. StopsAt(r, p) = CHOOSE k \in 0..Len(r) : P(k)
    BY DEF StopsAt
<1>7. StopsAt(r, p) \in 0..Len(r) /\ P(StopsAt(r, p))
    <2> HIDE DEF P
    <2> QED
        BY <1>5, <1>6
<1> QED
    BY <1>7

LEMMA NumDeletedPosition ==
    ASSUME NEW r \in Seq(PacketInterval), NEW p \in Nat
    PROVE  /\ NumDeleted(r, p) \in 0..Len(r)
           /\ \A j \in 1..NumDeleted(r, p) : r[j].End <= p
           /\ NumDeleted(r, p) < Len(r) => r[NumDeleted(r, p) + 1].End > p
<1> DEFINE T == {k \in 0..Len(r) : \A j \in 1..k : r[j].End <= p}
<1>1. Len(r) \in Nat /\ \A i \in 1..Len(r) : r[i].End \in Nat
    BY IntervalFields
<1>2. T \in SUBSET (0..Len(r)) /\ 0 \in T
    BY <1>1
<1> HIDE DEF T
<1>3. PICK k \in T : \A j \in T : j <= k
    BY <1>1, <1>2, LargestPosition, Zenon
<1>4. k < Len(r) => r[k+1].End > p
    <2> SUFFICES ASSUME k < Len(r), r[k+1].End <= p
                 PROVE  FALSE
        BY <1>1, <1>2, <1>3
    <2>1. k + 1 \in T
        BY <1>1, <1>3 DEF T
    <2> QED
        BY <1>1, <1>2, <1>3, <2>1
<1> DEFINE P(m) == /\ \A j \in 1..m : r[j].End <= p
                   /\ m < Len(r) => r[m+1].End > p
<1>5. k \in 0..Len(r) /\ P(k)
    BY <1>3, <1>4 DEF T
<1>6. NumDeleted(r, p) = CHOOSE m \in 0..Len(r) : P(m)
    BY DEF NumDeleted
<1>7. NumDeleted(r, p) \in 0..Len(r) /\ P(NumDeleted(r, p))
    <2> HIDE DEF P
    <2> QED
        BY <1>5, <1>6
<1> QED
    BY <1>7

-----------------------------------------------------------------------------
(* The list through its bounds only.  S(r, i) and E(r, i) stay unexpanded in *)
(* the arithmetic below.                                                     *)

S(r, i) == r[i].Start
E(r, i) == r[i].End

LEMMA Bounds ==
    ASSUME NEW r \in Seq(PacketInterval)
    PROVE  /\ Len(r) \in Nat
           /\ \A i \in 1..Len(r) : S(r, i) \in Nat /\ E(r, i) \in Nat
    BY IntervalFields DEF S, E

LEMMA SeparatedBounds ==
    ASSUME NEW r
    PROVE  SeparatedList(r) <=>
               /\ \A i \in 1..Len(r) : 1 <= S(r, i) /\ S(r, i) <= E(r, i)
               /\ \A i, j \in 1..Len(r) : i < j => E(r, i) + 1 < S(r, j)
    BY Zenon DEF SeparatedList, S, E

LEMMA CoveredMember ==
    ASSUME NEW r \in Seq(PacketInterval), NEW n
    PROVE  n \in Covered(r) <=>
               n \in Nat /\ \E i \in 1..Len(r) : S(r, i) <= n /\ n <= E(r, i)
<1>1. \A i \in 1..Len(r) : S(r, i) \in Nat /\ E(r, i) \in Nat
    BY Bounds
<1>2. n \in Covered(r) <=> \E i \in 1..Len(r) : n \in S(r, i) .. E(r, i)
    BY Zenon DEF Covered, S, E
<1> QED
    BY <1>1, <1>2

LEMMA ReplacedBounds ==
    ASSUME NEW r \in Seq(PacketInterval), NEW i \in 1..Len(r), NEW x \in PacketInterval
    PROVE  LET q == [r EXCEPT ![i] = x]
           IN  /\ q \in Seq(PacketInterval)
               /\ Len(q) = Len(r)
               /\ S(q, i) = x.Start /\ E(q, i) = x.End
               /\ \A j \in 1..Len(r) : j # i => S(q, j) = S(r, j) /\ E(q, j) = E(r, j)
<1> DEFINE q == [r EXCEPT ![i] = x]
<1>1. /\ q \in Seq(PacketInterval) /\ Len(q) = Len(r)
      /\ \A j \in 1..Len(r) : q[j] = IF j = i THEN x ELSE r[j]
    BY ExceptSeq
<1> HIDE DEF q
<1>2. /\ q \in Seq(PacketInterval)
      /\ Len(q) = Len(r)
      /\ S(q, i) = x.Start /\ E(q, i) = x.End
      /\ \A j \in 1..Len(r) : j # i => S(q, j) = S(r, j) /\ E(q, j) = E(r, j)
    BY <1>1, Zenon DEF S, E
<1> QED
    BY <1>2, Zenon DEF q

-----------------------------------------------------------------------------
(* What ReceivedPacket does to the list, by the shape of the result q. *)

\* The i-th interval of r grew by p at one end and now goes from a to b.
WidenedShape(r, p, i, a, b, q) ==
    /\ i \in 1..Len(r) /\ a \in Nat /\ b \in Nat
    /\ \/ a = S(r, i) /\ b = p /\ E(r, i) = p - 1
       \/ a = p /\ b = E(r, i) /\ S(r, i) = p + 1
    /\ \A j \in 1..i-1 : E(r, j) + 1 < a
    /\ \A j \in i+1..Len(r) : b + 1 < S(r, j)
    /\ q \in Seq(PacketInterval) /\ Len(q) = Len(r) /\ S(q, i) = a /\ E(q, i) = b
    /\ \A j \in 1..Len(r) : j # i => S(q, j) = S(r, j) /\ E(q, j) = E(r, j)

LEMMA Widened ==
    ASSUME NEW r \in Seq(PacketInterval), SeparatedList(r), NEW p \in Nat \ {0},
           NEW i, NEW a, NEW b, NEW q, WidenedShape(r, p, i, a, b, q)
    PROVE  /\ SeparatedList(q)
           /\ Covered(q) = Covered(r) \cup {p}
<1> USE DEF WidenedShape
<1>0. Len(r) \in Nat /\ \A j \in 1..Len(r) : S(r, j) \in Nat /\ E(r, j) \in Nat
    BY Bounds
<1>1. /\ \A j \in 1..Len(r) : 1 <= S(r, j) /\ S(r, j) <= E(r, j)
      /\ \A j, k \in 1..Len(r) : j < k => E(r, j) + 1 < S(r, k)
    BY SeparatedBounds
<1>3. SeparatedList(q)
    <2>1. \A j \in 1..Len(q) : 1 <= S(q, j) /\ S(q, j) <= E(q, j)
        BY <1>0, <1>1
    <2>2. \A j, k \in 1..Len(q) : j < k => E(q, j) + 1 < S(q, k)
        BY <1>0, <1>1
    <2> QED
        BY <2>1, <2>2, SeparatedBounds
<1>4. ASSUME NEW n
      PROVE  n \in Covered(q) <=> n \in Covered(r) \cup {p}
    <2>1. n \in Covered(q) <=> n \in Nat /\ \E j \in 1..Len(r) : S(q, j) <= n /\ n <= E(q, j)
        BY CoveredMember
    <2>2. n \in Covered(r) <=> n \in Nat /\ \E j \in 1..Len(r) : S(r, j) <= n /\ n <= E(r, j)
        BY CoveredMember
    <2>3. ASSUME NEW m \in Nat
          PROVE  (S(q, i) <= m /\ m <= E(q, i)) <=>
                     (S(r, i) <= m /\ m <= E(r, i)) \/ m = p
        BY <1>0, <1>1
    <2> QED
        BY <2>1, <2>2, <2>3
<1> QED
    BY <1>3, <1>4

\* p filled the gap between two intervals of r, the (i-1)-th and the i-th.
MergedShape(r, p, i, q) ==
    /\ i \in 2..Len(r) /\ S(r, i) = p + 1 /\ E(r, i-1) = p - 1
    /\ q \in Seq(PacketInterval) /\ Len(q) = Len(r) - 1
    /\ \A j \in 1..i-2 : S(q, j) = S(r, j) /\ E(q, j) = E(r, j)
    /\ S(q, i-1) = S(r, i-1) /\ E(q, i-1) = E(r, i)
    /\ \A j \in i..Len(r)-1 : S(q, j) = S(r, j+1) /\ E(q, j) = E(r, j+1)

LEMMA Merged ==
    ASSUME NEW r \in Seq(PacketInterval), SeparatedList(r), NEW p \in Nat \ {0},
           NEW i, NEW q, MergedShape(r, p, i, q)
    PROVE  /\ SeparatedList(q)
           /\ Covered(q) = Covered(r) \cup {p}
<1> USE DEF MergedShape
<1>0. Len(r) \in Nat /\ \A j \in 1..Len(r) : S(r, j) \in Nat /\ E(r, j) \in Nat
    BY Bounds
<1>1. /\ \A j \in 1..Len(r) : 1 <= S(r, j) /\ S(r, j) <= E(r, j)
      /\ \A j, k \in 1..Len(r) : j < k => E(r, j) + 1 < S(r, k)
    BY SeparatedBounds
<1>2. SeparatedList(q)
    <2>1. ASSUME NEW j \in 1..Len(q)
          PROVE  1 <= S(q, j) /\ S(q, j) <= E(q, j)
        <3>1. CASE j < i - 1
            BY <1>0, <1>1, <3>1
        <3>2. CASE j = i - 1
            <4>0. i - 1 \in 1..Len(r) /\ i \in 1..Len(r)
                BY <1>0
            <4>1. S(q, j) = S(r, i-1) /\ E(q, j) = E(r, i)
                BY <3>2
            <4>2. /\ 1 <= S(r, i-1) /\ S(r, i-1) <= E(r, i-1)
                  /\ S(r, i) <= E(r, i)
                BY <1>1, <4>0, Zenon
            <4>3. S(r, i-1) \in Nat /\ E(r, i) \in Nat
                BY <1>0, <4>0, Zenon
            <4>4. 1 <= S(r, i-1) /\ S(r, i-1) <= E(r, i)
                BY <4>2, <4>3
            <4> QED
                BY <4>1, <4>4, Zenon
        <3>3. CASE j > i - 1
            <4>1. j + 1 \in 1..Len(r) /\ S(q, j) = S(r, j+1) /\ E(q, j) = E(r, j+1)
                BY <1>0, <3>3
            <4> QED
                BY <1>1, <4>1
        <3> QED
            BY <1>0, <3>1, <3>2, <3>3
    <2>2. ASSUME NEW j \in 1..Len(q), NEW k \in 1..Len(q), j < k
          PROVE  E(q, j) + 1 < S(q, k)
        <3>1. CASE k <= i - 1
            <4>1. j \in 1..i-2 /\ j \in 1..Len(r) /\ k \in 1..Len(r)
                BY <1>0, <2>2, <3>1
            <4>2. E(q, j) = E(r, j)
                BY <4>1, Zenon
            <4>3. S(q, k) = S(r, k)
                <5>1. k = i - 1 \/ k \in 1..i-2
                    BY <1>0, <3>1
                <5> QED
                    BY <5>1, Zenon
            <4> QED
                BY <1>1, <2>2, <4>1, <4>2, <4>3, Zenon
        <3>2. CASE k > i - 1 /\ j < i - 1
            <4>1. /\ j \in 1..Len(r) /\ k + 1 \in 1..Len(r) /\ j < k + 1
                  /\ E(q, j) = E(r, j) /\ S(q, k) = S(r, k+1)
                BY <1>0, <2>2, <3>2
            <4> QED
                BY <1>1, <4>1
        <3>3. CASE k > i - 1 /\ j >= i - 1
            <4>1. /\ j + 1 \in 1..Len(r) /\ k + 1 \in 1..Len(r) /\ j + 1 < k + 1
                  /\ E(q, j) = E(r, j+1) /\ S(q, k) = S(r, k+1)
                BY <1>0, <2>2, <3>3
            <4> QED
                BY <1>1, <4>1
        <3> QED
            BY <1>0, <3>1, <3>2, <3>3
    <2> QED
        BY <2>1, <2>2, SeparatedBounds
<1>3. ASSUME NEW n
      PROVE  n \in Covered(q) <=> n \in Covered(r) \cup {p}
    <2>1. n \in Covered(q) <=> n \in Nat /\ \E j \in 1..Len(q) : S(q, j) <= n /\ n <= E(q, j)
        BY CoveredMember
    <2>2. n \in Covered(r) <=> n \in Nat /\ \E j \in 1..Len(r) : S(r, j) <= n /\ n <= E(r, j)
        BY CoveredMember
    <2>3. ASSUME n \in Nat
          PROVE  (S(q, i-1) <= n /\ n <= E(q, i-1)) <=>
                     \/ S(r, i-1) <= n /\ n <= E(r, i-1)
                     \/ S(r, i) <= n /\ n <= E(r, i)
                     \/ n = p
        <3>1. /\ i \in 1..Len(r) /\ i - 1 \in 1..Len(r)
              /\ S(r, i-1) <= E(r, i-1) /\ S(r, i) <= E(r, i)
            BY <1>0, <1>1
        <3> QED
            BY <1>0, <2>3, <3>1
    <2>4. ASSUME n \in Covered(q) PROVE n \in Covered(r) \cup {p}
        <3>1. PICK j \in 1..Len(q) : S(q, j) <= n /\ n <= E(q, j)
            BY <2>1, <2>4
        <3>2. CASE j < i - 1
            BY <1>0, <2>1, <2>2, <2>4, <3>1, <3>2
        <3>3. CASE j = i - 1
            BY <1>0, <2>1, <2>2, <2>3, <2>4, <3>1, <3>3
        <3>4. CASE j > i - 1
            BY <1>0, <2>1, <2>2, <2>4, <3>1, <3>4
        <3> QED
            BY <1>0, <3>2, <3>3, <3>4
    <2>5. ASSUME n \in Covered(r) \cup {p} PROVE n \in Covered(q)
        <3>1. CASE n = p
            BY <1>0, <2>1, <2>3, <3>1
        <3>2. CASE n \in Covered(r)
            <4>1. PICK j \in 1..Len(r) : S(r, j) <= n /\ n <= E(r, j)
                BY <2>2, <3>2
            <4>2. CASE j < i - 1
                BY <1>0, <2>1, <2>2, <3>2, <4>1, <4>2
            <4>3. CASE j = i - 1 \/ j = i
                BY <1>0, <2>1, <2>2, <2>3, <3>2, <4>1, <4>3
            <4>4. CASE j > i
                <5>1. j - 1 \in i..Len(r)-1 /\ (j - 1) + 1 = j /\ j - 1 \in 1..Len(q)
                    BY <1>0, <4>4
                <5>2. S(q, j-1) = S(r, j) /\ E(q, j-1) = E(r, j)
                    BY <5>1
                <5> QED
                    BY <2>1, <2>2, <3>2, <4>1, <5>1, <5>2
            <4> QED
                BY <1>0, <4>2, <4>3, <4>4
        <3> QED
            BY <2>5, <3>1, <3>2
    <2> QED
        BY <2>4, <2>5
<1> QED
    BY <1>2, <1>3

\* A new interval for p alone was inserted after the i-th one of r.
InsertedShape(r, p, i, q) ==
    /\ i \in 0..Len(r)
    /\ i > 0 => E(r, i) + 1 < p
    /\ \A j \in i+1..Len(r) : p + 1 < S(r, j)
    /\ q \in Seq(PacketInterval) /\ Len(q) = Len(r) + 1
    /\ \A j \in 1..i : S(q, j) = S(r, j) /\ E(q, j) = E(r, j)
    /\ S(q, i+1) = p /\ E(q, i+1) = p
    /\ \A j \in i+2..Len(r)+1 : S(q, j) = S(r, j-1) /\ E(q, j) = E(r, j-1)

LEMMA Inserted ==
    ASSUME NEW r \in Seq(PacketInterval), SeparatedList(r), NEW p \in Nat \ {0},
           NEW i, NEW q, InsertedShape(r, p, i, q)
    PROVE  /\ SeparatedList(q)
           /\ Covered(q) = Covered(r) \cup {p}
<1> USE DEF InsertedShape
<1>0. Len(r) \in Nat /\ \A j \in 1..Len(r) : S(r, j) \in Nat /\ E(r, j) \in Nat
    BY Bounds
<1>1. /\ \A j \in 1..Len(r) : 1 <= S(r, j) /\ S(r, j) <= E(r, j)
      /\ \A j, k \in 1..Len(r) : j < k => E(r, j) + 1 < S(r, k)
    BY SeparatedBounds
<1>2. SeparatedList(q)
    <2>1. \A j \in 1..Len(q) : 1 <= S(q, j) /\ S(q, j) <= E(q, j)
        BY <1>0, <1>1
    <2>2. ASSUME NEW j \in 1..Len(q), NEW k \in 1..Len(q), j < k
          PROVE  E(q, j) + 1 < S(q, k)
        <3>1. CASE k <= i
            BY <1>0, <1>1, <2>2, <3>1
        <3>2. CASE k = i + 1
            <4>1. j <= i /\ i > 0 /\ E(q, j) = E(r, j)
                BY <1>0, <2>2, <3>2
            <4>2. E(r, j) <= E(r, i)
                <5>1. CASE j = i
                    BY <1>0, <4>1, <5>1
                <5>2. CASE j < i
                    <6>1. i \in 1..Len(r) /\ j \in 1..Len(r)
                        BY <1>0, <4>1
                    <6>2. E(r, j) + 1 < S(r, i) /\ S(r, i) <= E(r, i)
                        BY <1>1, <5>2, <6>1, Zenon
                    <6> QED
                        BY <1>0, <6>1, <6>2
                <5> QED
                    BY <1>0, <4>1, <5>1, <5>2
            <4> QED
                BY <1>0, <3>2, <4>1, <4>2
        <3>3. CASE k > i + 1
            <4>1. /\ k - 1 \in i+1..Len(r) /\ k - 1 \in 1..Len(r)
                  /\ S(q, k) = S(r, k-1)
                BY <1>0, <3>3
            <4>2. CASE j <= i
                <5>1. j \in 1..Len(r) /\ E(q, j) = E(r, j) /\ j < k - 1
                    BY <1>0, <4>1, <4>2
                <5>2. E(r, j) + 1 < S(r, k-1)
                    BY <1>0, <1>1, <4>1, <5>1
                <5> QED
                    BY <4>1, <5>1, <5>2, Zenon
            <4>3. CASE j = i + 1
                BY <1>0, <4>1, <4>3
            <4>4. CASE j > i + 1
                <5>1. j - 1 \in 1..Len(r) /\ E(q, j) = E(r, j-1) /\ j - 1 < k - 1
                    BY <1>0, <2>2, <4>4
                <5>2. E(r, j-1) + 1 < S(r, k-1)
                    BY <1>1, <4>1, <5>1, Zenon
                <5> QED
                    BY <4>1, <5>1, <5>2, Zenon
            <4> QED
                BY <1>0, <4>2, <4>3, <4>4
        <3> QED
            BY <1>0, <3>1, <3>2, <3>3
    <2> QED
        BY <2>1, <2>2, SeparatedBounds
<1>3. ASSUME NEW n
      PROVE  n \in Covered(q) <=> n \in Covered(r) \cup {p}
    <2>1. n \in Covered(q) <=> n \in Nat /\ \E j \in 1..Len(q) : S(q, j) <= n /\ n <= E(q, j)
        BY CoveredMember
    <2>2. n \in Covered(r) <=> n \in Nat /\ \E j \in 1..Len(r) : S(r, j) <= n /\ n <= E(r, j)
        BY CoveredMember
    <2>3. ASSUME n \in Covered(q) PROVE n \in Covered(r) \cup {p}
        <3>1. PICK j \in 1..Len(q) : S(q, j) <= n /\ n <= E(q, j)
            BY <2>1, <2>3
        <3>2. CASE j <= i
            BY <1>0, <2>1, <2>2, <2>3, <3>1, <3>2
        <3>3. CASE j = i + 1
            BY <1>0, <2>1, <2>3, <3>1, <3>3
        <3>4. CASE j > i + 1
            <4>1. j - 1 \in 1..Len(r) /\ S(q, j) = S(r, j-1) /\ E(q, j) = E(r, j-1)
                BY <1>0, <3>4
            <4> QED
                BY <2>1, <2>2, <2>3, <3>1, <4>1
        <3> QED
            BY <1>0, <3>2, <3>3, <3>4
    <2>4. ASSUME n \in Covered(r) \cup {p} PROVE n \in Covered(q)
        <3>1. CASE n = p
            BY <1>0, <2>1, <3>1
        <3>2. CASE n \in Covered(r)
            <4>1. PICK j \in 1..Len(r) : S(r, j) <= n /\ n <= E(r, j)
                BY <2>2, <3>2
            <4>2. CASE j <= i
                BY <1>0, <2>1, <2>2, <3>2, <4>1, <4>2
            <4>3. CASE j > i
                <5>1. j + 1 \in i+2..Len(r)+1 /\ (j + 1) - 1 = j /\ j + 1 \in 1..Len(q)
                    BY <1>0, <4>3
                <5>2. S(q, j+1) = S(r, j) /\ E(q, j+1) = E(r, j)
                    BY <5>1
                <5> QED
                    BY <2>1, <2>2, <3>2, <4>1, <5>1, <5>2
            <4> QED
                BY <1>0, <4>2, <4>3
        <3> QED
            BY <2>4, <3>1, <3>2
    <2> QED
        BY <2>3, <2>4
<1> QED
    BY <1>2, <1>3

LEMMA InsertCorrect ==
    ASSUME NEW r \in Seq(PacketInterval), SeparatedList(r), NEW p \in Nat \ {0}
    PROVE  /\ Insert(r, p) \in Seq(PacketInterval)
           /\ Len(Insert(r, p)) <= Len(r) + 1
           /\ SeparatedList(Insert(r, p))
           /\ Covered(Insert(r, p)) = Covered(r) \cup {p}
<1> DEFINE i == StopsAt(r, p)
           Goal(q) == /\ q \in Seq(PacketInterval)
                      /\ Len(q) <= Len(r) + 1
                      /\ SeparatedList(q)
                      /\ Covered(q) = Covered(r) \cup {p}
<1>0. Len(r) \in Nat /\ \A j \in 1..Len(r) : S(r, j) \in Nat /\ E(r, j) \in Nat
    BY Bounds
<1>1. /\ \A j \in 1..Len(r) : 1 <= S(r, j) /\ S(r, j) <= E(r, j)
      /\ \A j, k \in 1..Len(r) : j < k => E(r, j) + 1 < S(r, k)
    BY SeparatedBounds
<1>2. /\ i \in 0..Len(r)
      /\ \A j \in i+1..Len(r) : S(r, j) > p + 1
      /\ i > 0 => S(r, i) <= p + 1
    BY StopsAtPosition, Zenon DEF S
<1>3. Insert(r, p) =
          IF i > 0 /\ p >= S(r, i) /\ p <= E(r, i) THEN r
          ELSE IF i > 0 /\ E(r, i) = p - 1
               THEN MergeWithPrev([r EXCEPT ![i] = [Start |-> S(r, i), End |-> p]], i)
          ELSE IF i > 0 /\ S(r, i) = p + 1
               THEN MergeWithPrev([r EXCEPT ![i] = [Start |-> p, End |-> E(r, i)]], i)
          ELSE InsertAt(r, i + 1, [Start |-> p, End |-> p])
    BY Zenon DEF Insert, S, E
<1> HIDE DEF i
<1>4. CASE i > 0 /\ p >= S(r, i) /\ p <= E(r, i)
    <2>1. Insert(r, p) = r
        BY <1>3, <1>4, Zenon
    <2>2. i \in 1..Len(r)
        BY <1>0, <1>2, <1>4
    <2>3. p \in Covered(r)
        BY <1>0, <1>4, <2>2, CoveredMember
    <2> QED
        BY <1>0, <2>1, <2>3
<1>5. CASE i > 0 /\ E(r, i) = p - 1
    <2> DEFINE q == [r EXCEPT ![i] = [Start |-> S(r, i), End |-> p]]
    <2>1. i \in 1..Len(r)
        BY <1>0, <1>2, <1>5
    <2>2. S(r, i) \in Nat /\ E(r, i) \in Nat /\ S(r, i) <= E(r, i)
        BY <1>0, <1>1, <2>1, Zenon
    <2>3. /\ [Start |-> S(r, i), End |-> p] \in PacketInterval
          /\ [Start |-> S(r, i), End |-> p].Start = S(r, i)
          /\ [Start |-> S(r, i), End |-> p].End = p
        BY <2>2 DEF PacketInterval
    <2>4. Insert(r, p) = MergeWithPrev(q, i)
        <3>1. ~(i > 0 /\ p >= S(r, i) /\ p <= E(r, i))
            BY <1>5, <2>2
        <3> QED
            BY <1>3, <1>5, <3>1, Zenon
    <2>5. /\ q \in Seq(PacketInterval) /\ Len(q) = Len(r)
          /\ S(q, i) = S(r, i) /\ E(q, i) = p
          /\ \A j \in 1..Len(r) : j # i => S(q, j) = S(r, j) /\ E(q, j) = E(r, j)
        BY <2>1, <2>3, ReplacedBounds, Zenon
    <2> HIDE DEF q
    <2>6. ASSUME NEW j \in 1..i-1 PROVE E(r, j) + 1 < S(r, i)
        <3>1. j \in 1..Len(r) /\ j < i
            BY <1>0, <2>1
        <3> QED
            BY <1>1, <2>1, <3>1, Zenon
    <2>7. ASSUME NEW j \in i+1..Len(r) PROVE p + 1 < S(r, j)
        <3>1. S(r, j) > p + 1 /\ S(r, j) \in Nat
            BY <1>0, <1>2, <2>1
        <3> QED
            BY <3>1
    <2>8. MergeWithPrev(q, i) = q
        <3>1. ASSUME i > 1 PROVE E(q, i-1) + 1 # S(q, i)
            <4>1. i - 1 \in 1..i-1 /\ i - 1 \in 1..Len(r) /\ i - 1 # i
                BY <1>0, <2>1, <3>1
            <4>2. E(r, i-1) + 1 < S(r, i) /\ E(r, i-1) \in Nat
                BY <1>0, <2>6, <4>1, Zenon
            <4>3. E(r, i-1) + 1 # S(r, i)
                BY <2>2, <4>2
            <4> QED
                BY <2>5, <4>1, <4>3, Zenon
        <3> QED
            BY <3>1, Zenon DEF MergeWithPrev, S, E
    <2>9. SeparatedList(q) /\ Covered(q) = Covered(r) \cup {p}
        <3>1. \/ S(r, i) = S(r, i) /\ p = p /\ E(r, i) = p - 1
              \/ S(r, i) = p /\ p = E(r, i) /\ S(r, i) = p + 1
            BY <1>5
        <3>2. p \in Nat
            OBVIOUS
        <3>3. WidenedShape(r, p, i, S(r, i), p, q)
            BY <2>1, <2>2, <2>5, <2>6, <2>7, <3>1, <3>2, Zenon DEF WidenedShape
        <3> QED
            BY <3>3, Widened, Zenon
    <2> QED
        BY <1>0, <2>4, <2>5, <2>8, <2>9
<1>6. CASE i > 0 /\ S(r, i) = p + 1
    <2> DEFINE q == [r EXCEPT ![i] = [Start |-> p, End |-> E(r, i)]]
    <2>1. i \in 1..Len(r)
        BY <1>0, <1>2, <1>6
    <2>2. S(r, i) \in Nat /\ E(r, i) \in Nat /\ S(r, i) <= E(r, i)
        BY <1>0, <1>1, <2>1, Zenon
    <2>3. /\ [Start |-> p, End |-> E(r, i)] \in PacketInterval
          /\ [Start |-> p, End |-> E(r, i)].Start = p
          /\ [Start |-> p, End |-> E(r, i)].End = E(r, i)
        BY <2>2 DEF PacketInterval
    <2>4. Insert(r, p) = MergeWithPrev(q, i)
        <3>1. ~(p >= S(r, i)) /\ ~(E(r, i) = p - 1)
            BY <1>6, <2>2
        <3> QED
            BY <1>3, <1>6, <3>1, Zenon
    <2>5. /\ q \in Seq(PacketInterval) /\ Len(q) = Len(r)
          /\ S(q, i) = p /\ E(q, i) = E(r, i)
          /\ \A j \in 1..Len(r) : j # i => S(q, j) = S(r, j) /\ E(q, j) = E(r, j)
        BY <2>1, <2>3, ReplacedBounds, Zenon
    <2> HIDE DEF q
    <2>6. CASE i > 1 /\ E(r, i-1) = p - 1
        <3> DEFINE x == [Start |-> q[i-1].Start, End |-> q[i].End]
                   u == [q EXCEPT ![i-1] = x]
                   t == RemoveAt(u, i)
        <3>1. i - 1 \in 1..Len(r) /\ i - 1 # i /\ i \in 2..Len(r) /\ (p - 1) + 1 = p
            BY <1>0, <2>1, <2>6
        <3>2. E(q, i-1) + 1 = S(q, i)
            BY <2>5, <2>6, <3>1, Zenon
        <3>3. MergeWithPrev(q, i) = t
            BY <2>6, <3>2, Zenon DEF MergeWithPrev, S, E
        <3>4. x.Start = S(q, i-1) /\ x.End = E(q, i)
            BY DEF S, E
        <3>5. S(q, i-1) = S(r, i-1) /\ E(q, i) = E(r, i) /\ S(r, i-1) \in Nat
            BY <1>0, <2>5, <3>1, Zenon
        <3>6. x \in PacketInterval
            <4>1. q[i-1].Start \in Nat /\ q[i].End \in Nat
                BY <2>2, <3>5, Zenon DEF S, E
            <4> QED
                BY <4>1 DEF PacketInterval
        <3> HIDE DEF x
        <3>7. /\ u \in Seq(PacketInterval) /\ Len(u) = Len(r)
              /\ S(u, i-1) = x.Start /\ E(u, i-1) = x.End
              /\ \A j \in 1..Len(r) : j # i-1 => S(u, j) = S(q, j) /\ E(u, j) = E(q, j)
            <4>1. q \in Seq(PacketInterval) /\ Len(q) = Len(r) /\ i - 1 \in 1..Len(q)
                BY <2>5, <3>1, Zenon
            <4>2. /\ u \in Seq(PacketInterval) /\ Len(u) = Len(q)
                  /\ S(u, i-1) = x.Start /\ E(u, i-1) = x.End
                  /\ \A j \in 1..Len(q) : j # i-1 => S(u, j) = S(q, j) /\ E(u, j) = E(q, j)
                BY <3>6, <4>1, ReplacedBounds, Zenon
            <4> QED
                BY <4>1, <4>2, Zenon
        <3> HIDE DEF u
        <3>8. /\ t \in Seq(PacketInterval) /\ Len(t) = Len(r) - 1
              /\ \A j \in 1..Len(r)-1 : t[j] = IF j < i THEN u[j] ELSE u[j+1]
            BY <2>1, <3>7, RemoveAtProperties
        <3> HIDE DEF t
        <3>9. ASSUME NEW j \in 1..i-2 PROVE S(t, j) = S(r, j) /\ E(t, j) = E(r, j)
            <4>1. j \in 1..Len(r)-1 /\ j < i /\ j # i /\ j # i-1 /\ j \in 1..Len(r)
                BY <1>0, <3>1
            <4>2. S(t, j) = S(u, j) /\ E(t, j) = E(u, j)
                BY <3>8, <4>1, Zenon DEF S, E
            <4> QED
                BY <2>5, <3>7, <4>1, <4>2, Zenon
        <3>10. S(t, i-1) = S(r, i-1) /\ E(t, i-1) = E(r, i)
            <4>1. i - 1 \in 1..Len(r)-1 /\ i - 1 < i
                BY <1>0, <3>1
            <4>2. S(t, i-1) = S(u, i-1) /\ E(t, i-1) = E(u, i-1)
                BY <3>8, <4>1, Zenon DEF S, E
            <4> QED
                BY <3>4, <3>5, <3>7, <4>2, Zenon
        <3>11. ASSUME NEW j \in i..Len(r)-1 PROVE S(t, j) = S(r, j+1) /\ E(t, j) = E(r, j+1)
            <4>1. /\ j \in 1..Len(r)-1 /\ ~(j < i)
                  /\ j+1 \in 1..Len(r) /\ j+1 # i /\ j+1 # i-1
                BY <1>0, <3>1
            <4>2. S(t, j) = S(u, j+1) /\ E(t, j) = E(u, j+1)
                BY <3>8, <4>1, Zenon DEF S, E
            <4> QED
                BY <2>5, <3>7, <4>1, <4>2, Zenon
        <3>12. SeparatedList(t) /\ Covered(t) = Covered(r) \cup {p}
            <4>1. MergedShape(r, p, i, t)
                BY <1>6, <2>6, <3>1, <3>8, <3>9, <3>10, <3>11, Zenon DEF MergedShape
            <4> QED
                BY <4>1, Merged, Zenon
        <3>13. Len(t) <= Len(r) + 1
            BY <1>0, <3>8
        <3> QED
            BY <2>4, <3>3, <3>8, <3>12, <3>13, Zenon
    <2>7. CASE ~(i > 1 /\ E(r, i-1) = p - 1)
        <3>1. MergeWithPrev(q, i) = q
            <4>1. ASSUME i > 1 PROVE E(q, i-1) + 1 # S(q, i)
                <5>1. i - 1 \in 1..Len(r) /\ i - 1 # i
                    BY <1>0, <2>1, <4>1
                <5>2. E(r, i-1) \in Nat /\ E(r, i-1) # p - 1
                    BY <1>0, <2>7, <4>1, <5>1, Zenon
                <5>3. E(r, i-1) + 1 # p
                    BY <5>2
                <5> QED
                    BY <2>5, <5>1, <5>3, Zenon
            <4> QED
                BY <4>1, Zenon DEF MergeWithPrev, S, E
        <3>2. ASSUME NEW j \in 1..i-1 PROVE E(r, j) + 1 < p
            <4>1. j \in 1..Len(r) /\ j < i
                BY <1>0, <2>1
            <4>2. E(r, j) + 1 < S(r, i) /\ E(r, j) \in Nat
                BY <1>0, <1>1, <2>1, <4>1, Zenon
            <4>3. CASE j = i - 1
                <5>0. i > 1
                    BY <2>1
                <5>1. E(r, j) # p - 1
                    BY <2>7, <4>3, <5>0, Zenon
                <5> QED
                    BY <1>6, <4>2, <5>1
            <4>4. CASE j < i - 1
                <5>1. i - 1 \in 1..Len(r)
                    BY <1>0, <2>1, <4>4
                <5>2. /\ E(r, j) + 1 < S(r, i-1) /\ S(r, i-1) <= E(r, i-1)
                      /\ E(r, i-1) + 1 < S(r, i) /\ i - 1 < i
                      /\ S(r, i-1) \in Nat /\ E(r, i-1) \in Nat
                    <6>1. i - 1 < i
                        BY <2>1
                    <6> QED
                        BY <1>0, <1>1, <2>1, <4>1, <4>4, <5>1, <6>1, Zenon
                <5> QED
                    BY <1>6, <4>2, <5>2
            <4> QED
                BY <2>1, <4>3, <4>4
        <3>3. ASSUME NEW j \in i+1..Len(r) PROVE E(r, i) + 1 < S(r, j)
            <4>1. j \in 1..Len(r) /\ i < j
                BY <1>0, <2>1
            <4> QED
                BY <1>1, <2>1, <4>1, Zenon
        <3>4. SeparatedList(q) /\ Covered(q) = Covered(r) \cup {p}
            <4>1. \/ p = S(r, i) /\ E(r, i) = p /\ E(r, i) = p - 1
                  \/ p = p /\ E(r, i) = E(r, i) /\ S(r, i) = p + 1
                BY <1>6
            <4>2. p \in Nat
                OBVIOUS
            <4>3. WidenedShape(r, p, i, p, E(r, i), q)
                BY <2>1, <2>2, <2>5, <3>2, <3>3, <4>1, <4>2, Zenon DEF WidenedShape
            <4> QED
                BY <4>3, Widened, Zenon
        <3> QED
            BY <1>0, <2>4, <2>5, <3>1, <3>4
    <2> QED
        BY <2>6, <2>7
<1>7. CASE /\ ~(i > 0 /\ p >= S(r, i) /\ p <= E(r, i))
           /\ ~(i > 0 /\ E(r, i) = p - 1)
           /\ ~(i > 0 /\ S(r, i) = p + 1)
    <2> DEFINE x == [Start |-> p, End |-> p]
               q == InsertAt(r, i + 1, x)
    <2>1. Insert(r, p) = q
        BY <1>3, <1>7, Zenon
    <2>2. x \in PacketInterval /\ x.Start = p /\ x.End = p
        BY DEF PacketInterval
    <2> HIDE DEF x
    <2>3. i + 1 \in 1..Len(r)+1
        BY <1>0, <1>2
    <2>4. /\ q \in Seq(PacketInterval) /\ Len(q) = Len(r) + 1
          /\ \A j \in 1..Len(r)+1 : q[j] =
                 IF j < i + 1 THEN r[j] ELSE IF j = i + 1 THEN x ELSE r[j-1]
        <3>1. PICK k \in 1..Len(r)+1 : k = i + 1
            BY <2>3
        <3>2. /\ InsertAt(r, k, x) \in Seq(PacketInterval) /\ Len(InsertAt(r, k, x)) = Len(r) + 1
              /\ \A j \in 1..Len(r)+1 : InsertAt(r, k, x)[j] =
                     IF j < k THEN r[j] ELSE IF j = k THEN x ELSE r[j-1]
            BY <2>2, InsertAtProperties
        <3> QED
            BY <3>1, <3>2, Zenon
    <2> HIDE DEF q
    <2>5. ASSUME NEW j \in 1..i PROVE S(q, j) = S(r, j) /\ E(q, j) = E(r, j)
        <3>1. j \in 1..Len(r)+1 /\ j < i + 1
            BY <1>0, <1>2
        <3> QED
            BY <2>4, <3>1, Zenon DEF S, E
    <2>6. S(q, i+1) = p /\ E(q, i+1) = p
        <3>1. ~(i + 1 < i + 1)
            BY <1>2
        <3> QED
            BY <2>2, <2>3, <2>4, <3>1, Zenon DEF S, E
    <2>7. ASSUME NEW j \in i+2..Len(r)+1 PROVE S(q, j) = S(r, j-1) /\ E(q, j) = E(r, j-1)
        <3>1. j \in 1..Len(r)+1 /\ ~(j < i + 1) /\ j # i + 1
            BY <1>0, <1>2
        <3> QED
            BY <2>4, <3>1, Zenon DEF S, E
    <2>8. ASSUME i > 0 PROVE E(r, i) + 1 < p
        <3>1. i \in 1..Len(r)
            BY <1>0, <1>2, <2>8
        <3>2. S(r, i) \in Nat /\ E(r, i) \in Nat /\ S(r, i) <= p + 1
            BY <1>0, <1>2, <2>8, <3>1, Zenon
        <3> QED
            BY <1>7, <2>8, <3>2
    <2>9. ASSUME NEW j \in i+1..Len(r) PROVE p + 1 < S(r, j)
        <3>1. S(r, j) > p + 1 /\ j \in 1..Len(r)
            BY <1>0, <1>2
        <3>2. S(r, j) \in Nat
            BY <1>0, <3>1, Zenon
        <3> QED
            BY <3>1, <3>2
    <2>10. SeparatedList(q) /\ Covered(q) = Covered(r) \cup {p}
        <3>1. InsertedShape(r, p, i, q)
            BY <1>2, <2>4, <2>5, <2>6, <2>7, <2>8, <2>9, Zenon DEF InsertedShape
        <3> QED
            BY <3>1, Inserted, Zenon
    <2> QED
        BY <1>0, <2>1, <2>4, <2>10
<1> QED
    BY <1>4, <1>5, <1>6, <1>7

-----------------------------------------------------------------------------
(* What DeleteUpTo does to the list. *)

\* The first k intervals of r are gone, the next one starts at max(a, p + 1).
DroppedShape(r, p, k, q) ==
    /\ k \in 0..Len(r)
    /\ \A j \in 1..k : E(r, j) <= p
    /\ k < Len(r) => E(r, k+1) > p
    /\ q \in Seq(PacketInterval) /\ Len(q) = Len(r) - k
    /\ \A j \in 1..Len(r)-k : E(q, j) = E(r, k+j)
    /\ \A j \in 2..Len(r)-k : S(q, j) = S(r, k+j)
    /\ k < Len(r) => S(q, 1) = IF S(r, k+1) <= p THEN p + 1 ELSE S(r, k+1)

LEMMA Dropped ==
    ASSUME NEW r \in Seq(PacketInterval), SeparatedList(r), NEW p \in Nat,
           NEW k, NEW q, DroppedShape(r, p, k, q)
    PROVE  /\ SeparatedList(q)
           /\ Covered(q) = {n \in Covered(r) : n > p}
<1> USE DEF DroppedShape
<1>0. Len(r) \in Nat /\ \A j \in 1..Len(r) : S(r, j) \in Nat /\ E(r, j) \in Nat
    BY Bounds
<1>1. /\ \A j \in 1..Len(r) : 1 <= S(r, j) /\ S(r, j) <= E(r, j)
      /\ \A j, m \in 1..Len(r) : j < m => E(r, j) + 1 < S(r, m)
    BY SeparatedBounds
<1>2. ASSUME NEW j \in 1..Len(q)
      PROVE  /\ k + j \in 1..Len(r)
             /\ E(q, j) = E(r, k+j)
             /\ E(r, k+j) > p
             /\ S(q, j) = IF S(r, k+j) <= p THEN p + 1 ELSE S(r, k+j)
    <2>1. k + j \in 1..Len(r) /\ k < Len(r) /\ k + 1 \in 1..Len(r)
        BY <1>0
    <2>2. S(r, k+j) \in Nat /\ E(r, k+j) \in Nat /\ E(r, k+1) \in Nat
        BY <1>0, <2>1, Zenon
    <2>3. E(q, j) = E(r, k+j)
        BY <1>0
    <2>4. CASE j = 1
        BY <2>1, <2>3, <2>4
    <2>5. CASE j > 1
        <3>1. S(q, j) = S(r, k+j)
            BY <1>0, <2>5
        <3>2. k + 1 < k + j
            BY <1>0, <2>5
        <3>3. E(r, k+1) + 1 < S(r, k+j) /\ S(r, k+j) <= E(r, k+j) /\ E(r, k+1) > p
            BY <1>1, <2>1, <3>2, Zenon
        <3>4. ~(S(r, k+j) <= p) /\ E(r, k+j) > p
            BY <2>2, <3>3
        <3> QED
            BY <2>1, <2>3, <3>1, <3>4, Zenon
    <2> QED
        BY <1>0, <2>4, <2>5
<1>3. SeparatedList(q)
    <2>1. ASSUME NEW j \in 1..Len(q)
          PROVE  1 <= S(q, j) /\ S(q, j) <= E(q, j)
        <3>1. /\ S(r, k+j) \in Nat /\ E(r, k+j) \in Nat
              /\ 1 <= S(r, k+j) /\ S(r, k+j) <= E(r, k+j)
            BY <1>0, <1>1, <1>2, Zenon
        <3>2. E(q, j) = E(r, k+j) /\ E(r, k+j) > p
            BY <1>2, Zenon
        <3>3. S(q, j) = IF S(r, k+j) <= p THEN p + 1 ELSE S(r, k+j)
            BY <1>2, Zenon
        <3> QED
            BY <3>1, <3>2, <3>3
    <2>2. ASSUME NEW j \in 1..Len(q), NEW m \in 1..Len(q), j < m
          PROVE  E(q, j) + 1 < S(q, m)
        <3>1. k + j < k + m
            BY <1>0, <2>2
        <3>2. /\ S(r, k+m) \in Nat /\ E(r, k+j) \in Nat /\ E(r, k+j) + 1 < S(r, k+m)
              /\ E(r, k+j) > p
            BY <1>0, <1>1, <1>2, <3>1, Zenon
        <3>3. E(q, j) = E(r, k+j) /\ S(q, m) = IF S(r, k+m) <= p THEN p + 1 ELSE S(r, k+m)
            BY <1>2, Zenon
        <3> QED
            BY <3>2, <3>3
    <2> QED
        BY <2>1, <2>2, SeparatedBounds
<1>4. ASSUME NEW n
      PROVE  n \in Covered(q) <=> n \in Covered(r) /\ n > p
    <2>1. n \in Covered(q) <=> n \in Nat /\ \E j \in 1..Len(q) : S(q, j) <= n /\ n <= E(q, j)
        BY CoveredMember
    <2>2. n \in Covered(r) <=> n \in Nat /\ \E j \in 1..Len(r) : S(r, j) <= n /\ n <= E(r, j)
        BY CoveredMember
    <2>3. ASSUME n \in Covered(q) PROVE n \in Covered(r) /\ n > p
        <3>1. PICK j \in 1..Len(q) : S(q, j) <= n /\ n <= E(q, j)
            BY <2>1, <2>3
        <3>2. n \in Nat
            BY <2>1, <2>3
        <3>3. S(r, k+j) \in Nat /\ k + j \in 1..Len(r)
            BY <1>0, <1>2, Zenon
        <3>4. S(q, j) = IF S(r, k+j) <= p THEN p + 1 ELSE S(r, k+j)
            BY <1>2, Zenon
        <3>5. n > p /\ S(r, k+j) <= n
            BY <3>1, <3>2, <3>3, <3>4
        <3>6. n <= E(r, k+j)
            BY <1>2, <3>1, Zenon
        <3> QED
            BY <2>2, <3>2, <3>3, <3>5, <3>6, Zenon
    <2>4. ASSUME n \in Covered(r), n > p PROVE n \in Covered(q)
        <3>1. PICK m \in 1..Len(r) : S(r, m) <= n /\ n <= E(r, m)
            BY <2>2, <2>4
        <3>2. n \in Nat /\ E(r, m) \in Nat /\ S(r, m) \in Nat
            BY <1>0, <2>2, <2>4, <3>1, Zenon
        <3>3. ~(m <= k)
            <4> SUFFICES ASSUME m <= k PROVE FALSE
                OBVIOUS
            <4>1. m \in 1..k
                BY <1>0
            <4>2. E(r, m) <= p
                BY <4>1, Zenon
            <4> QED
                BY <2>4, <3>1, <3>2, <4>2
        <3>4. m - k \in 1..Len(q) /\ k + (m - k) = m
            BY <1>0, <3>3
        <3>5. E(q, m-k) = E(r, m) /\ S(q, m-k) = IF S(r, m) <= p THEN p + 1 ELSE S(r, m)
            BY <1>2, <3>4
        <3>6. S(q, m-k) <= n
            BY <2>4, <3>1, <3>2, <3>5
        <3>7. n <= E(q, m-k)
            BY <3>1, <3>5, Zenon
        <3> QED
            BY <2>1, <3>2, <3>4, <3>6, <3>7, Zenon
    <2> QED
        BY <2>3, <2>4, Zenon
<1> QED
    BY <1>3, <1>4

LEMMA DeleteCorrect ==
    ASSUME NEW r \in Seq(PacketInterval), SeparatedList(r), NEW p \in Nat
    PROVE  /\ Delete(r, p) \in Seq(PacketInterval)
           /\ Len(Delete(r, p)) <= Len(r)
           /\ SeparatedList(Delete(r, p))
           /\ Covered(Delete(r, p)) = {n \in Covered(r) : n > p}
<1> DEFINE k == NumDeleted(r, p)
           kept == SubSeq(r, k + 1, Len(r))
           x == [Start |-> p + 1, End |-> r[k+1].End]
           q == Delete(r, p)
<1>0. Len(r) \in Nat /\ \A j \in 1..Len(r) : S(r, j) \in Nat /\ E(r, j) \in Nat
    BY Bounds
<1>1. /\ k \in 0..Len(r)
      /\ \A j \in 1..k : E(r, j) <= p
      /\ k < Len(r) => E(r, k+1) > p
    BY NumDeletedPosition, Zenon DEF E
<1>2. q = IF k < Len(r) /\ S(r, k+1) <= p THEN [kept EXCEPT ![1] = x] ELSE kept
    BY Zenon DEF Delete, S
<1> HIDE DEF k, q
<1>3. /\ kept \in Seq(PacketInterval) /\ Len(kept) = Len(r) - k
      /\ \A j \in 1..Len(r)-k : kept[j] = r[k+j]
    <2>1. k + 1 \in Int /\ Len(r) \in Int
        BY <1>0, <1>1
    <2>2. \A j \in k+1..Len(r) : r[j] \in PacketInterval
        <3> TAKE j \in k+1..Len(r)
        <3>1. j \in 1..Len(r)
            BY <1>0, <1>1
        <3> QED
            BY <3>1, ElementOfSeq, Zenon
    <2>3. /\ kept \in Seq(PacketInterval)
          /\ Len(kept) = IF k+1 <= Len(r) THEN Len(r) - (k+1) + 1 ELSE 0
          /\ \A j \in 1..Len(r)-(k+1)+1 : kept[j] = r[(k+1)+j-1]
        <3>1. PICK a \in Int : a = k + 1
            BY <2>1
        <3>2. /\ SubSeq(r, a, Len(r)) \in Seq(PacketInterval)
              /\ Len(SubSeq(r, a, Len(r))) = IF a <= Len(r) THEN Len(r) - a + 1 ELSE 0
              /\ \A j \in 1..Len(r)-a+1 : SubSeq(r, a, Len(r))[j] = r[a+j-1]
            BY <2>1, <2>2, <3>1, SubSeqProperties
        <3> QED
            BY <3>1, <3>2, Zenon
    <2> HIDE DEF kept
    <2>4. Len(kept) = Len(r) - k
        BY <1>0, <1>1, <2>3
    <2>5. ASSUME NEW j \in 1..Len(r)-k PROVE kept[j] = r[k+j]
        <3>1. j \in 1..Len(r)-(k+1)+1 /\ (k+1)+j-1 = k+j
            BY <1>0, <1>1
        <3> QED
            BY <2>3, <3>1, Zenon
    <2> QED
        BY <2>3, <2>4, <2>5, Zenon
<1> HIDE DEF kept
<1>4. ASSUME NEW j \in 1..Len(r)-k PROVE S(kept, j) = S(r, k+j) /\ E(kept, j) = E(r, k+j)
    BY <1>3, Zenon DEF S, E
<1>5. DroppedShape(r, p, k, q)
    <2>1. CASE k < Len(r) /\ S(r, k+1) <= p
        <3>1. 1 \in 1..Len(r)-k /\ k + 1 \in 1..Len(r)
            BY <1>0, <1>1, <2>1
        <3>2. x.Start = p + 1 /\ x.End = E(r, k+1)
            BY DEF E
        <3>3. E(r, k+1) \in Nat
            BY <1>0, <3>1, Zenon
        <3>4. x \in PacketInterval
            <4>1. r[k+1].End \in Nat /\ p + 1 \in Nat
                BY <3>3 DEF E
            <4> QED
                BY <4>1 DEF PacketInterval
        <3> HIDE DEF x
        <3>5. q = [kept EXCEPT ![1] = x]
            BY <1>2, <2>1, Zenon
        <3>6. kept \in Seq(PacketInterval) /\ 1 \in 1..Len(kept) /\ Len(kept) = Len(r) - k
            BY <1>3, <3>1, Zenon
        <3>7. /\ q \in Seq(PacketInterval) /\ Len(q) = Len(kept)
              /\ S(q, 1) = x.Start /\ E(q, 1) = x.End
              /\ \A j \in 1..Len(kept) : j # 1 => S(q, j) = S(kept, j) /\ E(q, j) = E(kept, j)
            BY <3>4, <3>5, <3>6, ReplacedBounds, Zenon
        <3>8. ASSUME NEW j \in 1..Len(r)-k PROVE E(q, j) = E(r, k+j)
            BY <1>4, <3>2, <3>6, <3>7, Zenon
        <3>9. ASSUME NEW j \in 2..Len(r)-k PROVE S(q, j) = S(r, k+j)
            <4>1. j \in 1..Len(r)-k /\ j # 1
                BY <1>0, <1>1
            <4> QED
                BY <1>4, <3>6, <3>7, <4>1, Zenon
        <3>10. Len(q) = Len(r) - k /\ S(q, 1) = p + 1
            BY <3>2, <3>6, <3>7, Zenon
        <3> QED
            BY <1>1, <2>1, <3>7, <3>8, <3>9, <3>10, Zenon DEF DroppedShape
    <2>2. CASE ~(k < Len(r) /\ S(r, k+1) <= p)
        <3>1. q = kept
            BY <1>2, <2>2, Zenon
        <3>2. ASSUME NEW j \in 2..Len(r)-k PROVE j \in 1..Len(r)-k
            BY <1>0, <1>1
        <3>3. ASSUME k < Len(r) PROVE 1 \in 1..Len(r)-k
            BY <1>0, <1>1, <3>3
        <3> QED
            BY <1>1, <1>3, <1>4, <2>2, <3>1, <3>2, <3>3, Zenon DEF DroppedShape
    <2> QED
        BY <2>1, <2>2
<1>6. SeparatedList(q) /\ Covered(q) = {n \in Covered(r) : n > p}
    BY <1>5, Dropped, Zenon
<1>7. q \in Seq(PacketInterval) /\ Len(q) <= Len(r)
    BY <1>0, <1>1, <1>5 DEF DroppedShape
<1> QED
    BY <1>6, <1>7, Zenon DEF q

-----------------------------------------------------------------------------
(* The theorems. *)

LEMMA EmptyHistory == /\ <<>> \in Seq(PacketInterval)
                      /\ Len(<<>>) = 0
                      /\ SeparatedList(<<>>)
                      /\ Covered(<<>>) = {}
<1>1. <<>> \in Seq(PacketInterval) /\ Len(<<>>) = 0
    OBVIOUS
<1>2. 1..Len(<<>>) = {}
    BY <1>1
<1> QED
    BY <1>1, <1>2 DEF SeparatedList, Covered

\* What one call does to the list and to the numbers it covers.
LEMMA ReceivedPacketStep ==
    ASSUME TypeOK, Separated, NEW p \in 1..MaxPacketNumber, ReceivedPacket(p)
    PROVE  /\ TypeOK' /\ Separated'
           /\ Covered(ranges') = IF TooManyRanges(ranges) THEN Covered(ranges)
                                ELSE Covered(ranges) \cup {p}
<1>0. p \in Nat \ {0}
    BY PacketIntervalsAssumption
<1>1. ranges \in Seq(PacketInterval) /\ Len(ranges) <= MaxTrackedReceivedAckRanges
      /\ lowestInReceivedPacketNumbers' \in Nat
    BY DEF TypeOK, ReceivedPacket
<1>2. SeparatedList(ranges)
    BY DEF Separated
<1>3. CASE TooManyRanges(ranges)
    <2>1. ranges' = ranges
        BY <1>3 DEF ReceivedPacket
    <2> QED
        BY <1>1, <1>2, <1>3, <2>1, Zenon DEF TypeOK, Separated
<1>4. CASE ~TooManyRanges(ranges)
    <2>1. ranges' = Insert(ranges, p)
        BY <1>4 DEF ReceivedPacket
    <2>2. /\ ranges' \in Seq(PacketInterval) /\ Len(ranges') <= Len(ranges) + 1
          /\ SeparatedList(ranges') /\ Covered(ranges') = Covered(ranges) \cup {p}
        BY <1>0, <1>1, <1>2, <2>1, InsertCorrect, Zenon
    <2>3. Len(ranges') <= MaxTrackedReceivedAckRanges
        <3>1. Len(ranges) \in Nat /\ Len(ranges') \in Nat
            BY <1>1, <2>2, Bounds, Zenon
        <3>2. ~(Len(ranges) >= MaxTrackedReceivedAckRanges) /\ Len(ranges') <= Len(ranges) + 1
            BY <1>4, <2>2 DEF TooManyRanges
        <3> QED
            BY <3>1, <3>2, PacketIntervalsAssumption
    <2> QED
        BY <1>1, <1>4, <2>2, <2>3, Zenon DEF TypeOK, Separated
<1> QED
    BY <1>3, <1>4

LEMMA DeleteUpToStep ==
    ASSUME TypeOK, Separated, NEW p \in 0..MaxPacketNumber, DeleteUpTo(p)
    PROVE  /\ TypeOK' /\ Separated'
           /\ Covered(ranges') = {n \in Covered(ranges) : n > p}
<1>0. p \in Nat
    BY PacketIntervalsAssumption
<1>1. ranges \in Seq(PacketInterval) /\ Len(ranges) <= MaxTrackedReceivedAckRanges
      /\ lowestInReceivedPacketNumbers' \in Nat
    BY <1>0 DEF TypeOK, DeleteUpTo
<1>2. SeparatedList(ranges)
    BY DEF Separated
<1>3. ranges' = Delete(ranges, p)
    BY DEF DeleteUpTo
<1>4. /\ ranges' \in Seq(PacketInterval) /\ Len(ranges') <= Len(ranges)
      /\ SeparatedList(ranges') /\ Covered(ranges') = {n \in Covered(ranges) : n > p}
    BY <1>0, <1>1, <1>2, <1>3, DeleteCorrect, Zenon
<1>5. Len(ranges') <= MaxTrackedReceivedAckRanges
    <2>1. Len(ranges) \in Nat /\ Len(ranges') \in Nat
        BY <1>1, <1>4, Bounds, Zenon
    <2> QED
        BY <1>1, <1>4, <2>1, PacketIntervalsAssumption
<1> QED
    BY <1>1, <1>4, <1>5, Zenon DEF TypeOK, Separated

\* The list of received_packet_history.go never holds more than
\* MaxTrackedReceivedAckRanges intervals and stays sorted, with a missing packet
\* number between any two intervals, whatever packets arrive and are deleted.
THEOREM HistoryInvariant == Spec => [](TypeOK /\ Separated)
<1>1. Init => TypeOK /\ Separated
    BY EmptyHistory, PacketIntervalsAssumption DEF Init, TypeOK, Separated
<1>2. TypeOK /\ Separated /\ [Next]_vars => (TypeOK /\ Separated)'
    <2> SUFFICES ASSUME TypeOK, Separated, [Next]_vars
                 PROVE  TypeOK' /\ Separated'
        OBVIOUS
    <2>1. ASSUME NEW p \in 1..MaxPacketNumber, ReceivedPacket(p)
          PROVE  TypeOK' /\ Separated'
        BY <2>1, ReceivedPacketStep
    <2>2. ASSUME NEW p \in 0..MaxPacketNumber, DeleteUpTo(p)
          PROVE  TypeOK' /\ Separated'
        BY <2>2, DeleteUpToStep
    <2>3. CASE UNCHANGED vars
        BY <2>3 DEF vars, TypeOK, Separated
    <2> QED
        BY <2>1, <2>2, <2>3 DEF Next
<1> QED
    BY <1>1, <1>2, PTL DEF Spec

\* Every ReceivedPacket of received_packet_history.go that is not refused adds
\* exactly its number and every DeleteUpTo(p) removes exactly the numbers up to p.
THEOREM HistoryCallsAreExact == Spec => CallsAreExact
<1> DEFINE A == /\ \A p \in 1..MaxPacketNumber : ReceivedPacket(p) =>
                      Covered(ranges') = IF TooManyRanges(ranges) THEN Covered(ranges)
                                         ELSE Covered(ranges) \cup {p}
                /\ \A p \in 0..MaxPacketNumber : DeleteUpTo(p) =>
                      Covered(ranges') = {n \in Covered(ranges) : n > p}
<1>1. TypeOK /\ Separated /\ [Next]_vars => [A]_vars
    BY ReceivedPacketStep, DeleteUpToStep, Zenon
<1> QED
    BY <1>1, HistoryInvariant, PTL DEF Spec, CallsAreExact

\* The list implements the set of received packet numbers: an ACK built from it
\* reports a number only if it was received and not deleted since.
THEOREM HistoryImplementsSet == Spec => ImplementsSet
<1>1. Init => AsSet!Init
    BY EmptyHistory DEF Init, AsSet!Init
<1>2. TypeOK /\ Separated /\ [Next]_vars => [AsSet!Next]_(Covered(ranges))
    <2> SUFFICES ASSUME TypeOK, Separated, [Next]_vars
                 PROVE  AsSet!Next \/ Covered(ranges') = Covered(ranges)
        OBVIOUS
    <2>1. ASSUME NEW p \in 1..MaxPacketNumber, ReceivedPacket(p)
          PROVE  AsSet!Next \/ Covered(ranges') = Covered(ranges)
        BY <2>1, ReceivedPacketStep, Zenon DEF AsSet!Next, AsSet!Remember
    <2>2. ASSUME NEW p \in 0..MaxPacketNumber, DeleteUpTo(p)
          PROVE  AsSet!Next
        BY <2>2, DeleteUpToStep, Zenon DEF AsSet!Next, AsSet!Forget
    <2>3. CASE UNCHANGED vars
        BY <2>3, Zenon DEF vars
    <2> QED
        BY <2>1, <2>2, <2>3 DEF Next
<1> QED
    BY <1>1, <1>2, HistoryInvariant, PTL DEF Spec, ImplementsSet, AsSet!Spec
=============================================================================

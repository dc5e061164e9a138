-------------------------- MODULE ObservationProofs --------------------------
(***************************************************************************)
(* Theorems about Observation for a queue, a demand, a set of frames and   *)
(* bounds of any size.                                                     *)
(***************************************************************************)
EXTENDS Observation, SequenceTheorems, FiniteSetTheorems, NaturalsInduction,
        TLAPS

Candidates == {"stable", "uncertain", "drifting", "unstable"}

Frames == [hard : {"none", "violation", "boundary"}, critical : BOOLEAN,
           candidate : Candidates, epoch : Nat]

-----------------------------------------------------------------------------
(* Counting the urgent frames of a sequence.                               *)

UrgentAt(s) == {i \in 1 .. Len(s) : Urgent(s[i])}

\* The urgent frames of a sequence are a finite number.
LEMMA UrgentInIsNat ==
    ASSUME NEW s \in Seq(Frames)
    PROVE  /\ UrgentIn(s) = Cardinality(UrgentAt(s))
           /\ IsFiniteSet(UrgentAt(s))
           /\ UrgentIn(s) \in Nat
<1>1. DOMAIN s = 1 .. Len(s) /\ Len(s) \in Nat
    BY LenProperties
<1>2. UrgentIn(s) = Cardinality(UrgentAt(s))
    BY <1>1 DEF UrgentIn, UrgentAt
<1>3. IsFiniteSet(1 .. Len(s))
    BY <1>1, FS_Interval
<1>4. UrgentAt(s) \in SUBSET (1 .. Len(s))
    BY DEF UrgentAt
<1>5. IsFiniteSet(UrgentAt(s))
    BY <1>3, <1>4, FS_Subset
<1> QED BY <1>2, <1>5, FS_CardinalityType

\* An empty sequence has none.
LEMMA UrgentOfNone == UrgentIn(<< >>) = 0
<1>1. << >> \in Seq(Frames)
    BY EmptySeq
<1>2. UrgentAt(<< >>) = {}
    BY DEF UrgentAt
<1> QED BY <1>1, <1>2, UrgentInIsNat, FS_EmptySet

\* A single frame counts as one or none.
LEMMA UrgentOfOne ==
    ASSUME NEW f \in Frames
    PROVE  UrgentIn(<<f>>) = IF Urgent(f) THEN 1 ELSE 0
<1>1. <<f>> \in Seq(Frames)
    OBVIOUS
<1>2. UrgentAt(<<f>>) = IF Urgent(f) THEN {1} ELSE {}
    BY DEF UrgentAt
<1> QED BY <1>1, <1>2, UrgentInIsNat, FS_EmptySet, FS_Singleton

\* Counting is additive.
LEMMA UrgentOfConcat ==
    ASSUME NEW s \in Seq(Frames), NEW t \in Seq(Frames)
    PROVE  UrgentIn(s \o t) = UrgentIn(s) + UrgentIn(t)
<1> DEFINE shifted == {i + Len(s) : i \in UrgentAt(t)}
           shift == [i \in UrgentAt(t) |-> i + Len(s)]
<1>1. /\ s \o t \in Seq(Frames)
      /\ Len(s \o t) = Len(s) + Len(t)
      /\ \A i \in 1 .. Len(s) + Len(t) :
            (s \o t)[i] = IF i <= Len(s) THEN s[i] ELSE t[i - Len(s)]
    BY ConcatProperties
<1>2. Len(s) \in Nat /\ Len(t) \in Nat
    BY LenProperties
<1>3. UrgentAt(s \o t) = UrgentAt(s) \cup shifted
    <2>1. ASSUME NEW i \in UrgentAt(s \o t) PROVE i \in UrgentAt(s) \cup shifted
        <3>1. i \in 1 .. Len(s) + Len(t) /\ Urgent((s \o t)[i])
            BY <1>1, <2>1 DEF UrgentAt
        <3>2. CASE i <= Len(s)
            BY <1>1, <1>2, <3>1, <3>2 DEF UrgentAt
        <3>3. CASE ~(i <= Len(s))
            <4>1. i - Len(s) \in 1 .. Len(t) /\ Urgent(t[i - Len(s)])
                BY <1>1, <1>2, <3>1, <3>3
            <4>2. i - Len(s) \in UrgentAt(t) /\ i = (i - Len(s)) + Len(s)
                BY <1>2, <3>1, <4>1 DEF UrgentAt
            <4> QED BY <4>2
        <3> QED BY <3>2, <3>3
    <2>2. ASSUME NEW i \in UrgentAt(s) PROVE i \in UrgentAt(s \o t)
        <3>1. i \in 1 .. Len(s) /\ Urgent(s[i])
            BY DEF UrgentAt
        <3> QED BY <1>1, <1>2, <3>1 DEF UrgentAt
    <2>3. ASSUME NEW i \in UrgentAt(t) PROVE i + Len(s) \in UrgentAt(s \o t)
        <3>1. i \in 1 .. Len(t) /\ Urgent(t[i])
            BY DEF UrgentAt
        <3>2. /\ i + Len(s) \in 1 .. Len(s) + Len(t) /\ ~(i + Len(s) <= Len(s))
              /\ (i + Len(s)) - Len(s) = i
            BY <1>2, <3>1
        <3>3. (s \o t)[i + Len(s)] = t[i]
            BY <1>1, <3>2
        <3> QED BY <1>1, <3>1, <3>2, <3>3 DEF UrgentAt
    <2> QED BY <2>1, <2>2, <2>3
<1>4. UrgentAt(s) \cap shifted = {}
    <2> SUFFICES ASSUME NEW i \in UrgentAt(t), i + Len(s) \in UrgentAt(s)
                 PROVE  FALSE
        OBVIOUS
    <2> QED BY <1>2 DEF UrgentAt
<1>5. /\ IsFiniteSet(UrgentAt(s)) /\ IsFiniteSet(UrgentAt(t))
      /\ UrgentIn(s) = Cardinality(UrgentAt(s)) /\ UrgentIn(s) \in Nat
      /\ UrgentIn(t) = Cardinality(UrgentAt(t)) /\ UrgentIn(t) \in Nat
      /\ UrgentIn(s \o t) = Cardinality(UrgentAt(s \o t))
    BY <1>1, UrgentInIsNat
<1>6. IsFiniteSet(shifted) /\ Cardinality(shifted) = Cardinality(UrgentAt(t))
    <2>1. shift \in [UrgentAt(t) -> shifted]
        OBVIOUS
    <2>2. \A a, b \in UrgentAt(t) : shift[a] = shift[b] => a = b
        BY <1>2 DEF UrgentAt
    <2>3. \A x \in shifted : \E i \in UrgentAt(t) : shift[i] = x
        OBVIOUS
    <2>4. shift \in Bijection(UrgentAt(t), shifted)
        BY <2>1, <2>2, <2>3 DEF Bijection, Injection, Surjection, IsInjective
    <2>5. ExistsBijection(UrgentAt(t), shifted)
        BY <2>4 DEF ExistsBijection
    <2> QED BY <1>5, <2>5, FS_Bijection
<1> HIDE DEF shifted, shift
<1>7. Cardinality(UrgentAt(s) \cup shifted)
        = Cardinality(UrgentAt(s)) + Cardinality(shifted) - Cardinality({})
    BY <1>4, <1>5, <1>6, FS_Union
<1> QED BY <1>3, <1>5, <1>6, <1>7, FS_EmptySet

-----------------------------------------------------------------------------
(* The queue.                                                              *)

Bounded(q) == Len(q) > MaxQueue => Low(q) = {}

\* A set of natural numbers that is not empty has a least element.
LEMMA Least ==
    ASSUME NEW S \in SUBSET Nat, S # {}
    PROVE  \E i \in S : \A j \in S : i <= j
<1>1. IsWellFoundedOn({ss \in Nat \X Nat : ss[1] < ss[2]}, Nat)
    BY NatLessThanWellFounded DEF OpToRel
<1>2. \E x \in S : \A y \in S : ~(<<y, x>> \in {ss \in Nat \X Nat : ss[1] < ss[2]})
    BY <1>1, WFMin
<1>3. ASSUME NEW x \in S, NEW y \in S,
             ~(<<y, x>> \in {ss \in Nat \X Nat : ss[1] < ss[2]})
      PROVE  x <= y
    <2>1. x \in Nat /\ y \in Nat /\ <<y, x>> \in Nat \X Nat
        OBVIOUS
    <2>2. ~(y < x)
        BY <1>3, <2>1
    <2> QED BY <2>1, <2>2
<1> QED BY <1>2, <1>3

\* A slice of a sequence of frames.
LEMMA Slice ==
    ASSUME NEW q \in Seq(Frames), NEW a \in 1 .. Len(q) + 1,
           NEW b \in a - 1 .. Len(q)
    PROVE  /\ SubSeq(q, a, b) \in Seq(Frames)
           /\ Len(SubSeq(q, a, b)) = (b - a) + 1
           /\ \A j \in 1 .. (b - a) + 1 : SubSeq(q, a, b)[j] = q[(a + j) - 1]
<1>1. Len(q) \in Nat /\ \A j \in 1 .. Len(q) : q[j] \in Frames
    BY LenProperties, ElementOfSeq
<1>2. a \in Int /\ b \in Int /\ \A j \in a .. b : q[j] \in Frames
    BY <1>1
<1> DEFINE s == SubSeq(q, a, b)
<1>3. /\ s \in Seq(Frames)
      /\ Len(s) = IF a <= b THEN b - a + 1 ELSE 0
      /\ \A j \in 1 .. b - a + 1 : s[j] = q[a + j - 1]
    BY <1>2, SubSeqProperties
<1> HIDE DEF s
<1>4. b - a + 1 = (b - a) + 1 /\ (a <= b \/ (b - a) + 1 = 0)
    BY <1>1
<1>5. Len(s) = (b - a) + 1
    BY <1>2, <1>3, <1>4
<1> QED BY <1>3, <1>4, <1>5 DEF s

\* A sequence of frames is what lies before a place and from it on.
LEMMA Split ==
    ASSUME NEW q \in Seq(Frames), NEW k \in 0 .. Len(q)
    PROVE  q = SubSeq(q, 1, k) \o SubSeq(q, k + 1, Len(q))
<1>1. Len(q) \in Nat
    BY LenProperties
<1>2. /\ 1 \in 1 .. Len(q) + 1 /\ k \in 1 - 1 .. Len(q)
      /\ Len(q) \in k .. Len(q)
    BY <1>1
<1>3. SubSeq(q, 1, k) \o SubSeq(q, k + 1, Len(q)) = SubSeq(q, 1, Len(q))
    BY <1>2, ConcatAdjacentSubSeq
<1> QED BY <1>3, SubSeqFull

\* The urgent frames of a sequence are those on either side of a place.
LEMMA UrgentOfSplit ==
    ASSUME NEW q \in Seq(Frames), NEW k \in 0 .. Len(q)
    PROVE  UrgentIn(q) = UrgentIn(SubSeq(q, 1, k))
                           + UrgentIn(SubSeq(q, k + 1, Len(q)))
<1>1. Len(q) \in Nat
    BY LenProperties
<1>2. /\ 1 \in 1 .. Len(q) + 1 /\ k \in 1 - 1 .. Len(q)
      /\ k + 1 \in 1 .. Len(q) + 1 /\ Len(q) \in (k + 1) - 1 .. Len(q)
    BY <1>1
<1>3. SubSeq(q, 1, k) \in Seq(Frames)
    BY <1>2, Slice
<1>4. SubSeq(q, k + 1, Len(q)) \in Seq(Frames)
    BY <1>2, Slice
<1>5. UrgentIn(SubSeq(q, 1, k) \o SubSeq(q, k + 1, Len(q)))
        = UrgentIn(SubSeq(q, 1, k)) + UrgentIn(SubSeq(q, k + 1, Len(q)))
    BY <1>3, <1>4, UrgentOfConcat
<1> QED BY <1>5, Split

\* The first frame of a sequence and the others.
LEMMA UrgentOfHead ==
    ASSUME NEW q \in Seq(Frames), q # << >>
    PROVE  /\ Head(q) \in Frames /\ Tail(q) \in Seq(Frames)
           /\ UrgentIn(q) = (IF Urgent(Head(q)) THEN 1 ELSE 0) + UrgentIn(Tail(q))
<1>1. /\ Head(q) \in Frames /\ Tail(q) \in Seq(Frames)
      /\ Tail(q) = SubSeq(q, 2, Len(q)) /\ Head(q) = q[1]
    BY HeadTailProperties, TailIsSubSeq
<1>2. Len(q) \in Nat /\ Len(q) # 0
    BY EmptySeq, LenProperties
<1>3. UrgentIn(q) = UrgentIn(SubSeq(q, 1, 1)) + UrgentIn(SubSeq(q, 1 + 1, Len(q)))
    <2>1. 1 \in 0 .. Len(q)
        BY <1>2
    <2> QED BY <2>1, UrgentOfSplit
<1>4. SubSeq(q, 1, 1) = <<Head(q)>>
    <2>1. 1 \in 1 .. Len(q) + 1 /\ 1 \in 1 - 1 .. Len(q)
        BY <1>2
    <2>2. /\ SubSeq(q, 1, 1) \in Seq(Frames)
          /\ Len(SubSeq(q, 1, 1)) = (1 - 1) + 1
          /\ \A j \in 1 .. (1 - 1) + 1 : SubSeq(q, 1, 1)[j] = q[(1 + j) - 1]
        BY <2>1, Slice
    <2> DEFINE one == SubSeq(q, 1, 1)
    <2> HIDE DEF one
    <2>3. one \in Seq(Frames) /\ Len(one) = 1 /\ one[1] = Head(q)
        BY <1>1, <2>2 DEF one
    <2>4. <<Head(q)>> \in Seq(Frames) /\ Len(<<Head(q)>>) = 1 /\ <<Head(q)>>[1] = Head(q)
        BY <1>1
    <2>5. \A j \in 1 .. Len(one) : one[j] = <<Head(q)>>[j]
        BY <2>3, <2>4
    <2>6. one = <<Head(q)>>
        BY <2>3, <2>4, <2>5, SeqEqual
    <2> QED BY <2>6 DEF one
<1>5. UrgentIn(<<Head(q)>>) = IF Urgent(Head(q)) THEN 1 ELSE 0
    BY <1>1, UrgentOfOne
<1>6. SubSeq(q, 1 + 1, Len(q)) = Tail(q)
    BY <1>1
<1> QED BY <1>1, <1>3, <1>4, <1>5, <1>6

\* Without a frame that is not urgent nothing urgent is missing.
LEMMA RemoveLow ==
    ASSUME NEW q \in Seq(Frames), NEW i \in Low(q)
    PROVE  /\ RemoveAt(q, i) \in Seq(Frames)
           /\ Len(RemoveAt(q, i)) = Len(q) - 1
           /\ UrgentIn(RemoveAt(q, i)) = UrgentIn(q)
<1> DEFINE left == SubSeq(q, 1, i - 1)
           right == SubSeq(q, i + 1, Len(q))
           tail == SubSeq(q, i, Len(q))
<1>1. Len(q) \in Nat /\ DOMAIN q = 1 .. Len(q)
    BY LenProperties
<1>2. i \in 1 .. Len(q) /\ ~Urgent(q[i])
    BY <1>1 DEF Low
<1>3. left \in Seq(Frames) /\ Len(left) = i - 1
    <2>1. 1 \in 1 .. Len(q) + 1 /\ i - 1 \in 1 - 1 .. Len(q)
        BY <1>1, <1>2
    <2>2. left \in Seq(Frames) /\ Len(left) = ((i - 1) - 1) + 1
        BY <2>1, Slice
    <2> HIDE DEF left
    <2> QED BY <1>2, <2>2
<1>4. right \in Seq(Frames) /\ Len(right) = Len(q) - i
    <2>1. i + 1 \in 1 .. Len(q) + 1 /\ Len(q) \in (i + 1) - 1 .. Len(q)
        BY <1>1, <1>2
    <2>2. right \in Seq(Frames) /\ Len(right) = (Len(q) - (i + 1)) + 1
        BY <2>1, Slice
    <2> HIDE DEF right
    <2> QED BY <1>1, <1>2, <2>2
<1>5. /\ tail \in Seq(Frames) /\ tail # << >>
      /\ Head(tail) = q[i] /\ Tail(tail) = right
    <2>1. /\ i \in 1 .. Len(q) /\ Len(q) \in i .. Len(q)
          /\ i \in 1 .. Len(q) + 1 /\ Len(q) \in i - 1 .. Len(q)
        BY <1>1, <1>2
    <2>2. tail \in Seq(Frames) /\ Len(tail) = (Len(q) - i) + 1
        BY <2>1, Slice
    <2>3. Head(tail) = q[i] /\ Tail(tail) = right
        BY <2>1, HeadTailOfSubSeq
    <2>4. Len(tail) # 0
        <3> HIDE DEF tail
        <3> QED BY <1>1, <1>2, <2>2
    <2> QED BY <2>2, <2>3, <2>4, EmptySeq
<1>6. UrgentIn(q) = UrgentIn(left) + UrgentIn(tail)
    <2>1. i - 1 \in 0 .. Len(q) /\ (i - 1) + 1 = i
        BY <1>1, <1>2
    <2>2. UrgentIn(q) = UrgentIn(left) + UrgentIn(SubSeq(q, (i - 1) + 1, Len(q)))
        BY <2>1, UrgentOfSplit
    <2> QED BY <2>1, <2>2
<1>7. RemoveAt(q, i) = left \o right
    BY DEF RemoveAt
<1> HIDE DEF left, right, tail
<1>8. UrgentIn(tail) = UrgentIn(right)
    <2>1. UrgentIn(tail) = (IF Urgent(Head(tail)) THEN 1 ELSE 0)
                             + UrgentIn(Tail(tail))
        BY <1>5, UrgentOfHead
    <2>2. UrgentIn(right) \in Nat
        BY <1>4, UrgentInIsNat
    <2>3. ~Urgent(Head(tail)) /\ UrgentIn(Tail(tail)) = UrgentIn(right)
        BY <1>2, <1>5
    <2> QED BY <2>1, <2>2, <2>3
<1>9. /\ left \o right \in Seq(Frames)
      /\ Len(left \o right) = Len(left) + Len(right)
    BY <1>3, <1>4, ConcatProperties
<1>10. UrgentIn(left \o right) = UrgentIn(left) + UrgentIn(right)
    BY <1>3, <1>4, UrgentOfConcat
<1>11. Len(left) + Len(right) = Len(q) - 1
    BY <1>1, <1>2, <1>3, <1>4
<1> QED BY <1>6, <1>7, <1>8, <1>9, <1>10, <1>11

\* drop_one_low makes room for one frame, if there is one to drop, and drops
\* nothing urgent.
LEMMA DropOneLowKeepsUrgent ==
    ASSUME NEW q \in Seq(Frames)
    PROVE  /\ DropOneLow(q) \in Seq(Frames)
           /\ UrgentIn(DropOneLow(q)) = UrgentIn(q)
           /\ Low(q) = {} => DropOneLow(q) = q
           /\ Low(q) # {} => Len(DropOneLow(q)) = Len(q) - 1
<1>1. CASE Low(q) = {}
    BY <1>1 DEF DropOneLow
<1>2. CASE Low(q) # {}
    <2> DEFINE first == CHOOSE i \in Low(q) : \A j \in Low(q) : i <= j
    <2>1. DOMAIN q = 1 .. Len(q) /\ Len(q) \in Nat
        BY LenProperties
    <2>2. Low(q) \in SUBSET Nat
        BY <2>1 DEF Low
    <2>3. \E i \in Low(q) : \A j \in Low(q) : i <= j
        BY <1>2, <2>2, Least
    <2>4. first \in Low(q)
        BY <2>3
    <2>5. DropOneLow(q) = RemoveAt(q, first)
        BY <1>2 DEF DropOneLow
    <2> HIDE DEF first
    <2> QED BY <1>2, <2>4, <2>5, RemoveLow
<1> QED BY <1>1, <1>2

\* A published frame is in the queue afterwards, or it is not urgent.
LEMMA EnqueueKeepsUrgent ==
    ASSUME NEW q \in Seq(Frames), NEW f \in Frames, Bounded(q)
    PROVE  /\ Enqueue(q, f) \in Seq(Frames)
           /\ Bounded(Enqueue(q, f))
           /\ UrgentIn(Enqueue(q, f))
                = UrgentIn(q) + (IF Urgent(f) THEN 1 ELSE 0)
<1>0. Len(q) \in Nat /\ MaxQueue \in Nat /\ <<f>> \in Seq(Frames) /\ Len(<<f>>) = 1
    BY LenProperties, ObservationAssumption DEF ObservationAssumption
<1>00. UrgentIn(q) \in Nat /\ UrgentIn(<<f>>) = IF Urgent(f) THEN 1 ELSE 0
    BY UrgentInIsNat, UrgentOfOne
<1>1. CASE Len(q) < MaxQueue
    <2>1. Enqueue(q, f) = Append(q, f)
        BY <1>1 DEF Enqueue
    <2>2. Append(q, f) = q \o <<f>> /\ Append(q, f) \in Seq(Frames)
          /\ Len(Append(q, f)) = Len(q) + 1
        BY AppendIsConcat, AppendProperties
    <2>3. UrgentIn(q \o <<f>>) = UrgentIn(q) + UrgentIn(<<f>>)
        BY <1>0, UrgentOfConcat
    <2>4. Bounded(Append(q, f))
        BY <1>0, <1>1, <2>2 DEF Bounded
    <2> QED BY <1>00, <2>1, <2>2, <2>3, <2>4
<1>2. CASE ~(Len(q) < MaxQueue) /\ Urgent(f)
    <2> DEFINE rest == DropOneLow(q)
    <2>1. Enqueue(q, f) = <<f>> \o rest
        BY <1>2 DEF Enqueue
    <2>2. /\ rest \in Seq(Frames) /\ UrgentIn(rest) = UrgentIn(q)
          /\ Low(q) = {} => rest = q
          /\ Low(q) # {} => Len(rest) = Len(q) - 1
        BY DropOneLowKeepsUrgent
    <2> HIDE DEF rest
    <2>3. UrgentIn(<<f>> \o rest) = UrgentIn(<<f>>) + UrgentIn(rest)
        BY <1>0, <2>2, UrgentOfConcat
    <2>4. /\ <<f>> \o rest \in Seq(Frames) /\ Len(<<f>> \o rest) = 1 + Len(rest)
          /\ \A i \in 1 .. 1 + Len(rest) :
                (<<f>> \o rest)[i] = IF i <= 1 THEN <<f>>[i] ELSE rest[i - 1]
        BY <1>0, <2>2, ConcatProperties
    <2>5. Bounded(<<f>> \o rest)
        <3>1. CASE Low(q) # {}
            BY <1>0, <2>2, <2>4, <3>1 DEF Bounded
        <3>2. CASE Low(q) = {}
            <4>1. rest = q /\ DOMAIN q = 1 .. Len(q)
                  /\ DOMAIN (<<f>> \o rest) = 1 .. 1 + Len(q)
                BY <2>2, <2>4, <3>2, LenProperties
            <4>2. ASSUME NEW i \in 1 .. 1 + Len(q) PROVE Urgent((<<f>> \o rest)[i])
                <5>1. CASE i = 1
                    BY <1>0, <1>2, <2>4, <4>1, <5>1
                <5>2. CASE i # 1
                    <6>1. i - 1 \in DOMAIN q /\ (<<f>> \o rest)[i] = q[i - 1]
                        BY <1>0, <2>4, <4>1, <5>2
                    <6> QED BY <3>2, <6>1 DEF Low
                <5> QED BY <5>1, <5>2
            <4> QED BY <4>1, <4>2 DEF Bounded, Low
        <3> QED BY <3>1, <3>2
    <2> QED BY <1>00, <1>2, <2>1, <2>2, <2>3, <2>4, <2>5
<1>3. CASE ~(Len(q) < MaxQueue) /\ ~Urgent(f)
    BY <1>3, <1>00 DEF Enqueue
<1> QED BY <1>1, <1>2, <1>3

\* What dispatch takes from the queue it puts into the consumer's hand.
LEMMA DispatchMoves ==
    ASSUME NEW q \in Seq(Frames), NEW d \in 0 .. MaxDemand, Bounded(q),
           hand \in Seq(Frames), Dispatch(q, d)
    PROVE  /\ queue' \in Seq(Frames) /\ hand' \in Seq(Frames)
           /\ demand' \in 0 .. MaxDemand
           /\ Bounded(queue')
           /\ UrgentIn(queue') + UrgentIn(hand') = UrgentIn(q) + UrgentIn(hand)
<1> DEFINE take == IF d < Len(q) THEN d ELSE Len(q)
           front == SubSeq(q, 1, take)
           back == SubSeq(q, take + 1, Len(q))
<1>1. Len(q) \in Nat /\ DOMAIN q = 1 .. Len(q)
    BY LenProperties
<1>2. take \in 0 .. Len(q) /\ d - take \in 0 .. MaxDemand
    BY <1>1, ObservationAssumption DEF ObservationAssumption
<1>3. hand' = hand \o front /\ queue' = back /\ demand' = d - take
    BY DEF Dispatch
<1> HIDE DEF take
<1>4. front \in Seq(Frames)
    <2>1. 1 \in 1 .. Len(q) + 1 /\ take \in 1 - 1 .. Len(q)
        BY <1>1, <1>2
    <2> QED BY <2>1, Slice
<1>5. /\ back \in Seq(Frames) /\ Len(back) = Len(q) - take
      /\ \A j \in 1 .. Len(q) - take : back[j] = q[take + j]
    <2>1. take + 1 \in 1 .. Len(q) + 1 /\ Len(q) \in (take + 1) - 1 .. Len(q)
        BY <1>1, <1>2
    <2>2. /\ back \in Seq(Frames) /\ Len(back) = (Len(q) - (take + 1)) + 1
          /\ \A j \in 1 .. (Len(q) - (take + 1)) + 1 :
                back[j] = q[((take + 1) + j) - 1]
        BY <2>1, Slice
    <2> HIDE DEF back
    <2>3. (Len(q) - (take + 1)) + 1 = Len(q) - take
        BY <1>1, <1>2
    <2>4. ASSUME NEW j \in 1 .. Len(q) - take PROVE back[j] = q[take + j]
        <3>1. ((take + 1) + j) - 1 = take + j
            BY <1>1, <1>2
        <3> QED BY <2>2, <2>3, <3>1
    <2> QED BY <2>2, <2>3, <2>4
<1>6. UrgentIn(q) = UrgentIn(front) + UrgentIn(back)
    BY <1>2, UrgentOfSplit
<1> HIDE DEF front, back
<1>7. Bounded(back)
    <2> SUFFICES ASSUME Len(back) > MaxQueue PROVE Low(back) = {}
        BY DEF Bounded
    <2>1. Len(q) > MaxQueue
        BY <1>1, <1>2, <1>5, ObservationAssumption DEF ObservationAssumption
    <2>2. Low(q) = {}
        BY <2>1 DEF Bounded
    <2>3. DOMAIN back = 1 .. Len(q) - take
        BY <1>5, LenProperties
    <2>4. ASSUME NEW j \in 1 .. Len(q) - take PROVE Urgent(back[j])
        <3>1. take + j \in 1 .. Len(q)
            BY <1>1, <1>2
        <3>2. Urgent(q[take + j])
            BY <1>1, <2>2, <3>1 DEF Low
        <3> QED BY <1>5, <3>2
    <2> QED BY <2>3, <2>4 DEF Low
<1>8. hand \o front \in Seq(Frames)
    BY <1>4, ConcatProperties
<1>9. UrgentIn(hand \o front) = UrgentIn(hand) + UrgentIn(front)
    BY <1>4, UrgentOfConcat
<1>10. UrgentIn(hand) \in Nat /\ UrgentIn(front) \in Nat /\ UrgentIn(back) \in Nat
    BY <1>4, <1>5, UrgentInIsNat
<1> QED BY <1>2, <1>3, <1>5, <1>6, <1>7, <1>8, <1>9, <1>10

-----------------------------------------------------------------------------
(* The inductive invariant: every variable has its type, the queue is      *)
(* bounded, and what is owed is at least what the queue and the hand still *)
(* hold, and exactly that while no consumer has died.                      *)

States == {"running", "yielding", "preempting", "repairing", "rebased",
           "restarting", "contained"}
Signals == {"none", "contain", "preempt", "yield", "continue"}

Typed ==
    /\ queue \in Seq(Frames) /\ hand \in Seq(Frames)
    /\ demand \in 0 .. MaxDemand
    /\ published \in Nat /\ crashes \in Nat

EpochsTyped ==
    /\ home \in [epoch : Nat, version : Nat, regime : Regimes, stable : 0 .. 3]
    /\ durable \in [epoch : Nat, version : Nat]
    /\ controller \in [state : States, epoch : Nat, repairs : Nat]
    /\ home.epoch <= durable.epoch /\ controller.epoch <= durable.epoch
    /\ reply \in [signal : Signals, epoch : Nat]

Accounted ==
    /\ owed \in Nat /\ owed <= published
    /\ owed >= UrgentIn(queue) + UrgentIn(hand)
    /\ crashes = 0 => owed = UrgentIn(queue) + UrgentIn(hand)

IInv == Typed /\ EpochsTyped /\ Bounded(queue) /\ Accounted

\* The invariant states the properties.
LEMMA IInvImplies ==
    IInv => ObservationTypeOK /\ HardFramesNeverDropped /\ QueueIsBounded
BY DEF IInv, Typed, EpochsTyped, Accounted, Bounded, ObservationTypeOK,
       HardFramesNeverDropped, QueueIsBounded, States, Signals,
       StableFramesRequired

\* The invariant holds when the episode starts.
LEMMA InitIInv == Init => IInv
<1> SUFFICES ASSUME Init PROVE IInv
    OBVIOUS
<1>1. MaxQueue \in Nat /\ MaxDemand \in Nat
    BY ObservationAssumption DEF ObservationAssumption
<1>2. Typed
    BY <1>1, EmptySeq DEF Init, Typed
<1>3. EpochsTyped
    BY DEF Init, EpochsTyped, NoReply, Regimes, States, Signals
<1>4. Bounded(queue)
    BY EmptySeq DEF Init, Bounded, Low
<1>5. Accounted
    BY UrgentOfNone DEF Init, Accounted
<1> QED BY <1>2, <1>3, <1>4, <1>5 DEF IInv

\* A step that moves no frame keeps the account.
LEMMA FramesAside ==
    ASSUME IInv, UNCHANGED <<queue, demand, hand, published, crashes, owed>>
    PROVE  Typed' /\ Bounded(queue)' /\ Accounted'
BY DEF IInv, Typed, Accounted, Bounded, Low

\* A step that touches no epoch, trajectory or controller keeps their types.
LEMMA EpochsAside ==
    ASSUME IInv, UNCHANGED <<home, durable, controller, reply>>
    PROVE  EpochsTyped'
BY DEF IInv, EpochsTyped

\* A published frame is entered in the account and the queue alike.
LEMMA PublishKeepsIInv ==
    ASSUME IInv, NEW shape \in Shapes, NEW late \in {0, 1},
           late < durable.epoch, Publish(shape, durable.epoch - late)
    PROVE  IInv'
<1> DEFINE f == [hard |-> shape.hard, critical |-> shape.critical,
                 candidate |-> shape.candidate, epoch |-> durable.epoch - late]
           q == Enqueue(queue, f)
<1>1. f \in Frames
    BY ObservationAssumption DEF ObservationAssumption, Frames, Candidates,
       IInv, EpochsTyped
<1>2. /\ published' = published + 1
      /\ owed' = IF Urgent(f) THEN owed + 1 ELSE owed
      /\ Dispatch(q, demand)
      /\ UNCHANGED <<home, durable, controller, reply, crashes>>
    BY DEF Publish, homeostat, control
<1> HIDE DEF f
<1>3. /\ q \in Seq(Frames) /\ Bounded(q)
      /\ UrgentIn(q) = UrgentIn(queue) + (IF Urgent(f) THEN 1 ELSE 0)
    BY <1>1, EnqueueKeepsUrgent DEF IInv, Typed
<1> HIDE DEF q
<1>4. /\ queue' \in Seq(Frames) /\ hand' \in Seq(Frames)
      /\ demand' \in 0 .. MaxDemand /\ Bounded(queue')
      /\ UrgentIn(queue') + UrgentIn(hand') = UrgentIn(q) + UrgentIn(hand)
    BY <1>2, <1>3, DispatchMoves DEF IInv, Typed
<1>5. UrgentIn(queue) \in Nat /\ UrgentIn(hand) \in Nat
    BY UrgentInIsNat DEF IInv, Typed
<1>6. Typed'
    BY <1>2, <1>4 DEF IInv, Typed
<1>7. Accounted'
    <2>1. CASE Urgent(f)
        <3>1. owed' = owed + 1 /\ published' = published + 1
              /\ crashes' = crashes
              /\ UrgentIn(queue') + UrgentIn(hand')
                   = (UrgentIn(queue) + 1) + UrgentIn(hand)
            BY <1>2, <1>3, <1>4, <2>1
        <3>2. /\ owed \in Nat /\ published \in Nat /\ owed <= published
              /\ owed >= UrgentIn(queue) + UrgentIn(hand)
              /\ crashes = 0 => owed = UrgentIn(queue) + UrgentIn(hand)
            BY DEF IInv, Typed, Accounted
        <3> QED BY <1>5, <3>1, <3>2 DEF Accounted
    <2>2. CASE ~Urgent(f)
        BY <1>2, <1>3, <1>4, <1>5, <2>2 DEF IInv, Typed, Accounted
    <2> QED BY <2>1, <2>2
<1>8. EpochsTyped'
    BY <1>2, EpochsAside
<1> QED BY <1>4, <1>6, <1>7, <1>8 DEF IInv, Bounded

\* Demand moves frames from the queue to the hand.
LEMMA HandleDemandKeepsIInv ==
    ASSUME IInv, HandleDemand
    PROVE  IInv'
<1>1. MaxDemand \in 0 .. MaxDemand
    BY ObservationAssumption DEF ObservationAssumption
<1>2. /\ Dispatch(queue, MaxDemand)
      /\ UNCHANGED <<home, durable, controller, reply, published, crashes,
                     owed>>
    BY DEF HandleDemand, homeostat, control
<1>3. /\ queue' \in Seq(Frames) /\ hand' \in Seq(Frames)
      /\ demand' \in 0 .. MaxDemand /\ Bounded(queue')
      /\ UrgentIn(queue') + UrgentIn(hand') = UrgentIn(queue) + UrgentIn(hand)
    BY <1>1, <1>2, DispatchMoves DEF IInv, Typed
<1>4. Typed' /\ Accounted'
    BY <1>2, <1>3 DEF IInv, Typed, Accounted
<1>5. EpochsTyped'
    BY <1>2, EpochsAside
<1> QED BY <1>3, <1>4, <1>5 DEF IInv, Bounded

\* What the Homeostat makes of a frame is a judgement again.
LEMMA IngestType ==
    ASSUME NEW h \in [epoch : Nat, version : Nat, regime : Regimes,
                      stable : 0 .. 3],
           NEW f \in Frames
    PROVE  /\ Ingest(h, f) \in [epoch : Nat, version : Nat, regime : Regimes,
                                stable : 0 .. 3]
           /\ Ingest(h, f).epoch = h.epoch
<1> DEFINE Trajectories == [epoch : Nat, version : Nat, regime : Regimes,
                            stable : 0 .. 3]
           seen == [h EXCEPT !.version = @ + 1]
           judged == Regime(seen, f.candidate)
<1>1. seen \in Trajectories /\ seen.epoch = h.epoch
    OBVIOUS
<1>2. f.candidate \in Candidates
    BY DEF Frames
<1> HIDE DEF seen
<1>3. judged \in [regime : Regimes, stable : 0 .. 3]
    <2>1. CASE seen.regime = "containment"
        BY <1>1, <2>1 DEF Regime, Regimes
    <2>2. CASE seen.regime # "containment" /\ f.candidate # "stable"
        BY <1>1, <1>2, <2>2 DEF Regime, Regimes, Candidates
    <2>3. CASE seen.regime # "containment" /\ f.candidate = "stable"
        <3>1. seen.stable \in 0 .. 3
            BY <1>1
        <3>2. CASE /\ seen.regime \in {"drifting", "unstable"}
                   /\ seen.stable + 1 < 3
            BY <1>1, <2>3, <3>1, <3>2
            DEF Regime, Regimes, StableFramesRequired
        <3>3. CASE ~(/\ seen.regime \in {"drifting", "unstable"}
                     /\ seen.stable + 1 < 3)
            BY <1>1, <2>3, <3>1, <3>3
            DEF Regime, Regimes, StableFramesRequired
        <3> QED BY <3>2, <3>3
    <2> QED BY <2>1, <2>2, <2>3
<1> HIDE DEF judged
<1>4. /\ Contained(h) \in Trajectories /\ Contained(h).epoch = h.epoch
      /\ Contained(seen) \in Trajectories /\ Contained(seen).epoch = h.epoch
    BY <1>1 DEF Contained, Regimes
<1>5. LET rated == [seen EXCEPT !.regime = judged.regime,
                                !.stable = judged.stable]
      IN rated \in Trajectories /\ rated.epoch = h.epoch
    BY <1>1, <1>3
<1> QED BY <1>4, <1>5 DEF Ingest, seen, judged

\* An observed frame leaves the hand and the account.
LEMMA ObserveKeepsIInv ==
    ASSUME IInv, Observe
    PROVE  IInv'
<1> DEFINE f == Head(hand)
<1>1. /\ hand # << >> /\ hand' = Tail(hand)
      /\ home' = Ingest(home, f)
      /\ reply' = [signal |-> Signal(home', f), epoch |-> f.epoch]
      /\ owed' = IF Urgent(f) THEN owed - 1 ELSE owed
      /\ UNCHANGED <<queue, demand, durable, controller, published, crashes>>
    BY DEF Observe, array, control
<1>2. /\ f \in Frames /\ Tail(hand) \in Seq(Frames)
    BY <1>1, HeadTailProperties DEF IInv, Typed
<1>3. UrgentIn(hand) = (IF Urgent(f) THEN 1 ELSE 0) + UrgentIn(Tail(hand))
    BY <1>1, UrgentOfHead DEF IInv, Typed
<1>4. UrgentIn(queue) \in Nat /\ UrgentIn(Tail(hand)) \in Nat
    BY <1>2, UrgentInIsNat DEF IInv, Typed
<1> HIDE DEF f
<1>5. Typed'
    BY <1>1, <1>2 DEF IInv, Typed
<1>6. Accounted'
    <2>1. CASE Urgent(f)
        <3>1. owed' = owed - 1 /\ published' = published /\ crashes' = crashes
              /\ UrgentIn(queue') = UrgentIn(queue)
              /\ UrgentIn(hand') + 1 = UrgentIn(hand)
            BY <1>1, <1>3, <1>4, <2>1
        <3>2. /\ owed \in Nat /\ published \in Nat /\ owed <= published
              /\ owed >= UrgentIn(queue) + UrgentIn(hand)
              /\ crashes = 0 => owed = UrgentIn(queue) + UrgentIn(hand)
            BY DEF IInv, Typed, Accounted
        <3>3. UrgentIn(hand') \in Nat
            BY <1>1, <1>4
        <3> QED BY <1>4, <3>1, <3>2, <3>3 DEF Accounted
    <2>2. CASE ~Urgent(f)
        BY <1>1, <1>3, <1>4, <2>2 DEF IInv, Typed, Accounted
    <2> QED BY <2>1, <2>2
<1>7. Bounded(queue)'
    BY <1>1 DEF IInv, Bounded, Low
<1>8. EpochsTyped'
    <2>1. /\ home' \in [epoch : Nat, version : Nat, regime : Regimes,
                        stable : 0 .. 3]
          /\ home'.epoch = home.epoch
        BY <1>1, <1>2, IngestType DEF IInv, EpochsTyped
    <2>2. Signal(home', f) \in Signals
        BY DEF Signal, Signals
    <2>3. f.epoch \in Nat
        BY <1>2 DEF Frames
    <2>4. reply' \in [signal : Signals, epoch : Nat]
        BY <1>1, <2>2, <2>3
    <2> QED BY <1>1, <2>1, <2>4 DEF IInv, EpochsTyped
<1> QED BY <1>5, <1>6, <1>7, <1>8 DEF IInv

\* The store takes the trajectory of its own epoch or none.
LEMMA PersistAndNotifyKeepsIInv ==
    ASSUME IInv, PersistAndNotify
    PROVE  IInv'
<1>1. /\ durable' = UpdateTrajectory(home) \/ durable' = durable
      /\ reply' = NoReply
      /\ UNCHANGED <<queue, demand, hand, home, controller, published, crashes,
                     owed>>
    BY DEF PersistAndNotify, array
<1>2. /\ durable' \in [epoch : Nat, version : Nat]
      /\ durable'.epoch = durable.epoch
    BY <1>1 DEF IInv, EpochsTyped, UpdateTrajectory
<1>3. reply' \in [signal : Signals, epoch : Nat]
    BY <1>1 DEF NoReply, Signals
<1>4. EpochsTyped'
    BY <1>1, <1>2, <1>3 DEF IInv, EpochsTyped
<1> QED BY <1>1, <1>4, FramesAside DEF IInv

\* A recorded repair is a version more.
LEMMA RepairRecordedKeepsIInv ==
    ASSUME IInv, RepairRecorded
    PROVE  IInv'
<1>1. /\ home' = [home EXCEPT !.version = @ + 1]
      /\ UNCHANGED <<queue, demand, hand, reply, durable, controller,
                     published, crashes, owed>>
    BY DEF RepairRecorded, array, control
<1>2. EpochsTyped'
    BY <1>1 DEF IInv, EpochsTyped
<1> QED BY <1>1, <1>2, FramesAside DEF IInv

-----------------------------------------------------------------------------
(* The controller, the effect and the crash.                               *)

\* A signal moves the controller to one of its states.
LEMMA TakeSignalKeepsIInv ==
    ASSUME IInv, TakeSignal
    PROVE  IInv'
<1>1. /\ controller' = [controller EXCEPT !.state = Answers(@, Head(inbox))]
      /\ UNCHANGED <<queue, demand, hand, home, reply, durable, published,
                     crashes, owed>>
    BY DEF TakeSignal, array, homeostat
<1>2. controller.state \in States
    BY DEF IInv, EpochsTyped
<1>3. Answers(controller.state, Head(inbox)) \in States
    BY <1>2 DEF Answers, States
<1>4. EpochsTyped'
    BY <1>1, <1>3 DEF IInv, EpochsTyped
<1> QED BY <1>1, <1>4, FramesAside DEF IInv

\* An operator resumes the episode.
LEMMA ResumeKeepsIInv ==
    ASSUME IInv, Resume
    PROVE  IInv'
<1>1. /\ controller' = [controller EXCEPT !.state = "running"]
      /\ UNCHANGED <<queue, demand, hand, home, reply, durable, published,
                     crashes, owed>>
    BY DEF Resume, array, homeostat
<1>2. EpochsTyped'
    BY <1>1 DEF IInv, EpochsTyped, States
<1> QED BY <1>1, <1>2, FramesAside DEF IInv

\* The controller takes the epoch it has advanced the row to.
LEMMA AdvanceEpochKeepsIInv ==
    ASSUME IInv, AdvanceEpoch
    PROVE  IInv'
<1>1. /\ durable' = [durable EXCEPT !.epoch = @ + 1]
      /\ controller' = [controller EXCEPT !.state = "repairing",
                                          !.epoch = durable.epoch + 1]
      /\ UNCHANGED <<queue, demand, hand, home, reply, published, crashes,
                     owed>>
    BY DEF AdvanceEpoch, array, homeostat
<1>2. durable.epoch + 1 \in Nat /\ "repairing" \in States
    BY DEF IInv, EpochsTyped, States
<1>3. /\ controller' \in [state : States, epoch : Nat, repairs : Nat]
      /\ controller'.epoch = durable.epoch + 1
    BY <1>1, <1>2 DEF IInv, EpochsTyped
<1>4. /\ durable' \in [epoch : Nat, version : Nat]
      /\ durable'.epoch = durable.epoch + 1
    BY <1>1, <1>2 DEF IInv, EpochsTyped
<1>5. EpochsTyped'
    BY <1>1, <1>3, <1>4 DEF IInv, EpochsTyped
<1> QED BY <1>1, <1>5, FramesAside DEF IInv

\* Containment never takes the row back.
LEMMA ContainKeepsIInv ==
    ASSUME IInv, Contain
    PROVE  IInv'
<1>1. /\ durable' \in {durable, [durable EXCEPT !.epoch = @ + 1]}
      /\ controller' = [controller EXCEPT !.state = "contained"]
      /\ UNCHANGED <<queue, demand, hand, home, reply, published, crashes,
                     owed>>
    BY DEF Contain, array, homeostat
<1>2. EpochsTyped'
    BY <1>1 DEF IInv, EpochsTyped, States
<1> QED BY <1>1, <1>2, FramesAside DEF IInv

\* The Homeostat is rebased to the controller's epoch, never past the row's.
LEMMA RebaseEpochKeepsIInv ==
    ASSUME IInv, RebaseEpoch
    PROVE  IInv'
<1>1. /\ UNCHANGED <<queue, demand, hand, reply, durable, published, crashes,
                     owed>>
      /\ \/ /\ home' = [epoch |-> controller.epoch, version |-> 0,
                        regime |-> "stable", stable |-> 0]
            /\ controller' = [controller EXCEPT !.state = "rebased"]
         \/ /\ controller' = [controller EXCEPT !.state = "contained"]
            /\ home' = home
    BY DEF RebaseEpoch, array
<1>2. EpochsTyped'
    BY <1>1 DEF IInv, EpochsTyped, States, Regimes
<1> QED BY <1>1, <1>2, FramesAside DEF IInv

\* A finished repair is counted.
LEMMA FinishRepairKeepsIInv ==
    ASSUME IInv, FinishRepair
    PROVE  IInv'
<1>1. /\ controller' = [controller EXCEPT !.state = "running",
                                          !.repairs = @ + 1]
      /\ UNCHANGED <<queue, demand, hand, home, reply, durable, published,
                     crashes, owed>>
    BY DEF FinishRepair, array
<1>2. controller.repairs + 1 \in Nat /\ "running" \in States
    BY DEF IInv, EpochsTyped, States
<1>3. /\ controller' \in [state : States, epoch : Nat, repairs : Nat]
      /\ controller'.epoch = controller.epoch
    BY <1>1, <1>2 DEF IInv, EpochsTyped
<1>4. EpochsTyped'
    BY <1>1, <1>3 DEF IInv, EpochsTyped
<1> QED BY <1>1, <1>4, FramesAside DEF IInv

\* The consumer takes its batch with it; what was owed stays owed.
LEMMA ConsumerDiesKeepsIInv ==
    ASSUME IInv, ConsumerDies
    PROVE  IInv'
<1>1. /\ crashes' = crashes + 1 /\ hand' = << >>
      /\ controller' = [state |-> "restarting", epoch |-> durable.epoch,
                        repairs |-> 0]
      /\ UNCHANGED <<queue, demand, home, reply, durable, published, owed>>
    BY DEF ConsumerDies, array, homeostat
<1>2. UrgentIn(hand) \in Nat /\ UrgentIn(queue) \in Nat
    BY UrgentInIsNat DEF IInv, Typed
<1>3. Typed'
    BY <1>1, EmptySeq DEF IInv, Typed
<1>4. UrgentIn(hand') = 0 /\ UrgentIn(queue') = UrgentIn(queue)
    BY <1>1, UrgentOfNone
<1>5. Accounted'
    BY <1>1, <1>2, <1>4 DEF IInv, Typed, Accounted
<1>6. Bounded(queue)'
    BY <1>1 DEF IInv, Bounded, Low
<1>7. EpochsTyped'
    BY <1>1 DEF IInv, EpochsTyped, States
<1> QED BY <1>3, <1>5, <1>6, <1>7 DEF IInv

\* Effects read the row only.
LEMMA EffectKeepsIInv ==
    ASSUME IInv, Prepare \/ BeginCommit
    PROVE  IInv'
<1>1. UNCHANGED <<queue, demand, hand, home, reply, durable, controller,
                  published, crashes, owed>>
    BY DEF Prepare, BeginCommit, array, homeostat, control
<1> QED BY <1>1, FramesAside, EpochsAside DEF IInv

\* Every step keeps the invariant.
LEMMA NextIInv == IInv /\ [Next]_vars => IInv'
<1> SUFFICES ASSUME IInv, [Next]_vars PROVE IInv'
    OBVIOUS
<1>1. CASE Pipeline
    BY <1>1, HandleDemandKeepsIInv, ObserveKeepsIInv,
       PersistAndNotifyKeepsIInv, RepairRecordedKeepsIInv DEF Pipeline
<1>2. CASE Controller
    BY <1>2, TakeSignalKeepsIInv, AdvanceEpochKeepsIInv, ContainKeepsIInv,
       RebaseEpochKeepsIInv, FinishRepairKeepsIInv DEF Controller
<1>3. CASE \E s \in Shapes : \E late \in {0, 1} :
              late < durable.epoch /\ Publish(s, durable.epoch - late)
    BY <1>3, PublishKeepsIInv
<1>4. CASE Resume
    BY <1>4, ResumeKeepsIInv
<1>5. CASE ConsumerDies
    BY <1>5, ConsumerDiesKeepsIInv
<1>6. CASE Prepare \/ BeginCommit
    BY <1>6, EffectKeepsIInv
<1>7. CASE UNCHANGED vars
    <2>1. UNCHANGED <<queue, demand, hand, home, reply, durable, controller,
                      published, crashes, owed>>
        BY <1>7 DEF vars, array, homeostat, control
    <2> QED BY <2>1, FramesAside, EpochsAside DEF IInv
<1> QED BY <1>1, <1>2, <1>3, <1>4, <1>5, <1>6, <1>7 DEF Next

-----------------------------------------------------------------------------
\* The invariant holds of every reachable state.
LEMMA Invariance == Spec => []IInv
BY InitIInv, NextIInv, PTL DEF Spec

\* Every reachable state has the shape the module gives it: no epoch of the
\* Homeostat or of the controller runs ahead of the episode's row, and no more
\* frames are owed than were published.
THEOREM ObservationIsTyped == Spec => []ObservationTypeOK
<1>1. IInv => ObservationTypeOK
    BY IInvImplies
<1> QED BY <1>1, Invariance, PTL

\* While no consumer has died, every hard or critical frame a sensor published
\* is in the queue, in the consumer's hand or observed (sensor_array.ex).
THEOREM NoHardFrameIsDropped == Spec => []HardFramesNeverDropped
<1>1. IInv => HardFramesNeverDropped
    BY IInvImplies
<1> QED BY <1>1, Invariance, PTL

\* The queue grows past max_queue only when nothing can be dropped from it
\* (enqueue and drop_one_low of sensor_array.ex).
THEOREM QueueStaysBounded == Spec => []QueueIsBounded
<1>1. IInv => QueueIsBounded
    BY IInvImplies
<1> QED BY <1>1, Invariance, PTL

-----------------------------------------------------------------------------
(* What the histories say: the signals that wait, the frames in a row, and *)
(* what a pinned vector has missed.                                        *)

HistoryTyped ==
    /\ inbox \in Seq(Signals) /\ calm \in 0 .. 3
    /\ pin \in [epoch : Nat, version : Nat, missed : BOOLEAN]
    /\ home.epoch >= 1

Waits(signal) == \E i \in 1 .. Len(inbox) : inbox[i] = signal

\* Why a containment is answered: from the frame that contains until the
\* controller preempts, the signal is being persisted or waits in the mailbox,
\* also while a repair that has rebased the Homeostat ends.
Answered ==
    /\ controller.state = "yielding" => yielded
    /\ controller.state = "restarting" => crashes # 0
    /\ home.regime = "containment" /\ controller.state \in {"running", "rebased"}
         => reply.signal = "contain" \/ Waits("contain") \/ yielded \/ crashes # 0

\* Why a recovery is slow: the frames the Homeostat has counted were in a row.
Counted == home.regime \in {"drifting", "unstable"} => home.stable <= calm

\* Why a missed frame fences: in the first epoch the row is never ahead of the
\* Homeostat and behind it while a frame is persisted, and a vector that missed
\* a frame is behind the row.
Fenced ==
    durable.epoch = 1 =>
      /\ durable.version <= home.version
      /\ reply.epoch = 1 => durable.version < home.version
      /\ pin.epoch = 1 => pin.version <= durable.version
      /\ pin.epoch = 1 /\ pin.missed => pin.version < durable.version

HistoryInv == HistoryTyped /\ Answered /\ Counted /\ Fenced

\* The histories as they begin.
LEMMA InitHistory == Init => HistoryInv
BY EmptySeq
   DEF Init, HistoryInv, HistoryTyped, Answered, Counted, Fenced, NoPin, NoReply

\* A step of sensors, of demand or of none.
LEMMA HistoryAside ==
    ASSUME HistoryInv,
           UNCHANGED <<home, reply, durable, controller, inbox, yielded, pin,
                       crashes, calm>>
    PROVE  HistoryInv'
BY DEF HistoryInv, HistoryTyped, Answered, Counted, Fenced, Waits

\* A frame is observed: what contains is signalled, the count goes on only with
\* stable frames, and a frame of this epoch is a version more.
LEMMA IngestSays ==
    ASSUME home \in [epoch : Nat, version : Nat, regime : Regimes, stable : 0 .. 3],
           NEW f \in Frames
    PROVE  /\ Ingest(home, f).epoch = home.epoch
           /\ Ingest(home, f).version =
                IF f.epoch = home.epoch THEN home.version + 1 ELSE home.version
           /\ Ingest(home, f).regime = "containment" =>
                \/ home.regime = "containment"
                \/ f.epoch # home.epoch \/ HardViolation(f)
           /\ Ingest(home, f).regime # home.regime => home.regime # "containment"
           /\ Ingest(home, f).regime \in {"drifting", "unstable"} =>
                \/ f.candidate # "stable" /\ Ingest(home, f).stable = 0
                \/ /\ f.candidate = "stable" /\ home.regime = Ingest(home, f).regime
                   /\ Ingest(home, f).stable = home.stable + 1
                   /\ home.stable + 1 < 3
           /\ (Ingest(home, f).regime = "stable" /\ home.regime \in {"drifting", "unstable"})
                => f.candidate = "stable" /\ home.stable + 1 >= 3
<1> DEFINE seen == [home EXCEPT !.version = @ + 1]
           judged == Regime(seen, f.candidate)
<1>1. /\ seen.epoch = home.epoch /\ seen.version = home.version + 1
      /\ seen.regime = home.regime /\ seen.stable = home.stable
      /\ seen \in [epoch : Nat, version : Nat, regime : Regimes, stable : 0 .. 3]
    OBVIOUS
<1>2. f.candidate \in Candidates
    BY DEF Frames
<1>3. home.regime \in Regimes /\ home.stable \in 0 .. 3
    OBVIOUS
<1> HIDE DEF seen
<1>4. CASE f.epoch # home.epoch
    <2>1. Ingest(home, f) = Contained(home)
        BY <1>4 DEF Ingest
    <2>2. /\ Contained(home).epoch = home.epoch /\ Contained(home).version = home.version
          /\ Contained(home).regime = "containment"
        BY DEF Contained
    <2> QED BY <1>4, <2>1, <2>2
<1>5. CASE f.epoch = home.epoch /\ HardViolation(f)
    <2>1. Ingest(home, f) = Contained(seen)
        BY <1>5 DEF Ingest, seen
    <2>2. /\ Contained(seen).epoch = home.epoch /\ Contained(seen).version = home.version + 1
          /\ Contained(seen).regime = "containment"
        BY <1>1 DEF Contained
    <2> QED BY <1>5, <2>1, <2>2
<1>6. CASE f.epoch = home.epoch /\ ~HardViolation(f)
    <2> DEFINE rated == [seen EXCEPT !.regime = judged.regime, !.stable = judged.stable]
    <2>1. Ingest(home, f) = rated
        BY <1>6 DEF Ingest, seen
    <2>2. /\ rated.epoch = home.epoch /\ rated.version = home.version + 1
          /\ rated.regime = judged.regime /\ rated.stable = judged.stable
        BY <1>1
    <2> HIDE DEF rated
    <2>3. CASE home.regime = "containment"
        <3>1. judged.regime = "containment"
            BY <1>1, <2>3 DEF Regime
        <3> QED BY <1>6, <2>1, <2>2, <2>3, <3>1
    <2>4. CASE home.regime # "containment" /\ f.candidate # "stable"
        <3>1. judged.regime = f.candidate /\ judged.stable = 0
            BY <1>1, <1>3, <2>4 DEF Regime
        <3> QED BY <1>2, <1>6, <2>1, <2>2, <2>4, <3>1 DEF Candidates
    <2>5. CASE /\ home.regime \in {"drifting", "unstable"} /\ f.candidate = "stable"
               /\ home.stable + 1 < 3
        <3>1. judged.regime = home.regime /\ judged.stable = home.stable + 1
            BY <1>1, <1>3, <2>5 DEF Regime, StableFramesRequired
        <3> QED BY <1>6, <2>1, <2>2, <2>5, <3>1
    <2>6. CASE /\ home.regime # "containment" /\ f.candidate = "stable"
               /\ \/ home.regime \notin {"drifting", "unstable"}
                  \/ home.stable + 1 >= 3
        <3>1. judged.regime = "stable"
            BY <1>1, <1>3, <2>6 DEF Regime, StableFramesRequired
        <3> QED BY <1>6, <2>1, <2>2, <2>6, <3>1
    <2> QED BY <1>3, <2>3, <2>4, <2>5, <2>6
<1> QED BY <1>4, <1>5, <1>6

\* Observing a frame: the only step that judges.
LEMMA ObserveHistory ==
    ASSUME IInv, HistoryInv, Observe
    PROVE  /\ HistoryInv'
           /\ home'.regime # home.regime =>
                /\ home.regime # "containment"
                /\ home'.regime = "stable" /\ home.regime \in {"drifting", "unstable"}
                     => calm' = 3
<1> DEFINE f == Head(hand)
<1>1. /\ hand # << >> /\ reply = NoReply
      /\ home' = Ingest(home, f)
      /\ reply' = [signal |-> Signal(home', f), epoch |-> f.epoch]
      /\ calm' = IF f.candidate # "stable" THEN 0
                 ELSE IF calm < 3 THEN calm + 1 ELSE 3
      /\ UNCHANGED <<durable, controller, inbox, yielded, pin, crashes>>
    BY DEF Observe, control
<1>2. f \in Frames
    BY <1>1, HeadTailProperties DEF IInv, Typed
<1>3. /\ home \in [epoch : Nat, version : Nat, regime : Regimes, stable : 0 .. 3]
      /\ durable \in [epoch : Nat, version : Nat]
      /\ home.epoch <= durable.epoch
    BY DEF IInv, EpochsTyped
<1> HIDE DEF f
<1>4. /\ home'.epoch = home.epoch
      /\ home'.version = IF f.epoch = home.epoch THEN home.version + 1 ELSE home.version
      /\ home'.regime = "containment" =>
            home.regime = "containment" \/ f.epoch # home.epoch \/ HardViolation(f)
      /\ home'.regime # home.regime => home.regime # "containment"
      /\ home'.regime \in {"drifting", "unstable"} =>
            \/ f.candidate # "stable" /\ home'.stable = 0
            \/ /\ f.candidate = "stable" /\ home.regime = home'.regime
               /\ home'.stable = home.stable + 1
               /\ home.stable + 1 < 3
      /\ (home'.regime = "stable" /\ home.regime \in {"drifting", "unstable"})
            => f.candidate = "stable" /\ home.stable + 1 >= 3
    BY <1>1, <1>2, <1>3, IngestSays
<1>5. calm \in 0 .. 3 /\ home.stable \in 0 .. 3 /\ Counted
    BY <1>3 DEF HistoryInv, HistoryTyped
<1>6. HistoryTyped'
    BY <1>1, <1>4, <1>5 DEF HistoryInv, HistoryTyped
<1>7. Counted'
    <2>1. CASE f.candidate # "stable"
        BY <1>1, <1>4, <2>1 DEF Counted
    <2>2. CASE f.candidate = "stable"
        BY <1>1, <1>4, <1>5, <2>2 DEF Counted
    <2> QED BY <2>1, <2>2
<1>8. Answered'
    <2>1. /\ controller'.state = "yielding" => yielded'
          /\ controller'.state = "restarting" => crashes' # 0
        BY <1>1 DEF HistoryInv, Answered
    <2>2. ASSUME home'.regime = "containment", controller'.state \in {"running", "rebased"}
          PROVE  \/ reply'.signal = "contain" \/ Waits("contain")'
                 \/ yielded' \/ crashes' # 0
        <3>1. CASE home.regime = "containment"
            <4>1. reply.signal # "contain"
                BY <1>1 DEF NoReply
            <4>2. Waits("contain") \/ yielded \/ crashes # 0
                BY <1>1, <2>2, <3>1, <4>1 DEF HistoryInv, Answered
            <4> QED BY <1>1, <4>2 DEF Waits
        <3>2. CASE f.epoch # home.epoch \/ HardViolation(f)
            <4>1. Signal(home', f) = "contain"
                BY <3>2 DEF Signal
            <4> QED BY <1>1, <4>1
        <3> QED BY <1>4, <2>2, <3>1, <3>2
    <2> QED BY <2>1, <2>2 DEF Answered
<1>9. Fenced'
    <2>1. SUFFICES ASSUME durable'.epoch = 1 PROVE Fenced'
        BY DEF Fenced
    <2>2. home.epoch = 1 /\ durable.epoch = 1
        BY <1>1, <1>3, <2>1 DEF HistoryInv, HistoryTyped
    <2>3. /\ durable.version <= home.version
          /\ durable.version \in Nat /\ home.version \in Nat
          /\ pin.epoch = 1 => pin.version <= durable.version
          /\ pin.epoch = 1 /\ pin.missed => pin.version < durable.version
        BY <1>3, <2>2 DEF HistoryInv, Fenced
    <2>4. reply'.epoch = f.epoch
        BY <1>1
    <2> QED BY <1>1, <1>4, <2>2, <2>3, <2>4 DEF Fenced
<1>10. home'.regime = "stable" /\ home.regime \in {"drifting", "unstable"} => calm' = 3
    BY <1>1, <1>4, <1>5 DEF Counted
<1> QED BY <1>4, <1>6, <1>7, <1>8, <1>9, <1>10 DEF HistoryInv

\* The row follows the Homeostat, and the signal joins the mailbox.
LEMMA PersistHistory ==
    ASSUME IInv, HistoryInv, PersistAndNotify
    PROVE  HistoryInv'
<1>1. /\ UNCHANGED <<home, controller, yielded, crashes, calm>>
      /\ reply # NoReply /\ reply' = NoReply
      /\ \/ /\ durable' = UpdateTrajectory(home)
            /\ pin' = IF reply.epoch = home.epoch /\ home.epoch = pin.epoch
                        THEN [pin EXCEPT !.missed = TRUE] ELSE pin
         \/ durable' = durable /\ pin' = pin
      /\ inbox' = IF reply.signal = "continue" THEN inbox ELSE Append(inbox, reply.signal)
    BY DEF PersistAndNotify
<1>2. /\ home \in [epoch : Nat, version : Nat, regime : Regimes, stable : 0 .. 3]
      /\ durable \in [epoch : Nat, version : Nat]
      /\ home.epoch <= durable.epoch /\ reply \in [signal : Signals, epoch : Nat]
      /\ pin \in [epoch : Nat, version : Nat, missed : BOOLEAN]
      /\ inbox \in Seq(Signals) /\ home.epoch >= 1
    BY DEF IInv, EpochsTyped, HistoryInv, HistoryTyped
<1>3. /\ inbox' \in Seq(Signals)
      /\ Waits("contain") \/ reply.signal = "contain" => Waits("contain")'
    <2>1. CASE reply.signal = "continue"
        BY <1>1, <1>2, <2>1 DEF Waits
    <2>2. CASE reply.signal # "continue"
        <3>1. inbox' = Append(inbox, reply.signal) /\ reply.signal \in Signals
            BY <1>1, <1>2, <2>2
        <3>2. /\ inbox' \in Seq(Signals) /\ Len(inbox') = Len(inbox) + 1 /\ Len(inbox) \in Nat
              /\ \A i \in 1 .. Len(inbox) : inbox'[i] = inbox[i]
              /\ inbox'[Len(inbox) + 1] = reply.signal
            BY <1>2, <3>1, AppendProperties, LenProperties
        <3> QED BY <3>2 DEF Waits
    <2> QED BY <2>1, <2>2
<1>4. /\ pin' \in [epoch : Nat, version : Nat, missed : BOOLEAN]
      /\ pin'.epoch = pin.epoch /\ pin'.version = pin.version
      /\ (pin'.missed => pin.missed \/ (/\ durable' = UpdateTrajectory(home)
                                        /\ reply.epoch = home.epoch))
    BY <1>1, <1>2
<1>5. HistoryTyped'
    BY <1>1, <1>3, <1>4 DEF HistoryInv, HistoryTyped
<1>6. Counted'
    BY <1>1 DEF HistoryInv, Counted
<1>7. Answered'
    BY <1>1, <1>3 DEF HistoryInv, Answered
<1>8. durable'.epoch = durable.epoch
    BY <1>1, <1>2 DEF UpdateTrajectory
<1>9. Fenced'
    <2>1. SUFFICES ASSUME durable'.epoch = 1 PROVE Fenced'
        BY DEF Fenced
    <2>2. home.epoch = 1 /\ durable.epoch = 1
        BY <1>2, <1>8, <2>1
    <2>3. /\ durable.version <= home.version
          /\ durable.version \in Nat /\ home.version \in Nat /\ pin.version \in Nat
          /\ reply.epoch = 1 => durable.version < home.version
          /\ pin.epoch = 1 => pin.version <= durable.version
          /\ pin.epoch = 1 /\ pin.missed => pin.version < durable.version
        BY <1>2, <2>2 DEF HistoryInv, Fenced
    <2>4. reply'.epoch # 1
        BY <1>1 DEF NoReply
    <2>5. UpdateTrajectory(home).version = home.version
        BY <1>2, <2>2, <2>3 DEF UpdateTrajectory
    <2>6. durable'.version = home.version \/ (durable' = durable /\ pin' = pin)
        BY <1>1, <2>5
    <2>7. pin.epoch = 1 => pin'.version <= durable'.version
        BY <1>4, <2>3, <2>6
    <2>8. pin.epoch = 1 /\ pin'.missed => pin'.version < durable'.version
        BY <1>4, <2>2, <2>3, <2>5, <2>6
    <2>9. durable'.version <= home.version
        BY <2>3, <2>6
    <2> QED BY <1>1, <1>4, <2>4, <2>7, <2>8, <2>9 DEF Fenced
<1> QED BY <1>5, <1>6, <1>7, <1>9 DEF HistoryInv

\* A recorded repair is a version more.
LEMMA RepairRecordedHistory ==
    ASSUME IInv, HistoryInv, RepairRecorded
    PROVE  HistoryInv' /\ home'.regime = home.regime
<1>1. /\ home' = [home EXCEPT !.version = @ + 1]
      /\ UNCHANGED <<reply, durable, controller, inbox, yielded, pin, crashes, calm>>
    BY DEF RepairRecorded, control
<1>2. /\ home \in [epoch : Nat, version : Nat, regime : Regimes, stable : 0 .. 3]
      /\ durable \in [epoch : Nat, version : Nat]
    BY DEF IInv, EpochsTyped
<1>3. /\ home'.epoch = home.epoch /\ home'.version = home.version + 1
      /\ home'.regime = home.regime /\ home'.stable = home.stable
    BY <1>1, <1>2
<1>4. HistoryTyped' /\ Counted' /\ Answered'
    BY <1>1, <1>3 DEF HistoryInv, HistoryTyped, Counted, Answered, Waits
<1>5. Fenced'
    <2>1. home.version \in Nat /\ durable.version \in Nat
        BY <1>2
    <2> QED BY <1>1, <1>3, <2>1 DEF HistoryInv, Fenced
<1> QED BY <1>3, <1>4, <1>5 DEF HistoryInv

\* The row is advanced: the first epoch is over, and the controller does not run
\* the episode until the Homeostat has been rebased.
LEMMA LaterEpochHistory ==
    ASSUME IInv, HistoryInv, AdvanceEpoch \/ Contain
    PROVE  HistoryInv'
<1>1. /\ UNCHANGED <<home, reply, inbox, yielded, pin, crashes, calm>>
      /\ \/ durable' = [durable EXCEPT !.epoch = @ + 1]
         \/ durable' = durable
      /\ controller'.state \in {"repairing", "contained"}
    <2>1. controller \in [state : States, epoch : Nat, repairs : Nat]
          /\ durable \in [epoch : Nat, version : Nat]
        BY DEF IInv, EpochsTyped
    <2>2. CASE AdvanceEpoch
        BY <2>1, <2>2 DEF AdvanceEpoch, homeostat
    <2>3. CASE Contain
        <3>1. /\ UNCHANGED <<home, reply, inbox, yielded, pin, crashes, calm>>
              /\ durable' \in {durable, [durable EXCEPT !.epoch = @ + 1]}
              /\ controller' = [controller EXCEPT !.state = "contained"]
            BY <2>3 DEF Contain, homeostat
        <3> QED BY <2>1, <3>1
    <2> QED BY <2>2, <2>3
<1>2. HistoryTyped' /\ Counted' /\ Answered'
    BY <1>1 DEF HistoryInv, HistoryTyped, Counted, Answered
<1>3. CASE durable' = durable
    BY <1>1, <1>2, <1>3 DEF HistoryInv, Fenced
<1>4. CASE durable' = [durable EXCEPT !.epoch = @ + 1]
    <2>1. home.epoch >= 1 /\ home.epoch <= durable.epoch /\ home.epoch \in Nat
          /\ durable \in [epoch : Nat, version : Nat]
        BY DEF IInv, EpochsTyped, HistoryInv, HistoryTyped
    <2>2. durable'.epoch = durable.epoch + 1
        BY <1>4, <2>1
    <2>3. durable'.epoch # 1
        BY <2>1, <2>2
    <2> QED BY <1>2, <2>3 DEF HistoryInv, Fenced
<1> QED BY <1>1, <1>3, <1>4

\* A signal is taken: one that contains takes the controller out of `running'.
LEMMA TakeSignalHistory ==
    ASSUME IInv, HistoryInv, TakeSignal
    PROVE  HistoryInv'
<1>1. /\ inbox # << >> /\ inbox' = Tail(inbox)
      /\ controller.state \in {"running", "yielding", "contained"}
      /\ controller' = [controller EXCEPT !.state = Answers(@, Head(inbox))]
      /\ yielded' = (yielded \/ controller'.state = "yielding")
      /\ UNCHANGED <<home, reply, durable, pin, crashes, calm>>
    BY DEF TakeSignal, homeostat
<1>2. controller \in [state : States, epoch : Nat, repairs : Nat]
    BY DEF IInv, EpochsTyped
<1>3. controller'.state = Answers(controller.state, Head(inbox))
    BY <1>1, <1>2
<1>4. controller'.state \in {"preempting", "yielding", "contained"}
    BY <1>1, <1>3 DEF Answers
<1>5. inbox' \in Seq(Signals)
    BY <1>1, HeadTailProperties DEF HistoryInv, HistoryTyped
<1>6. HistoryTyped' /\ Counted' /\ Fenced'
    BY <1>1, <1>5 DEF HistoryInv, HistoryTyped, Counted, Fenced
<1>7. Answered'
    BY <1>1, <1>4 DEF Answered
<1> QED BY <1>6, <1>7 DEF HistoryInv

\* An operator resumes an episode that has yielded.
LEMMA ResumeHistory ==
    ASSUME IInv, HistoryInv, Resume
    PROVE  HistoryInv'
<1>1. /\ controller.state = "yielding"
      /\ controller' = [controller EXCEPT !.state = "running"]
      /\ UNCHANGED <<home, reply, durable, inbox, yielded, pin, crashes, calm>>
    BY DEF Resume, homeostat
<1>2. controller \in [state : States, epoch : Nat, repairs : Nat]
    BY DEF IInv, EpochsTyped
<1>3. controller'.state = "running"
    BY <1>1, <1>2
<1>4. Answered'
    BY <1>1, <1>3 DEF HistoryInv, Answered
<1>5. HistoryTyped' /\ Counted' /\ Fenced'
    BY <1>1 DEF HistoryInv, HistoryTyped, Counted, Fenced
<1> QED BY <1>4, <1>5 DEF HistoryInv

\* The Homeostat is rebased to a later epoch and is not contained there.
LEMMA RebaseHistory ==
    ASSUME IInv, HistoryInv, RebaseEpoch
    PROVE  HistoryInv' /\ (home'.epoch = home.epoch => home' = home)
<1>1. /\ UNCHANGED <<reply, durable, inbox, yielded, pin, crashes, calm>>
      /\ controller.state = "repairing" /\ reply = NoReply
    BY DEF RebaseEpoch
<1>2. /\ home \in [epoch : Nat, version : Nat, regime : Regimes, stable : 0 .. 3]
      /\ durable \in [epoch : Nat, version : Nat]
      /\ controller \in [state : States, epoch : Nat, repairs : Nat]
      /\ home.epoch <= durable.epoch /\ controller.epoch <= durable.epoch
      /\ home.epoch >= 1
    BY DEF IInv, EpochsTyped, HistoryInv, HistoryTyped
<1>3. CASE controller.epoch > home.epoch
    <2>1. /\ home' = [epoch |-> controller.epoch, version |-> 0,
                      regime |-> "stable", stable |-> 0]
          /\ controller' = [controller EXCEPT !.state = "rebased"]
        BY <1>3 DEF RebaseEpoch
    <2>2. /\ home'.epoch = controller.epoch /\ home'.regime = "stable" /\ home'.stable = 0
          /\ controller'.state = "rebased"
        BY <1>2, <2>1
    <2>3. durable.epoch # 1 /\ controller.epoch >= 1 /\ home'.epoch # home.epoch
        BY <1>2, <1>3, <2>2
    <2>4. HistoryTyped' /\ Counted' /\ Answered' /\ Fenced'
        BY <1>1, <2>2, <2>3 DEF HistoryInv, HistoryTyped, Counted, Answered, Fenced
    <2> QED BY <2>3, <2>4 DEF HistoryInv
<1>4. CASE ~(controller.epoch > home.epoch)
    <2>1. home' = home /\ controller' = [controller EXCEPT !.state = "contained"]
        BY <1>4 DEF RebaseEpoch
    <2>2. controller'.state = "contained"
        BY <1>2, <2>1
    <2>3. HistoryTyped' /\ Counted' /\ Answered' /\ Fenced'
        BY <1>1, <2>1, <2>2 DEF HistoryInv, HistoryTyped, Counted, Answered, Fenced
    <2> QED BY <2>1, <2>3 DEF HistoryInv
<1> QED BY <1>3, <1>4

\* A repair ends: what was signalled since the rebase still waits.
LEMMA FinishRepairHistory ==
    ASSUME IInv, HistoryInv, FinishRepair
    PROVE  HistoryInv'
<1>1. /\ controller.state = "rebased"
      /\ controller' = [controller EXCEPT !.state = "running", !.repairs = @ + 1]
      /\ UNCHANGED <<home, reply, durable, inbox, yielded, pin, crashes, calm>>
    BY DEF FinishRepair
<1>2. controller \in [state : States, epoch : Nat, repairs : Nat]
    BY DEF IInv, EpochsTyped
<1>3. controller'.state = "running"
    BY <1>1, <1>2
<1>4. Answered'
    BY <1>1, <1>3 DEF HistoryInv, Answered, Waits
<1>5. HistoryTyped' /\ Counted' /\ Fenced'
    BY <1>1 DEF HistoryInv, HistoryTyped, Counted, Fenced
<1> QED BY <1>4, <1>5 DEF HistoryInv

\* A consumer dies and the mailbox of the controller is gone.
LEMMA ConsumerDiesHistory ==
    ASSUME IInv, HistoryInv, ConsumerDies
    PROVE  HistoryInv'
<1>1. /\ crashes' = crashes + 1 /\ inbox' = << >>
      /\ controller' = [state |-> "restarting", epoch |-> durable.epoch, repairs |-> 0]
      /\ UNCHANGED <<home, reply, durable, yielded, pin, calm>>
    BY DEF ConsumerDies, homeostat
<1>2. crashes' # 0
    BY <1>1 DEF IInv, Typed
<1>3. HistoryTyped' /\ Counted' /\ Fenced'
    BY <1>1, EmptySeq DEF HistoryInv, HistoryTyped, Counted, Fenced
<1>4. Answered'
    BY <1>1, <1>2 DEF Answered
<1> QED BY <1>3, <1>4 DEF HistoryInv

\* A vector is pinned at the row's version, and given up for a commit.
LEMMA EffectHistory ==
    ASSUME IInv, HistoryInv, Prepare \/ BeginCommit
    PROVE  HistoryInv'
<1>1. /\ UNCHANGED <<home, reply, durable, controller, inbox, yielded, crashes, calm>>
      /\ \/ pin' = NoPin
         \/ pin' = [epoch |-> durable.epoch, version |-> durable.version, missed |-> FALSE]
    BY DEF Prepare, BeginCommit, homeostat, control
<1>2. durable \in [epoch : Nat, version : Nat]
    BY DEF IInv, EpochsTyped
<1>3. HistoryTyped'
    <2>1. NoPin \in [epoch : Nat, version : Nat, missed : BOOLEAN]
        BY DEF NoPin
    <2>2. durable.epoch \in Nat /\ durable.version \in Nat
        BY <1>2
    <2>3. [epoch |-> durable.epoch, version |-> durable.version, missed |-> FALSE]
            \in [epoch : Nat, version : Nat, missed : BOOLEAN]
        BY <2>2
    <2>4. CASE pin' = NoPin
        BY <1>1, <2>1, <2>4 DEF HistoryInv, HistoryTyped
    <2>5. CASE pin' = [epoch |-> durable.epoch, version |-> durable.version, missed |-> FALSE]
        BY <1>1, <2>3, <2>5 DEF HistoryInv, HistoryTyped
    <2> QED BY <1>1, <2>4, <2>5
<1>4. Counted' /\ Answered'
    BY <1>1 DEF HistoryInv, Counted, Answered, Waits
<1>5. Fenced'
    BY <1>1, <1>2 DEF HistoryInv, Fenced, NoPin
<1> QED BY <1>3, <1>4, <1>5 DEF HistoryInv

\* The steps that judge no frame leave the regime to the epoch.
LEMMA OthersDoNotJudge ==
    ASSUME IInv, HistoryInv, [Next]_vars, ~Observe
    PROVE  (home'.epoch = home.epoch) => (home'.regime = home.regime)
<1>1. CASE RepairRecorded
    BY <1>1, RepairRecordedHistory
<1>2. CASE RebaseEpoch
    BY <1>2, RebaseHistory
<1>3. CASE HandleDemand \/ PersistAndNotify \/ TakeSignal \/ Resume
    BY <1>3 DEF HandleDemand, PersistAndNotify, TakeSignal, Resume, homeostat
<1>4. CASE \/ AdvanceEpoch \/ Contain \/ FinishRepair \/ ConsumerDies
           \/ Prepare \/ BeginCommit \/ UNCHANGED vars
    BY <1>4 DEF AdvanceEpoch, Contain, FinishRepair, ConsumerDies, Prepare, BeginCommit,
                vars, homeostat
<1>5. CASE \E s \in Shapes : \E late \in {0, 1} :
              late < durable.epoch /\ Publish(s, durable.epoch - late)
    BY <1>5 DEF Publish, homeostat
<1> QED BY <1>1, <1>2, <1>3, <1>4, <1>5 DEF Next, Pipeline, Controller

\* Every step keeps what the histories say.
LEMMA NextHistory ==
    ASSUME IInv, HistoryInv, [Next]_vars
    PROVE  HistoryInv'
<1>1. CASE Pipeline
    <2>1. CASE HandleDemand
        BY <2>1, HistoryAside DEF HandleDemand, homeostat, control
    <2> QED BY <1>1, <2>1, ObserveHistory, PersistHistory, RepairRecordedHistory
            DEF Pipeline
<1>2. CASE Controller
    BY <1>2, TakeSignalHistory, LaterEpochHistory, RebaseHistory, FinishRepairHistory
    DEF Controller
<1>3. CASE \E s \in Shapes : \E late \in {0, 1} :
              late < durable.epoch /\ Publish(s, durable.epoch - late)
    <2>1. UNCHANGED <<home, reply, durable, controller, inbox, yielded, pin, crashes, calm>>
        BY <1>3 DEF Publish, homeostat, control
    <2> QED BY <2>1, HistoryAside
<1>4. CASE Resume \/ ConsumerDies \/ Prepare \/ BeginCommit
    BY <1>4, ResumeHistory, ConsumerDiesHistory, EffectHistory
<1>5. CASE UNCHANGED vars
    BY <1>5, HistoryAside DEF vars, homeostat, control
<1> QED BY <1>1, <1>2, <1>3, <1>4, <1>5 DEF Next

\* The histories and the types hold together of every reachable state.
LEMMA HistoryInvariance == Spec => [](IInv /\ HistoryInv)
<1>1. Init => HistoryInv
    BY InitHistory
<1>2. IInv /\ HistoryInv /\ [Next]_vars => HistoryInv'
    BY NextHistory
<1> QED BY <1>1, <1>2, Invariance, PTL DEF Spec

\* A containment of the Homeostat is answered: once none of its signals is under
\* way, a controller that never yielded and lost no consumer does not run the
\* episode the Homeostat holds contained, however repairs, late frames and
\* violations interleave (homeostat.ex, episode_controller.ex).
THEOREM ContainmentReachesController == Spec => []ContainmentIsAnswered
<1>1. ASSUME IInv, HistoryInv PROVE ContainmentIsAnswered
    <2> SUFFICES ASSUME home.regime = "containment", reply = NoReply,
                        "contain" \notin {inbox[i] : i \in DOMAIN inbox},
                        ~yielded, crashes = 0, controller.state = "running"
                 PROVE  FALSE
        BY DEF ContainmentIsAnswered
    <2>1. reply.signal # "contain"
        BY DEF NoReply
    <2>2. Waits("contain")
        BY <1>1, <2>1 DEF HistoryInv, Answered
    <2>3. DOMAIN inbox = 1 .. Len(inbox)
        BY <1>1, LenProperties DEF HistoryInv, HistoryTyped
    <2> QED BY <2>2, <2>3 DEF Waits
<1> QED BY <1>1, HistoryInvariance, PTL

\* From drifting or unstable straight to stable takes three stable frames in a
\* row, whatever sensors publish and repairs rebase, and containment is left only
\* by a rebase to a later epoch (update_regime of homeostat.ex).
THEOREM RecoveryTakesThreeFrames == Spec => RecoveryIsSlow
<1>1. ASSUME IInv, HistoryInv, [Next]_vars
      PROVE  [(home'.epoch = home.epoch /\ home'.regime # home.regime) =>
                /\ home.regime # "containment"
                /\ home'.regime = "stable" /\ home.regime \in {"drifting", "unstable"}
                     => calm' = 3]_vars
    <2>1. CASE Observe
        BY <1>1, <2>1, ObserveHistory
    <2>2. CASE ~Observe
        BY <1>1, <2>2, OthersDoNotJudge
    <2> QED BY <2>1, <2>2
<1> QED BY <1>1, HistoryInvariance, PTL DEF Spec, RecoveryIsSlow

\* In the first epoch no effect is committed that was prepared before a frame the
\* store has taken, in whatever order frames are persisted, vectors are pinned and
\* commits are tried (update_trajectory and begin_effect_commit of the store).
THEOREM FramesFenceEffects == Spec => FramesFenceCommits
<1>1. ASSUME IInv, HistoryInv, [Next]_vars
      PROVE  [(BeginCommit /\ pin.epoch = 1) => ~pin.missed]_vars
    <2> SUFFICES ASSUME BeginCommit, pin.epoch = 1, pin.missed PROVE FALSE
        OBVIOUS
    <2>1. durable.epoch = 1 /\ pin.version = durable.version
        BY DEF BeginCommit
    <2>2. pin.version < durable.version /\ durable.version \in Nat
        BY <1>1, <2>1 DEF HistoryInv, Fenced, IInv, EpochsTyped
    <2> QED BY <2>1, <2>2
<1> QED BY <1>1, HistoryInvariance, PTL DEF Spec, FramesFenceCommits
=============================================================================

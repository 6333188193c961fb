---------------------------- MODULE PagingProofs -----------------------------
(***************************************************************************)
(* Proofs about MonotonicFrameAllocator and the page tables built from its *)
(* frames, for every ascending memory map, any size of the heap and any    *)
(* number of processes.                                                    *)
(***************************************************************************)
EXTENDS Paging, Integers, SequenceTheorems, FiniteSetTheorems, WellFoundedInduction, TLAPS

-----------------------------------------------------------------------------
(* The frame allocator.                                                    *)

\* A set of numbers that is not empty has a least one.
LEMMA LeastNumber ==
    ASSUME NEW S \in SUBSET Nat, S # {}
    PROVE  Min(S) \in S /\ \A y \in S : Min(S) <= y
  <1> DEFINE R == OpToRel(<, Nat)
  <1>1. IsWellFoundedOn(R, Nat)
    BY NatLessThanWellFounded
  <1>2. \A x, y \in Nat : <<y, x>> \in R <=> y < x
    BY Zenon DEF OpToRel
  <1> HIDE DEF R
  <1>3. PICK x \in S : \A y \in S : ~ (<<y, x>> \in R)
    <2>1. S \subseteq Nat /\ S # {}
      OBVIOUS
    <2>2. QED
      BY <1>1, <2>1, WFMin, Zenon
  <1>4. \A y \in S : x <= y
    <2>1. SUFFICES ASSUME NEW y \in S PROVE x <= y
      OBVIOUS
    <2>2. x \in Nat /\ y \in Nat
      OBVIOUS
    <2>3. ~ (y < x)
      BY <1>2, <1>3, <2>2, Zenon
    <2>4. QED
      BY <2>2, <2>3
  <1>5. \E z \in S : \A y \in S : z <= y
    BY <1>4, Zenon
  <1>6. QED
    BY <1>5, Zenon DEF Min

-----------------------------------------------------------------------------
(* The frame allocator.                                                    *)

\* The memory map as FramesAssumption has it.
MapOK ==
    /\ map \in Seq(Region)
    /\ \A i \in 1 .. Len(map) : map[i].start <= map[i].end
    /\ \A i, j \in 1 .. Len(map) : i < j => map[i].end <= map[j].start

\* Lengths and regions of the map are what they seem.
LEMMA MapFacts ==
    ASSUME MapOK
    PROVE  /\ Len(map) \in Nat
           /\ \A i \in 1 .. Len(map) :
                 /\ map[i].start \in Nat /\ map[i].end \in Nat
                 /\ map[i].usable \in BOOLEAN
                 /\ FrameCount(i) \in Nat
  <1>1. Len(map) \in Nat /\ \A i \in 1 .. Len(map) : map[i] \in Region
    BY LenProperties, ElementOfSeq DEF MapOK
  <1>2. QED
    BY <1>1 DEF MapOK, Region, FrameCount

\* The ordinals of usable regions grow with their place in the map.
LEMMA OrdinalFacts ==
    ASSUME MapOK
    PROVE  /\ \A i \in 1 .. Len(map) : UsableOrdinal(i) \in 0 .. Len(map)
           /\ \A i, j \in 1 .. Len(map) :
                 i < j /\ map[i].usable => UsableOrdinal(i) < UsableOrdinal(j)
  <1> DEFINE U(i) == {k \in 1 .. i - 1 : map[k].usable}
  <1>1. Len(map) \in Nat
    BY MapFacts, Zenon
  <1>2. \A i \in 1 .. Len(map) :
           /\ IsFiniteSet(U(i)) /\ Cardinality(U(i)) \in Nat
           /\ Cardinality(U(i)) <= i - 1
    <2>1. SUFFICES ASSUME NEW i \in 1 .. Len(map)
                   PROVE  /\ IsFiniteSet(U(i)) /\ Cardinality(U(i)) \in Nat
                          /\ Cardinality(U(i)) <= i - 1
      BY Zenon
    <2>2. i - 1 \in Int /\ 1 \in Int /\ i \in Nat /\ i >= 1
      BY <1>1
    <2>3. IsFiniteSet(1 .. i - 1) /\ Cardinality(1 .. i - 1) = i - 1
      BY <2>2, FS_Interval
    <2>4. U(i) \in SUBSET (1 .. i - 1)
      OBVIOUS
    <2>5. QED
      BY <2>3, <2>4, FS_Subset, FS_CardinalityType
  <1>3. ASSUME NEW i \in 1 .. Len(map), NEW j \in 1 .. Len(map), i < j, map[i].usable
        PROVE  Cardinality(U(i)) < Cardinality(U(j))
    <2>1. i \notin U(i) /\ U(i) \cup {i} \in SUBSET U(j)
      BY <1>1, <1>3
    <2>2. /\ IsFiniteSet(U(i)) /\ Cardinality(U(i)) \in Nat
          /\ IsFiniteSet(U(j)) /\ Cardinality(U(j)) \in Nat
      BY <1>2, Zenon
    <2> HIDE DEF U
    <2>3. Cardinality(U(i) \cup {i}) = Cardinality(U(i)) + 1
      BY <2>1, <2>2, FS_AddElement, Zenon
    <2>4. Cardinality(U(i) \cup {i}) <= Cardinality(U(j))
      BY <2>1, <2>2, FS_Subset
    <2>5. QED
      BY <2>2, <2>3, <2>4
  <1>4. \A i : UsableOrdinal(i) = Cardinality(U(i))
    BY DEF UsableOrdinal
  <1> HIDE DEF U
  <1>5. \A i \in 1 .. Len(map) : UsableOrdinal(i) \in 0 .. Len(map)
    BY <1>1, <1>2, <1>4
  <1>6. QED
    BY <1>3, <1>4, <1>5, Zenon

Usable == {i \in 1 .. Len(map) : map[i].usable}

\* The cursor is above every frame handed out.
Below ==
    \A k \in 1 .. Len(handed), i \in Usable :
        /\ UsableOrdinal(i) = region => handed[k] < map[i].start + offset
        /\ UsableOrdinal(i) > region => handed[k] < map[i].start

\* Every usable frame below the cursor has been handed out.
Passed ==
    \A i \in Usable : \A f \in map[i].start .. map[i].end - 1 :
        \/ UsableOrdinal(i) < region
        \/ UsableOrdinal(i) = region /\ f < map[i].start + offset
        => \E k \in 1 .. Len(handed) : handed[k] = f

FInv ==
    /\ map \in Maps
    /\ region \in Nat /\ offset \in Nat
    /\ handed \in Seq(Nat)
    /\ last \in BOOLEAN
    /\ Below /\ Passed
    /\ AscendingAndUsable /\ NoneOnlyWhenExhausted

LEMMA MapIsOK ==
    ASSUME map \in Maps
    PROVE  MapOK
  BY FramesAssumption DEF MapOK, Sorted

\* The usable regions by their ordinals: distinct, in range and ascending.
LEMMA UsableFacts ==
    ASSUME map \in Maps
    PROVE  /\ Len(map) \in Nat
           /\ \A i \in Usable : /\ map[i].start \in Nat /\ map[i].end \in Nat
                                /\ UsableOrdinal(i) \in 0 .. Len(map)
                                /\ FrameCount(i) = map[i].end - map[i].start
           /\ \A i, j \in Usable :
                 /\ UsableOrdinal(i) = UsableOrdinal(j) => i = j
                 /\ UsableOrdinal(i) < UsableOrdinal(j) => map[i].end <= map[j].start
           /\ \A r : Selected(r) = {i \in Usable : UsableOrdinal(i) = r}
           /\ \A f : f \in UsableFrames <=> \E i \in Usable : f \in map[i].start .. map[i].end - 1
  <1>1. MapOK
    BY MapIsOK, Zenon
  <1>2. /\ Len(map) \in Nat
        /\ \A i \in 1 .. Len(map) : map[i].start \in Nat /\ map[i].end \in Nat
    BY <1>1, MapFacts, Zenon
  <1>3. /\ \A i \in 1 .. Len(map) : UsableOrdinal(i) \in 0 .. Len(map)
        /\ \A i, j \in 1 .. Len(map) :
              i < j /\ map[i].usable => UsableOrdinal(i) < UsableOrdinal(j)
    BY <1>1, OrdinalFacts, Zenon
  <1>4. Usable \subseteq 1 .. Len(map) /\ \A i \in Usable : map[i].usable
    BY Zenon DEF Usable
  <1>5. ASSUME NEW i \in Usable, NEW j \in Usable
        PROVE  /\ UsableOrdinal(i) = UsableOrdinal(j) => i = j
               /\ UsableOrdinal(i) < UsableOrdinal(j) => map[i].end <= map[j].start
    <2>1. /\ i \in 1 .. Len(map) /\ j \in 1 .. Len(map) /\ map[i].usable /\ map[j].usable
          /\ UsableOrdinal(i) \in Nat /\ UsableOrdinal(j) \in Nat
      BY <1>2, <1>3, <1>4
    <2>2. CASE i < j
      <3>1. UsableOrdinal(i) < UsableOrdinal(j) /\ map[i].end <= map[j].start
        BY <1>1, <1>3, <2>1, <2>2, Zenon DEF MapOK
      <3>2. QED
        BY <2>1, <3>1
    <2>3. CASE j < i
      <3>1. UsableOrdinal(j) < UsableOrdinal(i)
        BY <1>3, <2>1, <2>3, Zenon
      <3>2. QED
        BY <2>1, <3>1
    <2>4. CASE i = j
      BY <2>1, <2>4
    <2>5. QED
      BY <1>2, <2>1, <2>2, <2>3, <2>4
  <1>6. \A r : Selected(r) = {i \in Usable : UsableOrdinal(i) = r}
    BY Zenon DEF Selected, Usable
  <1>7. \A f : f \in UsableFrames <=> \E i \in Usable : f \in map[i].start .. map[i].end - 1
    BY Zenon DEF UsableFrames, Usable
  <1>8. QED
    BY <1>2, <1>3, <1>4, <1>5, <1>6, <1>7 DEF FrameCount

\* With no candidate left every usable frame has been handed out.
LEMMA NoCandidate ==
    ASSUME FInv, Candidates = {}, NEW f \in UsableFrames
    PROVE  \E k \in 1 .. Len(handed) : handed[k] = f
  <1>1. map \in Maps /\ region \in Nat /\ offset \in Nat /\ Passed
    BY Zenon DEF FInv
  <1>2. PICK i \in Usable : f \in map[i].start .. map[i].end - 1
    BY <1>1, UsableFacts, Zenon
  <1>3. /\ map[i].start \in Nat /\ map[i].end \in Nat
        /\ UsableOrdinal(i) \in 0 .. Len(map) /\ Len(map) \in Nat
        /\ FrameCount(i) = map[i].end - map[i].start
        /\ i \in Selected(UsableOrdinal(i))
    BY <1>1, UsableFacts
  <1> DEFINE o == UsableOrdinal(i)
  <1>4. o < region \/ ~ (OffsetIn(o) < FrameCount(i))
    <2>1. CASE o >= region
      <3>1. o \in region .. Len(map)
        BY <1>1, <1>3, <2>1
      <3>2. QED
        BY <1>3, <3>1, Zenon DEF Candidates
    <2>2. QED
      BY <1>1, <1>3, <2>1
  <1>5. o < region \/ (o = region /\ f < map[i].start + offset)
    <2>1. OffsetIn(o) = IF o = region THEN offset ELSE 0
      BY Zenon DEF OffsetIn
    <2>2. o \in Nat /\ region \in Nat
      BY <1>1, <1>3
    <2> HIDE DEF o
    <2>3. CASE o < region
      BY <2>3, Zenon
    <2>4. CASE o >= region
      BY <1>1, <1>2, <1>3, <1>4, <2>1, <2>2, <2>4
    <2>5. QED
      BY <2>2, <2>3, <2>4
  <1>6. QED
    BY <1>1, <1>2, <1>5, Zenon DEF Passed

\* The frame found is above every one before it, and every usable frame below
\* it has been handed out.
LEMMA FoundFrame ==
    ASSUME FInv, Candidates # {}
    PROVE  LET r == Min(Candidates)
           IN  /\ r \in Nat /\ r >= region /\ OffsetIn(r) \in Nat
               /\ \A i \in Selected(r) :
                     /\ i \in Usable /\ UsableOrdinal(i) = r
                     /\ map[i].start + OffsetIn(r) \in map[i].start .. map[i].end - 1
                     /\ \A k \in 1 .. Len(handed) :
                           handed[k] < map[i].start + OffsetIn(r)
                     /\ \A j \in Usable : \A f \in map[j].start .. map[j].end - 1 :
                           f < map[i].start + OffsetIn(r)
                           => \E k \in 1 .. Len(handed) : handed[k] = f
  <1> DEFINE r == Min(Candidates)
  <1>1. /\ map \in Maps /\ region \in Nat /\ offset \in Nat
        /\ Passed /\ Below /\ Len(map) \in Nat
    BY UsableFacts DEF FInv
  <1>2. Candidates \in SUBSET Nat
    BY <1>1 DEF Candidates
  <1>3. r \in Candidates /\ \A y \in Candidates : r <= y
    BY <1>2, LeastNumber
  <1> HIDE DEF r
  <1>4. r \in Nat /\ r >= region /\ r <= Len(map)
    BY <1>1, <1>3 DEF Candidates
  <1>5. /\ OffsetIn(r) \in Nat
        /\ r = region => OffsetIn(r) = offset
        /\ r # region => OffsetIn(r) = 0
    BY <1>1, Zenon DEF OffsetIn
  <1>6. \A y \in region .. Len(map) : y < r =>
            \A i \in Selected(y) : ~ (OffsetIn(y) < FrameCount(i))
    <2>1. SUFFICES ASSUME NEW y \in region .. Len(map), y < r,
                          NEW i \in Selected(y), OffsetIn(y) < FrameCount(i)
                   PROVE  FALSE
      BY Zenon
    <2>2. y \in Candidates
      BY <2>1, Zenon DEF Candidates
    <2>3. r <= y /\ y \in Nat
      BY <1>1, <1>3, <2>2
    <2>4. QED
      BY <1>4, <2>1, <2>3
  <1>7. ASSUME NEW i \in Selected(r)
        PROVE  /\ i \in Usable /\ UsableOrdinal(i) = r
               /\ map[i].start + OffsetIn(r) \in map[i].start .. map[i].end - 1
               /\ \A k \in 1 .. Len(handed) :
                     handed[k] < map[i].start + OffsetIn(r)
               /\ \A j \in Usable : \A f \in map[j].start .. map[j].end - 1 :
                     f < map[i].start + OffsetIn(r)
                     => \E k \in 1 .. Len(handed) : handed[k] = f
    <2>1. /\ i \in Usable /\ UsableOrdinal(i) = r
          /\ map[i].start \in Nat /\ map[i].end \in Nat
          /\ FrameCount(i) = map[i].end - map[i].start
      BY <1>1, UsableFacts
    <2>2. OffsetIn(r) < FrameCount(i)
      <3>1. PICK h \in Selected(r) : OffsetIn(r) < FrameCount(h)
        BY <1>3, Zenon DEF Candidates
      <3>2. h = i
        BY <1>1, <2>1, UsableFacts
      <3>3. QED
        BY <3>1, <3>2, Zenon
    <2>3. map[i].start + OffsetIn(r) \in map[i].start .. map[i].end - 1
      BY <1>5, <2>1, <2>2
    <2>4. ASSUME NEW k \in 1 .. Len(handed)
          PROVE  handed[k] < map[i].start + OffsetIn(r)
      <3>1. CASE r = region
        BY <1>1, <1>5, <2>1, <3>1, Zenon DEF Below
      <3>2. CASE r > region
        <4>1. handed[k] < map[i].start
          BY <1>1, <2>1, <3>2, Zenon DEF Below
        <4>2. QED
          BY <1>1, <1>4, <1>5, <2>1, <3>2, <4>1
      <3>3. QED
        BY <1>1, <1>4, <3>1, <3>2
    <2>5. ASSUME NEW j \in Usable, NEW f \in map[j].start .. map[j].end - 1,
                 f < map[i].start + OffsetIn(r)
          PROVE  \E k \in 1 .. Len(handed) : handed[k] = f
      <3> DEFINE o == UsableOrdinal(j)
      <3>1. /\ map[j].start \in Nat /\ map[j].end \in Nat
            /\ FrameCount(j) = map[j].end - map[j].start
            /\ o \in 0 .. Len(map) /\ j \in Selected(o)
            /\ o = r => i = j
            /\ r < o => map[i].end <= map[j].start
        BY <1>1, <2>1, UsableFacts, Zenon
      <3> HIDE DEF o
      <3>2. ~ (r < o)
        <4>1. f >= map[j].start /\ f \in Int
          BY <3>1
        <4>2. map[i].start + OffsetIn(r) < map[i].end
          BY <1>5, <2>1, <2>2
        <4>3. ~ (map[i].end <= map[j].start)
          <5> DEFINE a == map[i].start + OffsetIn(r)
                     b == map[i].end
                     c == map[j].start
          <5>1. f < a
            BY <2>5, Zenon
          <5>2. a < b /\ c <= f
            BY <3>1, <4>1, <4>2, Zenon
          <5>3. a \in Int /\ b \in Int /\ c \in Int /\ f \in Int
            BY <1>5, <2>1, <3>1, <4>1, SMTT(20)
          <5> HIDE DEF a, b, c
          <5>4. ~ (b <= c)
            BY <5>1, <5>2, <5>3
          <5>5. QED
            BY <5>4, Zenon DEF b, c
        <4>4. QED
          BY <3>1, <4>3, Zenon
      <3>3. \/ o < region
            \/ o = region /\ f < map[j].start + offset
        <4>1. CASE o = r
          BY <1>1, <1>5, <2>1, <2>5, <3>1, <4>1
        <4>2. CASE o < r /\ o >= region
          <5>1. o \in region .. Len(map)
            BY <1>1, <3>1, <4>2
          <5>2. ~ (OffsetIn(o) < FrameCount(j))
            BY <1>6, <3>1, <4>2, <5>1
          <5>3. QED
            BY <1>1, <3>1, <5>2 DEF OffsetIn
        <4>3. QED
          BY <1>1, <1>4, <3>1, <3>2, <4>1, <4>2
      <3>4. QED
        BY <1>1, <3>3, Zenon DEF Passed, o
    <2>6. QED
      BY <2>1, <2>3, <2>4, <2>5, Zenon
  <1>8. QED
    BY <1>4, <1>5, <1>7 DEF r

\* The frames taken so far are those of s and then f.
LEMMA Appended ==
    ASSUME NEW s \in Seq(Nat), NEW f \in Nat
    PROVE  /\ Append(s, f) \in Seq(Nat)
           /\ Len(s) \in Nat /\ Len(Append(s, f)) = Len(s) + 1
           /\ \A k \in 1 .. Len(s) : Append(s, f)[k] = s[k]
           /\ Append(s, f)[Len(s) + 1] = f
  BY AppendProperties, LenProperties

\* What next_frame's answer says of the frames.
NoneLeft ==
    /\ last' = FALSE /\ UNCHANGED <<map, region, offset, handed>>
    /\ \A f \in UsableFrames : \E k \in 1 .. Len(handed) : handed[k] = f

FrameTaken ==
    /\ last' = TRUE /\ UNCHANGED map
    /\ Len(handed) \in Nat /\ Len(handed') = Len(handed) + 1
    /\ \A k \in 1 .. Len(handed) : handed'[k] = handed[k]
    /\ handed'[Len(handed')] \in UsableFrames
    /\ \A k \in 1 .. Len(handed) : handed[k] < handed'[Len(handed')]

\* next_frame keeps the allocator's invariant; it answers None only when no
\* frame is left, and otherwise with a frame above all those before.
LEMMA FrameStep ==
    ASSUME FInv, NextFrame
    PROVE  FInv' /\ (NoneLeft \/ FrameTaken)
  <1>1. /\ map \in Maps /\ region \in Nat /\ offset \in Nat
        /\ handed \in Seq(Nat) /\ Len(handed) \in Nat
        /\ Passed /\ Below /\ AscendingAndUsable
    BY LenProperties DEF FInv
  <1>2. map' = map
    BY Zenon DEF NextFrame
  <1>3. /\ Usable' = Usable /\ UsableFrames' = UsableFrames
        /\ \A i : UsableOrdinal(i)' = UsableOrdinal(i)
    BY <1>2 DEF Usable, UsableFrames, UsableOrdinal
  <1>4. CASE Candidates = {}
    <2>1. NoneLeft
      BY <1>4, NoCandidate, Zenon DEF NextFrame, NoneLeft
    <2>2. Below' /\ Passed' /\ AscendingAndUsable' /\ NoneOnlyWhenExhausted'
      BY <1>1, <1>3, <2>1, Zenon
         DEF NoneLeft, Below, Passed, AscendingAndUsable, NoneOnlyWhenExhausted
    <2>3. QED
      BY <1>1, <2>1, <2>2, Zenon DEF FInv, NoneLeft
  <1>5. CASE Candidates # {}
    <2> DEFINE r == Min(Candidates)
               q == OffsetIn(r)
    <2>1. PICK i \in Selected(r) :
              /\ handed' = Append(handed, map[i].start + q)
              /\ region' = r /\ offset' = q + 1 /\ last' = TRUE
      BY <1>5, Zenon DEF NextFrame
    <2> DEFINE g == map[i].start + q
               n == Len(handed)
    <2>2. /\ r \in Nat /\ r >= region /\ q \in Nat
          /\ i \in Usable /\ UsableOrdinal(i) = r
          /\ g \in map[i].start .. map[i].end - 1
          /\ \A k \in 1 .. n : handed[k] < g
          /\ \A j \in Usable : \A f \in map[j].start .. map[j].end - 1 :
                f < g => \E k \in 1 .. n : handed[k] = f
      BY <1>5, FoundFrame, Zenon
    <2> HIDE DEF r, q
    <2>3. map[i].start \in Nat /\ map[i].end \in Nat /\ g \in Nat /\ g \in UsableFrames
      <3>1. map[i].start \in Nat /\ map[i].end \in Nat
        BY <1>1, <2>2, UsableFacts, Zenon
      <3>2. g \in UsableFrames <=> \E j \in Usable : g \in map[j].start .. map[j].end - 1
        BY <1>1, UsableFacts, Zenon
      <3>3. g \in UsableFrames
        BY <2>2, <3>2
      <3>4. g \in Nat
        BY <2>2, <3>1
      <3>5. QED
        BY <3>1, <3>3, <3>4, Zenon
    <2>4. \A j \in Usable :
             /\ map[j].start \in Nat /\ map[j].end \in Nat /\ UsableOrdinal(j) \in Nat
             /\ UsableOrdinal(j) = r => j = i
             /\ UsableOrdinal(j) > r => map[i].end <= map[j].start
             /\ UsableOrdinal(j) < r => map[j].end <= map[i].start
      <3>1. SUFFICES ASSUME NEW j \in Usable
                     PROVE  /\ map[j].start \in Nat /\ map[j].end \in Nat
                            /\ UsableOrdinal(j) \in Nat
                            /\ UsableOrdinal(j) = r => j = i
                            /\ UsableOrdinal(j) > r => map[i].end <= map[j].start
                            /\ UsableOrdinal(j) < r => map[j].end <= map[i].start
        BY Zenon
      <3>2. /\ map[j].start \in Nat /\ map[j].end \in Nat
            /\ UsableOrdinal(j) \in 0 .. Len(map) /\ Len(map) \in Nat
            /\ UsableOrdinal(j) = UsableOrdinal(i) => j = i
            /\ UsableOrdinal(i) < UsableOrdinal(j) => map[i].end <= map[j].start
            /\ UsableOrdinal(j) < UsableOrdinal(i) => map[j].end <= map[i].start
        BY <1>1, <2>2, UsableFacts, Zenon
      <3>3. QED
        BY <2>2, <3>2
    <2>5. /\ handed' \in Seq(Nat) /\ Len(handed') = n + 1
          /\ \A k \in 1 .. n : handed'[k] = handed[k]
          /\ handed'[n + 1] = g
      BY <1>1, <2>1, <2>3, Appended
    <2>6. /\ g >= map[i].start /\ g < map[i].end /\ g + 1 = map[i].start + offset'
          /\ region' = r /\ last' = TRUE
      <3>1. region' = r /\ offset' = q + 1 /\ last' = TRUE
        BY <2>1, Zenon
      <3>2. map[i].start \in Nat /\ map[i].end \in Nat /\ q \in Nat
            /\ g \in map[i].start .. map[i].end - 1
        BY <2>2, <2>3, Zenon
      <3>3. QED
        BY <3>1, <3>2
    <2>7. \A k \in 1 .. n + 1 : handed'[k] \in Nat /\ handed'[k] <= g
      <3>1. \A k \in 1 .. n : handed[k] \in Nat
        BY <1>1, ElementOfSeq, Zenon
      <3>2. \A k \in 1 .. n + 1 : k \in 1 .. n \/ k = n + 1
        BY <1>1
      <3> HIDE DEF g, n
      <3>3. \A k \in 1 .. n : handed'[k] = handed[k] /\ handed[k] < g
        BY <2>2, <2>5, Zenon
      <3>4. handed'[n + 1] = g /\ g \in Nat
        BY <2>3, <2>5, SMTT(20)
      <3>5. QED
        BY <3>1, <3>2, <3>3, <3>4
    <2> HIDE DEF g, n
    <2>8. Below'
      <3>1. SUFFICES ASSUME NEW k \in 1 .. n + 1, NEW j \in Usable
                     PROVE  /\ UsableOrdinal(j) = r => handed'[k] < map[j].start + offset'
                            /\ UsableOrdinal(j) > r => handed'[k] < map[j].start
        BY <1>2, <1>3, <2>5, <2>6, Zenon DEF Below
      <3>2. handed'[k] \in Nat /\ handed'[k] <= g /\ g \in Nat
        BY <2>3, <2>7, Zenon
      <3>3. CASE UsableOrdinal(j) = r
        <4>1. j = i
          BY <2>4, <3>3, Zenon
        <4>2. QED
          BY <2>2, <2>3, <2>6, <3>2, <3>3, <4>1
      <3>4. CASE UsableOrdinal(j) > r
        <4>1. map[i].end <= map[j].start /\ map[j].start \in Nat
          BY <2>4, <3>4, Zenon
        <4>2. QED
          BY <2>2, <2>3, <2>4, <2>6, <3>2, <3>4, <4>1
      <3>5. QED
        BY <3>3, <3>4, Zenon
    <2>9. Passed'
      <3>1. SUFFICES ASSUME NEW j \in Usable, NEW f \in map[j].start .. map[j].end - 1,
                            \/ UsableOrdinal(j) < r
                            \/ UsableOrdinal(j) = r /\ f < map[j].start + offset'
                     PROVE  \E k \in 1 .. n + 1 : handed'[k] = f
        BY <1>2, <1>3, <2>5, <2>6, Zenon DEF Passed
      <3>2. f <= g
        BY <2>2, <2>3, <2>4, <2>6, <3>1
      <3>3. CASE f < g
        <4>1. PICK k \in 1 .. n : handed[k] = f
          BY <2>2, <3>3, Zenon
        <4>2. k \in 1 .. n + 1 /\ handed'[k] = f
          BY <1>1, <2>5, <4>1 DEF n
        <4>3. QED
          BY <4>2, Zenon
      <3>4. CASE f = g
        BY <1>1, <2>5, <3>4 DEF n
      <3>5. QED
        BY <2>3, <2>4, <3>2, <3>3, <3>4
    <2>10. AscendingAndUsable'
      <3>1. \A k \in 1 .. n + 1 : handed'[k] \in UsableFrames
        <4>1. \A k \in 1 .. n + 1 : k \in 1 .. n \/ k = n + 1
          BY <1>1 DEF n
        <4>2. \A k \in 1 .. n : handed[k] \in UsableFrames
          BY <1>1, Zenon DEF AscendingAndUsable, n
        <4>3. QED
          BY <2>3, <2>5, <4>1, <4>2, Zenon
      <3>2. \A j, k \in 1 .. n + 1 : j < k => handed'[j] < handed'[k]
        <4>1. SUFFICES ASSUME NEW j \in 1 .. n + 1, NEW k \in 1 .. n + 1, j < k
                       PROVE  handed'[j] < handed'[k]
          OBVIOUS
        <4>2. j \in 1 .. n /\ (k \in 1 .. n \/ k = n + 1)
          BY <1>1, <4>1 DEF n
        <4>3. CASE k \in 1 .. n
          BY <1>1, <2>5, <4>1, <4>2, <4>3, Zenon DEF AscendingAndUsable, n
        <4>4. CASE k = n + 1
          BY <2>2, <2>5, <4>2, <4>4, Zenon
        <4>5. QED
          BY <4>2, <4>3, <4>4, Zenon
      <3>3. QED
        BY <1>3, <2>5, <3>1, <3>2, Zenon DEF AscendingAndUsable
    <2>11. FrameTaken
      BY <1>1, <1>2, <2>2, <2>3, <2>5, <2>6, Zenon DEF FrameTaken, n
    <2>12. map' \in Maps /\ region' \in Nat /\ offset' \in Nat
      BY <1>1, <1>2, <2>1, <2>2
    <2>13. FInv'
      BY <2>5, <2>6, <2>8, <2>9, <2>10, <2>12, Zenon DEF FInv, NoneOnlyWhenExhausted
    <2>14. QED
      BY <2>11, <2>13
  <1>6. QED
    BY <1>4, <1>5

LEMMA FrameInitInv ==
    ASSUME FrameInit
    PROVE  FInv
  <1>1. /\ map \in Maps /\ region = 0 /\ offset = 0
        /\ handed \in Seq(Nat) /\ Len(handed) = 0 /\ last = TRUE
    BY DEF FrameInit
  <1>2. Below /\ AscendingAndUsable /\ NoneOnlyWhenExhausted
    BY <1>1 DEF Below, AscendingAndUsable, NoneOnlyWhenExhausted
  <1>3. Passed
    <2>1. SUFFICES ASSUME NEW i \in Usable, NEW f \in map[i].start .. map[i].end - 1,
                          \/ UsableOrdinal(i) < 0
                          \/ UsableOrdinal(i) = 0 /\ f < map[i].start + 0
                   PROVE  FALSE
      BY <1>1, Zenon DEF Passed
    <2>2. map[i].start \in Nat /\ map[i].end \in Nat /\ UsableOrdinal(i) \in Nat
      BY <1>1, UsableFacts
    <2>3. QED
      BY <2>1, <2>2
  <1>4. QED
    BY <1>1, <1>2, <1>3, Zenon DEF FInv

LEMMA FrameStutter ==
    ASSUME FInv, UNCHANGED frameVars
    PROVE  FInv'
  BY DEF FInv, frameVars, Below, Passed, Usable, UsableOrdinal, AscendingAndUsable,
         NoneOnlyWhenExhausted, UsableFrames

-----------------------------------------------------------------------------
(* How many frames are left.                                               *)

FramesNow == Cardinality(UsableFrames) - Len(handed)

\* The usable frames are finitely many: none is past the map's last region.
LEMMA UsableFinite ==
    ASSUME map \in Maps
    PROVE  IsFiniteSet(UsableFrames) /\ Cardinality(UsableFrames) \in Nat
  <1>1. MapOK
    BY MapIsOK
  <1>2. /\ Len(map) \in Nat
        /\ \A i \in 1 .. Len(map) : map[i].start \in Nat /\ map[i].end \in Nat
    BY <1>1, MapFacts
  <1> DEFINE m == IF Len(map) = 0 THEN 0 ELSE map[Len(map)].end
             N == 0 .. m
             F == UsableFrames
  <1>3. m \in Nat
    BY <1>2
  <1>4. ASSUME NEW i \in 1 .. Len(map)
        PROVE  map[i].end <= m
    <2>1. Len(map) # 0 /\ Len(map) \in 1 .. Len(map)
      BY <1>2
    <2>2. CASE i = Len(map)
      BY <1>2, <2>1, <2>2
    <2>3. CASE i < Len(map)
      <3>1. /\ map[i].end <= map[Len(map)].start
            /\ map[Len(map)].start <= map[Len(map)].end
        BY <1>1, <2>1, <2>3, Zenon DEF MapOK
      <3>2. QED
        BY <1>2, <2>1, <3>1
    <2>4. QED
      BY <1>2, <2>2, <2>3
  <1> HIDE DEF m
  <1>5. F \in SUBSET N
    <2>1. SUFFICES ASSUME NEW f \in UsableFrames PROVE f \in 0 .. m
      OBVIOUS
    <2>2. PICK i \in Usable : f \in map[i].start .. map[i].end - 1
      BY UsableFacts, Zenon
    <2>3. i \in 1 .. Len(map)
      BY Zenon DEF Usable
    <2>4. QED
      BY <1>2, <1>3, <1>4, <2>2, <2>3
  <1>6. IsFiniteSet(N)
    <2>1. 0 \in Int /\ m \in Int
      BY <1>3
    <2>2. QED
      BY <2>1, FS_Interval, Zenon
  <1> HIDE DEF N, F
  <1>7. IsFiniteSet(F)
    BY <1>5, <1>6, FS_Subset, Zenon
  <1>8. Cardinality(F) \in Nat
    BY <1>7, FS_CardinalityType, Zenon
  <1>9. QED
    BY <1>7, <1>8 DEF F

\* As none is handed out twice, the frames left are those not handed out.
LEMMA FramesLeftNow ==
    ASSUME FInv
    PROVE  /\ FramesNow \in Nat
           /\ (\A f \in UsableFrames : \E k \in 1 .. Len(handed) : handed[k] = f)
              => FramesNow = 0
  <1> DEFINE n == Len(handed)
             K == 1 .. n
             F == UsableFrames
  <1>1. /\ map \in Maps /\ handed \in Seq(Nat) /\ n \in Nat
        /\ \A k \in K : handed[k] \in F
        /\ \A j, k \in K : j < k => handed[j] < handed[k]
    BY LenProperties, Zenon DEF FInv, AscendingAndUsable
  <1>2. IsFiniteSet(F) /\ Cardinality(F) \in Nat
    BY <1>1, UsableFinite, Zenon
  <1>3. handed = [k \in K |-> handed[k]] /\ \A k \in K : handed[k] \in Nat
    <2>1. handed \in [1 .. Len(handed) -> Nat]
      BY <1>1, LenProperties, Zenon
    <2>2. QED
      BY <2>1, Zenon
  <1>4. \A j, k \in K : handed[j] = handed[k] => j = k
    <2>1. SUFFICES ASSUME NEW j \in K, NEW k \in K, handed[j] = handed[k], j # k
                   PROVE  FALSE
      OBVIOUS
    <2>2. j < k \/ k < j
      BY <1>1, <2>1
    <2>3. handed[j] < handed[k] \/ handed[k] < handed[j]
      BY <1>1, <2>2, Zenon
    <2>4. QED
      BY <1>3, <2>1, <2>3
  <1>5. handed \in [K -> F]
    BY <1>1, <1>3, Zenon
  <1> HIDE DEF F, K
  <1>6. handed \in Injection(K, F)
    BY <1>4, <1>5, Zenon DEF Injection, IsInjective
  <1>7. /\ Cardinality(K) <= Cardinality(F)
        /\ Cardinality(K) = Cardinality(F) <=> handed \in Surjection(K, F)
    BY <1>2, <1>6, FS_Injection, Zenon
  <1>8. Cardinality(K) = n
    <2>1. 1 \in Int /\ n \in Int
      BY <1>1
    <2>2. Cardinality(1 .. n) = IF 1 > n THEN 0 ELSE n - 1 + 1
      BY <2>1, FS_Interval, Zenon
    <2>3. QED
      BY <1>1, <2>2 DEF K
  <1>9. FramesNow \in Nat
    BY <1>1, <1>2, <1>7, <1>8 DEF FramesNow, F
  <1>10. ASSUME \A f \in F : \E k \in K : handed[k] = f
         PROVE  FramesNow = 0
    <2>1. handed \in Surjection(K, F)
      BY <1>5, <1>10, Zenon DEF Surjection
    <2>2. QED
      BY <1>1, <1>2, <1>7, <1>8, <2>1 DEF FramesNow, F
  <1>11. QED
    BY <1>9, <1>10, Zenon DEF F, K

\* next_frame answers None when no frame is left and otherwise takes one.
LEMMA FrameCounted ==
    ASSUME FInv, NextFrame
    PROVE  /\ FramesNow \in Nat /\ FramesNow' \in Nat
           /\ \/ ~ last' /\ FramesNow = 0 /\ FramesNow' = FramesNow
              \/ last' /\ FramesNow' = FramesNow - 1
  <1>1. FInv' /\ (NoneLeft \/ FrameTaken)
    BY FrameStep
  <1>2. FramesNow \in Nat
    BY FramesLeftNow
  <1>3. FramesNow' \in Nat
    <2>1. SUFFICES (FramesNow \in Nat)'
      BY Zenon
    <2>2. QED
      BY <1>1, FramesLeftNow, PTL
  <1>4. CASE NoneLeft
    BY <1>2, <1>3, <1>4, FramesLeftNow, Zenon DEF NoneLeft, FramesNow, UsableFrames
  <1>5. CASE FrameTaken
    <2>1. UsableFrames' = UsableFrames
      BY <1>5, Zenon DEF FrameTaken, UsableFrames
    <2>2. Cardinality(UsableFrames) \in Nat
      BY UsableFinite DEF FInv
    <2>3. QED
      BY <1>2, <1>3, <1>5, <2>1, <2>2 DEF FrameTaken, FramesNow
  <1>6. QED
    BY <1>1, <1>4, <1>5, Zenon

-----------------------------------------------------------------------------
\* "frames are handed out in ascending address order": for every memory map
\* next_frame hands out no frame twice, and it returns None only when all
\* have been handed out.
THEOREM FramesAscendAndRunOut ==
    FrameSpec => [](AscendingAndUsable /\ NoneOnlyWhenExhausted)
  <1>1. FrameInit => FInv
    BY FrameInitInv, Zenon
  <1>2. FInv /\ [NextFrame]_frameVars => FInv'
    BY FrameStep, FrameStutter
  <1>3. FInv => AscendingAndUsable /\ NoneOnlyWhenExhausted
    BY Zenon DEF FInv
  <1>4. QED
    BY <1>1, <1>2, <1>3, PTL DEF FrameSpec

-----------------------------------------------------------------------------
(* The page tables.                                                        *)

\* What a step of the boot thread does to the frames: it takes one, finds
\* none, or leaves them alone.
LEMMA PagingFrames ==
    ASSUME FInv, [PagingNext]_pagingVars
    PROVE  FInv'
  <1>1. CASE AllocateLeaf \/ CreateTable
    BY <1>1, FrameStep DEF AllocateLeaf, CreateTable
  <1>2. CASE UNCHANGED frameVars
    BY <1>2, FrameStutter
  <1>3. QED
    BY <1>1, <1>2, Zenon DEF PagingNext, SetEntry, BeginCreate, Stopped, pagingVars

\* The boot thread takes frames only by next_frame, so what holds of the frame
\* allocator holds of it whatever the boot thread does with them.
THEOREM FramesOfTheBootThread ==
    PagingSpec => [](AscendingAndUsable /\ NoneOnlyWhenExhausted)
  <1>1. PagingInit => FInv
    BY FrameInitInv, Zenon DEF PagingInit
  <1>2. FInv /\ [PagingNext]_pagingVars => FInv'
    BY PagingFrames, Zenon
  <1>3. FInv => AscendingAndUsable /\ NoneOnlyWhenExhausted
    BY DEF FInv
  <1>4. QED
    BY <1>1, <1>2, <1>3, PTL DEF PagingSpec

\* The pages are mapped in order.
PageInv ==
    /\ at \in {"low", "heap", "user", "up", "panic"}
    /\ index \in Nat
    /\ Mapping => index \in 1 .. PAGES[at]
    /\ depth \in [{"low", "heap", "user"} -> 0 .. TABLES]
    /\ heap_ready \in BOOLEAN
    /\ at = "low" => entries = {}
    /\ at = "heap" => \A i \in 1 .. index - 1 : Mapped(<<"heap", i>>)
    /\ HeapReadyIsMapped

\* A new entry maps its page and no other.
LEMMA OnePageMore ==
    ASSUME NEW STATE p, entries' = entries \cup {[page |-> p, frame |-> leaf]}
    PROVE  \A q : Mapped(q)' <=> (Mapped(q) \/ q = p)
  <1> DEFINE new == [page |-> p, frame |-> leaf]
  <1>1. new.page = p /\ new \in entries'
    BY Zenon
  <1>2. entries \subseteq entries' /\ \A e \in entries' : e \in entries \/ e = new
    BY Zenon
  <1> HIDE DEF new
  <1>3. QED
    BY <1>1, <1>2, Zenon DEF Mapped

LEMMA SamePages ==
    ASSUME entries' = entries
    PROVE  \A q : Mapped(q)' <=> Mapped(q)
  BY Zenon DEF Mapped

\* A failure changes nothing but what is done next.
LEMMA FailPages ==
    ASSUME PageInv, Mapping, Fail
    PROVE  PageInv'
  <1>1. \A q : Mapped(q)' <=> Mapped(q)
    BY SamePages, Zenon DEF Fail
  <1>2. HeapReadyIsMapped'
    BY <1>1, Zenon DEF Fail, PageInv, HeapReadyIsMapped, Mapping
  <1>3. QED
    BY <1>1, <1>2, Zenon DEF Fail, PageInv, Mapping

LEMMA PageStep ==
    ASSUME PageInv, [PagingNext]_pagingVars
    PROVE  PageInv'
  <1>1. CASE AllocateLeaf
    <2>1. CASE Fail
      BY <1>1, <2>1, FailPages, Zenon DEF AllocateLeaf
    <2>2. CASE UNCHANGED <<at, index, depth, entries, heap_ready>>
      BY <2>2, SamePages, Zenon DEF PageInv, HeapReadyIsMapped, Mapping
    <2>3. QED
      BY <1>1, <2>1, <2>2, Zenon DEF AllocateLeaf
  <1>2. CASE CreateTable
    <2>1. CASE Fail
      BY <1>2, <2>1, FailPages, Zenon DEF CreateTable
    <2>2. CASE /\ depth' = [depth EXCEPT ![at] = @ + 1]
               /\ UNCHANGED <<at, index, entries, heap_ready>>
      <3>1. depth' \in [{"low", "heap", "user"} -> 0 .. TABLES]
        BY <1>2, <2>2 DEF PageInv, CreateTable, Mapping, TABLES
      <3>2. QED
        BY <2>2, <3>1, SamePages, Zenon DEF PageInv, HeapReadyIsMapped, Mapping
    <2>3. QED
      BY <1>2, <2>1, <2>2, Zenon DEF CreateTable
  <1>3. CASE SetEntry
    <2>1. CASE Fail
      BY <1>3, <2>1, FailPages, Zenon DEF SetEntry
    <2>2. CASE /\ entries' = entries \cup {[page |-> <<at, index>>, frame |-> leaf]}
               /\ PageDone /\ depth' = depth
      <3>1. \A q : Mapped(q)' <=> (Mapped(q) \/ q = <<at, index>>)
        BY <2>2, OnePageMore, Zenon
      <3>2. /\ at \in {"low", "heap", "user"} /\ index \in 1 .. PAGES[at]
            /\ PAGES[at] \in Nat \ {0} /\ LastPage(at) = PAGES[at]
            /\ PAGES["low"] = 1 /\ PAGES["heap"] = HEAP_PAGES /\ HEAP_PAGES \in Nat \ {0}
        BY <1>3, PagingAssumption DEF SetEntry, PageInv, Mapping, PAGES, LastPage
      <3>3. CASE index < LastPage(at)
        <4>1. /\ index' = index + 1 /\ at' = at /\ heap_ready' = heap_ready
              /\ index' \in 1 .. PAGES[at]
          BY <2>2, <3>2, <3>3 DEF PageDone
        <4>2. at # "low"
          BY <3>2, <3>3
        <4>3. at = "heap" => \A i \in 1 .. index' - 1 : Mapped(<<"heap", i>>)'
          <5>1. SUFFICES ASSUME at = "heap", NEW i \in 1 .. index' - 1
                         PROVE  Mapped(<<"heap", i>>)'
            OBVIOUS
          <5>2. i \in 1 .. index - 1 \/ i = index
            BY <3>2, <4>1
          <5>3. QED
            BY <3>1, <5>1, <5>2, Zenon DEF PageInv
        <4>4. HeapReadyIsMapped'
          BY <3>1, <4>1, Zenon DEF PageInv, HeapReadyIsMapped
        <4>5. QED
          BY <2>2, <3>2, <4>1, <4>2, <4>3, <4>4 DEF PageInv, Mapping
      <3>4. CASE ~ (index < LastPage(at))
        <4>1. /\ index' = 1 /\ index = PAGES[at]
              /\ at' = IF at = "low" THEN "heap" ELSE "up"
              /\ heap_ready' = (heap_ready \/ at = "heap")
          BY <2>2, <3>2, <3>4 DEF PageDone
        <4>2. at = "heap" => \A i \in 1 .. HEAP_PAGES : Mapped(<<"heap", i>>)'
          <5>1. SUFFICES ASSUME at = "heap", NEW i \in 1 .. HEAP_PAGES
                         PROVE  Mapped(<<"heap", i>>)'
            OBVIOUS
          <5>2. i \in 1 .. index - 1 \/ i = index
            BY <3>2, <4>1, <5>1
          <5>3. QED
            BY <3>1, <5>1, <5>2, Zenon DEF PageInv
        <4>3. heap_ready' \in BOOLEAN /\ (heap_ready' => heap_ready \/ at = "heap")
              /\ (heap_ready \/ at = "heap" => heap_ready')
          BY <4>1, Zenon
        <4>4. at # "low" => heap_ready'
          BY <3>2, <4>3, Zenon DEF PageInv, HeapReadyIsMapped
        <4>5. HeapReadyIsMapped'
          BY <3>1, <4>1, <4>2, <4>3, <4>4, Zenon DEF PageInv, HeapReadyIsMapped
        <4>6. 1 \in 1 .. PAGES["heap"] /\ \A i \in 1 .. 1 - 1 : FALSE
          BY <3>2
        <4>7. at' \in {"heap", "up"} /\ index' = 1 /\ depth' = depth
          BY <2>2, <4>1, Zenon
        <4>8. QED
          BY <4>3, <4>5, <4>6, <4>7, Zenon DEF PageInv, Mapping
      <3>5. QED
        BY <3>3, <3>4, Zenon
    <2>3. QED
      BY <1>3, <2>1, <2>2, Zenon DEF SetEntry
  <1>4. CASE BeginCreate
    <2>1. /\ at = "up" /\ at' = "user" /\ index' = 1
          /\ UNCHANGED <<depth, entries, heap_ready>> /\ 1 \in 1 .. PAGES["user"]
      BY <1>4 DEF BeginCreate, PAGES
    <2>2. QED
      BY <2>1, SamePages, Zenon DEF PageInv, HeapReadyIsMapped, Mapping
  <1>5. CASE UNCHANGED pagingVars
    BY <1>5, SamePages, Zenon DEF PageInv, HeapReadyIsMapped, Mapping, pagingVars, pageVars
  <1>6. QED
    BY <1>1, <1>2, <1>3, <1>4, <1>5, Zenon DEF PagingNext, Stopped

LEMMA PageInitInv ==
    ASSUME PagingInit
    PROVE  PageInv
  <1>1. /\ at \in {"low", "heap"} /\ index = 1 /\ entries = {} /\ heap_ready = FALSE
        /\ depth \in [{"low", "heap", "user"} -> 0 .. TABLES]
        /\ 1 \in 1 .. PAGES["low"] /\ 1 \in 1 .. PAGES["heap"]
        /\ \A i \in 1 .. 1 - 1 : FALSE
    BY PagingAssumption DEF PagingInit, PAGES
  <1>2. QED
    BY <1>1, Zenon DEF PageInv, HeapReadyIsMapped, Mapping

\* Whatever the memory map and the size of the heap, ALLOCATOR.init runs only
\* on a heap that is mapped to its last page, and nothing runs past boot
\* without it.
THEOREM HeapIsMappedWhenReady == PagingSpec => []HeapReadyIsMapped
  <1>1. PagingInit => PageInv
    BY PageInitInv
  <1>2. PageInv /\ [PagingNext]_pagingVars => PageInv'
    BY PageStep
  <1>3. PageInv => HeapReadyIsMapped
    BY DEF PageInv
  <1>4. QED
    BY <1>1, <1>2, <1>3, PTL DEF PagingSpec

-----------------------------------------------------------------------------
(* What the frames are used for.                                           *)

Handed == {handed[k] : k \in 1 .. Len(handed)}

\* Every frame in use was handed out, but for the VGA buffer's, which is the
\* leaf of the example page; each has one use.
ServeInv ==
    /\ IF at = "low" THEN leaf = Vga ELSE leaf \in Handed \cup {NoFrame}
    /\ tableFrames \subseteq Handed
    /\ \A e \in entries : e.frame \in Handed \cup {Vga}
    /\ \A d, e \in entries : d.frame = e.frame \/ d.page = e.page => d = e
    /\ \A e \in entries : e.frame \notin tableFrames /\ e.frame # leaf
    /\ leaf \notin tableFrames

\* The frames handed out are numbers, and not the VGA buffer's.
LEMMA HandedFacts ==
    ASSUME FInv
    PROVE  /\ Handed \subseteq Nat /\ Vga \notin Handed /\ NoFrame \notin Handed
           /\ Vga # NoFrame
  <1>1. \A k \in 1 .. Len(handed) : handed[k] \in UsableFrames
    BY Zenon DEF FInv, AscendingAndUsable
  <1>2. \A f \in UsableFrames : f \in Nat /\ f # Vga
    <2>1. SUFFICES ASSUME NEW f \in UsableFrames PROVE f \in Nat /\ f # Vga
      BY Zenon
    <2>2. PICK i \in Usable : f \in map[i].start .. map[i].end - 1
      BY UsableFacts, Zenon DEF FInv
    <2>3. map[i].start \in Nat /\ map[i].end \in Nat
      BY UsableFacts, Zenon DEF FInv
    <2>4. Vga \notin map[i].start .. map[i].end - 1
      BY PagingAssumption, Zenon DEF FInv, Usable
    <2>5. QED
      BY <2>2, <2>3, <2>4
  <1>3. Handed \subseteq Nat /\ Vga \notin Handed
    BY <1>1, <1>2, Zenon DEF Handed
  <1>4. NoFrame \notin Nat /\ Vga \in Nat
    BY PagingAssumption DEF NoFrame
  <1>5. QED
    BY <1>3, <1>4, Zenon

LEMMA ServeIsNoFrameServesTwice ==
    ASSUME ServeInv
    PROVE  NoFrameServesTwice
  <1>1. ASSUME NEW f \in tableFrames \cup {leaf} \cup {e.frame : e \in entries}
        PROVE  f \in {NoFrame, Vga} \/ \E k \in 1 .. Len(handed) : handed[k] = f
    <2>1. f \in Handed \cup {NoFrame, Vga}
      BY DEF ServeInv
    <2>2. QED
      BY <2>1, Zenon DEF Handed
  <1>2. QED
    BY <1>1, Zenon DEF ServeInv, NoFrameServesTwice

\* A frame just taken is in no use yet.
LEMMA FreshFrame ==
    ASSUME FInv, FInv', FrameTaken
    PROVE  LET g == handed'[Len(handed')]
           IN  Handed' = Handed \cup {g} /\ g \notin Handed /\ g # Vga /\ g # NoFrame
  <1> DEFINE g == handed'[Len(handed')]
             n == Len(handed)
  <1>1. /\ n \in Nat /\ Len(handed') = n + 1
        /\ \A k \in 1 .. n : handed'[k] = handed[k] /\ handed[k] < g
    BY DEF FrameTaken
  <1>2. \A k \in 1 .. n + 1 : k \in 1 .. n \/ k = n + 1
    BY <1>1
  <1>3. 1 .. n \subseteq 1 .. n + 1 /\ n + 1 \in 1 .. n + 1
    BY <1>1
  <1>4. Handed' = Handed \cup {g}
    BY <1>1, <1>2, <1>3, Zenon DEF Handed
  <1>5. g \in Nat /\ g # Vga /\ g # NoFrame
    <2>1. Handed' \subseteq Nat /\ Vga \notin Handed' /\ NoFrame \notin Handed'
      <3>1. SUFFICES (/\ Handed \subseteq Nat /\ Vga \notin Handed /\ NoFrame \notin Handed)'
        BY DEF NoFrame
      <3>2. QED
        BY HandedFacts, PTL
    <2>2. QED
      BY <1>4, <2>1, Zenon
  <1>6. g \notin Handed
    <2>1. Handed \subseteq Nat
      BY HandedFacts, Zenon
    <2> HIDE DEF g
    <2>2. \A f \in Handed : f < g
      BY <1>1, Zenon DEF Handed
    <2>3. QED
      BY <1>5, <2>1, <2>2
  <1>7. QED
    BY <1>4, <1>5, <1>6, Zenon

\* After a failure the frames taken stay out of use.
LEMMA FailServes ==
    ASSUME FInv, ServeInv, PageInv, Fail, Handed' = Handed
    PROVE  ServeInv'
  <1>1. /\ leaf' = NoFrame /\ at' # "low" /\ UNCHANGED <<tableFrames, entries>>
    BY Zenon DEF Fail
  <1>2. NoFrame \notin Handed /\ Vga # NoFrame
    BY HandedFacts, Zenon
  <1>3. QED
    BY <1>1, <1>2, Zenon DEF ServeInv

LEMMA ServeStep ==
    ASSUME FInv, FInv', PageInv, ServeInv, [PagingNext]_pagingVars
    PROVE  ServeInv'
  <1>1. /\ Handed \subseteq Nat /\ Vga \notin Handed /\ NoFrame \notin Handed
        /\ Vga # NoFrame
    BY HandedFacts, Zenon
  <1> DEFINE g == handed'[Len(handed')]
  <1>2. ASSUME NextFrame
        PROVE  \/ ~ last' /\ Handed' = Handed
               \/ /\ last' /\ Handed' = Handed \cup {g}
                  /\ g \notin Handed /\ g # Vga /\ g # NoFrame
    <2>1. CASE NoneLeft
      BY <2>1, Zenon DEF NoneLeft, Handed
    <2>2. CASE FrameTaken
      BY <2>2, FreshFrame, Zenon DEF FrameTaken
    <2>3. QED
      BY <1>2, <2>1, <2>2, FrameStep, Zenon
  <1> HIDE DEF g
  <1>3. CASE AllocateLeaf
    <2>1. CASE ~ last' /\ Handed' = Handed
      BY <1>3, <2>1, FailServes, Zenon DEF AllocateLeaf
    <2>2. CASE /\ last' /\ Handed' = Handed \cup {g}
               /\ g \notin Handed /\ g # Vga /\ g # NoFrame
      <3>1. /\ leaf' = g /\ leaf = NoFrame /\ UNCHANGED <<at, tableFrames, entries>>
        BY <1>3, <2>2, Zenon DEF AllocateLeaf, g
      <3>2. at # "low"
        BY <1>1, <3>1, Zenon DEF ServeInv
      <3>3. QED
        BY <2>2, <3>1, <3>2, Zenon DEF ServeInv
    <2>3. QED
      BY <1>2, <1>3, <2>1, <2>2, Zenon DEF AllocateLeaf
  <1>4. CASE CreateTable
    <2>1. CASE ~ last' /\ Handed' = Handed
      BY <1>4, <2>1, FailServes, Zenon DEF CreateTable
    <2>2. CASE /\ last' /\ Handed' = Handed \cup {g}
               /\ g \notin Handed /\ g # Vga /\ g # NoFrame
      <3>1. /\ tableFrames' = tableFrames \cup {g} /\ UNCHANGED <<at, leaf, entries>>
        BY <1>4, <2>2, Zenon DEF CreateTable, g
      <3>2. g # leaf
        BY <2>2, Zenon DEF ServeInv
      <3>3. QED
        BY <2>2, <3>1, <3>2, Zenon DEF ServeInv
    <2>3. QED
      BY <1>2, <1>4, <2>1, <2>2, Zenon DEF CreateTable
  <1>5. CASE SetEntry
    <2>1. Handed' = Handed
      BY <1>5, Zenon DEF SetEntry, frameVars, Handed
    <2>2. CASE Fail
      BY <2>1, <2>2, FailServes, Zenon
    <2>3. CASE ~ Fail
      <3> DEFINE new == [page |-> <<at, index>>, frame |-> leaf]
      <3>1. /\ entries' = entries \cup {new} /\ leaf' = NoFrame /\ at' # "low"
            /\ tableFrames' = tableFrames /\ leaf # NoFrame
            /\ \A e \in entries : e.page # <<at, index>>
        <4>1. /\ ~ Mapped(<<at, index>>) /\ PageDone /\ leaf # NoFrame
              /\ entries' = entries \cup {new} /\ tableFrames' = tableFrames
          BY <1>5, <2>3 DEF SetEntry
        <4>2. at = "low" => at' = "heap"
          <5>1. SUFFICES ASSUME at = "low" PROVE at' = "heap"
            OBVIOUS
          <5>2. index \in 1 .. 1 /\ LastPage(at) = 1
            BY <5>1 DEF PageInv, Mapping, LastPage, PAGES
          <5>3. ~ (index < LastPage(at))
            BY <5>2
          <5>4. QED
            BY <4>1, <5>1, <5>3 DEF PageDone
        <4>3. at # "low" => at' # "low"
          BY <4>1, Zenon DEF PageDone
        <4>4. QED
          BY <4>1, <4>2, <4>3 DEF PageDone, Mapped
      <3>2. new.page = <<at, index>> /\ new.frame = leaf
        BY Zenon
      <3>3. leaf \in Handed \cup {Vga}
        BY <3>1, Zenon DEF ServeInv
      <3> HIDE DEF new
      <3>4. \A e \in entries' : e \in entries \/ e = new
        BY <3>1, Zenon
      <3>5. \A e \in entries' : e.frame \in Handed \cup {Vga} /\ e.frame \notin tableFrames
        BY <3>2, <3>3, <3>4, Zenon DEF ServeInv
      <3>6. \A e \in entries : e.frame # new.frame /\ e.page # new.page
        BY <3>1, <3>2, Zenon DEF ServeInv
      <3>7. \A d, e \in entries' : d.frame = e.frame \/ d.page = e.page => d = e
        BY <3>4, <3>6, Zenon DEF ServeInv
      <3>8. QED
        BY <1>1, <2>1, <3>1, <3>5, <3>7, Zenon DEF ServeInv
    <2>4. QED
      BY <2>2, <2>3, Zenon
  <1>6. CASE BeginCreate
    <2>1. /\ Handed' = Handed /\ leaf' = NoFrame /\ at' = "user"
          /\ UNCHANGED <<tableFrames, entries>>
      BY <1>6, Zenon DEF BeginCreate, LeafFor, frameVars, Handed
    <2>2. QED
      BY <1>1, <2>1, Zenon DEF ServeInv
  <1>7. CASE UNCHANGED pagingVars
    <2>1. Handed' = Handed /\ UNCHANGED <<at, leaf, tableFrames, entries>>
      BY <1>7 DEF pagingVars, pageVars, frameVars, Handed
    <2>2. QED
      BY <2>1, Zenon DEF ServeInv
  <1>8. QED
    BY <1>3, <1>4, <1>5, <1>6, <1>7, Zenon DEF PagingNext, Stopped

\* Whatever the memory map and however the frames run out, a frame behind a
\* page is behind no other page and is never a page table: map_to never maps
\* two pages to one frame and never writes a table into a page's data.
THEOREM FramesServeOnce == PagingSpec => []NoFrameServesTwice
  <1> DEFINE Inv == FInv /\ PageInv /\ ServeInv
  <1>1. PagingInit => Inv
    <2>1. SUFFICES ASSUME PagingInit PROVE Inv
      OBVIOUS
    <2>2. FInv /\ PageInv
      BY <2>1, FrameInitInv, PageInitInv, Zenon DEF PagingInit
    <2>3. /\ at \in {"low", "heap"} /\ leaf = LeafFor(at)
          /\ tableFrames = {} /\ entries = {}
      BY <2>1, Zenon DEF PagingInit
    <2>4. ServeInv
      BY <2>3, Zenon DEF ServeInv, LeafFor
    <2>5. QED
      BY <2>2, <2>4, Zenon
  <1>2. Inv /\ [PagingNext]_pagingVars => Inv'
    BY PagingFrames, PageStep, ServeStep, Zenon
  <1>3. Inv => NoFrameServesTwice
    BY ServeIsNoFrameServesTwice, Zenon
  <1>4. QED
    BY <1>1, <1>2, <1>3, PTL DEF PagingSpec

-----------------------------------------------------------------------------
(* create_process_from_program, frame by frame and counted.                *)

TablesNow == depth["user"]
CodeNow == Mapped(<<"user", 1>>)
StackNow == Mapped(<<"user", 2>>)

\* Where a call stands that began in the state before.
Underway ==
    \/ /\ index = 1 /\ leaf = NoFrame
       /\ FramesNow = before.frames /\ TablesNow = before.tables
       /\ (CodeNow <=> before.code) /\ (StackNow <=> before.stack)
    \/ /\ index = 1 /\ leaf # NoFrame
       /\ TablesNow >= before.tables
       /\ FramesNow = before.frames - 1 - (TablesNow - before.tables)
       /\ (CodeNow <=> before.code) /\ (StackNow <=> before.stack)
    \/ /\ index = 2 /\ TablesNow = TABLES
       /\ ~ before.code /\ CodeNow /\ ~ StackNow
       /\ FramesNow = before.frames - (IF leaf = NoFrame THEN 1 ELSE 2)
                                    - (TABLES - before.tables)

\* What AfterCreate says of a call that has ended.
Counted ==
    /\ FramesNow = FramesLeft(before) /\ TablesNow = TablesLeft(before)
    /\ CodeNow <=> (before.code \/ CodeMaps(before))
    /\ StackNow <=> (before.stack \/ StackMaps(before))

\* The states a call can begin in: the stack page is mapped after the code
\* page, and with the code page come its tables.
Began ==
    /\ before \in [frames : Nat, tables : 0 .. TABLES, code : BOOLEAN, stack : BOOLEAN]
    /\ before.code => before.tables = TABLES
    /\ before.stack => before.code

CountInv ==
    /\ Began
    /\ TablesNow \in 0 .. TABLES
    /\ CodeNow => TablesNow = TABLES
    /\ StackNow => CodeNow
    /\ creates \in Nat
    /\ at \in {"low", "heap"} => creates = 0
    /\ at = "user" => Underway
    /\ at = "up" /\ creates > 0 => Counted

\* AfterCreate case by case: no frame; the code page mapped already; too few
\* frames for its tables, for the stack page, or enough.
LEMMA AfterCreateCases ==
    ASSUME NEW m \in [frames : Nat, tables : 0 .. TABLES, code : BOOLEAN, stack : BOOLEAN]
    PROVE  /\ m.frames = 0 =>
                 /\ FramesLeft(m) = 0 /\ TablesLeft(m) = m.tables
                 /\ ~ CodeMaps(m) /\ ~ StackMaps(m)
           /\ m.frames > 0 /\ m.code =>
                 /\ FramesLeft(m) = m.frames - 1 /\ TablesLeft(m) = m.tables
                 /\ ~ CodeMaps(m) /\ ~ StackMaps(m)
           /\ m.frames > 0 /\ ~ m.code /\ m.frames < 1 + TABLES - m.tables =>
                 /\ FramesLeft(m) = 0 /\ TablesLeft(m) = m.tables + m.frames - 1
                 /\ ~ CodeMaps(m) /\ ~ StackMaps(m)
           /\ ~ m.code /\ m.frames = 1 + TABLES - m.tables =>
                 /\ FramesLeft(m) = 0 /\ TablesLeft(m) = TABLES
                 /\ CodeMaps(m) /\ ~ StackMaps(m)
           /\ ~ m.code /\ m.frames >= 2 + TABLES - m.tables =>
                 /\ FramesLeft(m) = m.frames - 2 - (TABLES - m.tables)
                 /\ TablesLeft(m) = TABLES /\ CodeMaps(m) /\ StackMaps(m)
  <1>1. /\ m.frames \in Nat /\ m.tables \in 0 .. 3
        /\ m.code \in BOOLEAN /\ m.stack \in BOOLEAN /\ TABLES = 3
    BY Zenon DEF TABLES
  <1>2. CodeMaps(m) <=> ~ m.code /\ m.frames >= 4 - m.tables
    BY <1>1 DEF CodeMaps
  <1>3. StackMaps(m) <=> ~ m.code /\ m.frames >= 5 - m.tables
    BY <1>1, <1>2 DEF StackMaps
  <1>4. QED
    BY <1>1, <1>2, <1>3 DEF FramesLeft, TablesLeft

LEMMA CountedIsAfterCreate ==
    ASSUME Counted
    PROVE  UserPagesNow = AfterCreate(before)
  <1>1. /\ CodeNow = (before.code \/ CodeMaps(before))
        /\ StackNow = (before.stack \/ StackMaps(before))
    BY Zenon DEF Counted, CodeNow, StackNow, Mapped
  <1>2. QED
    BY <1>1, Zenon
       DEF Counted, UserPagesNow, AfterCreate, FramesNow, TablesNow, CodeNow, StackNow

\* Steps that leave the frames, the user pages or both alone.
LEMMA SameFrames ==
    ASSUME UNCHANGED frameVars
    PROVE  FramesNow' = FramesNow
  BY DEF FramesNow, UsableFrames, frameVars

LEMMA SameUserPages ==
    ASSUME entries' = entries
    PROVE  (CodeNow' <=> CodeNow) /\ (StackNow' <=> StackNow)
  BY Zenon DEF CodeNow, StackNow, Mapped

\* A call that fails has ended where AfterCreate says.
LEMMA FailCounted ==
    ASSUME CountInv, PageInv, Mapping, Fail, FramesNow' = FramesNow,
           at = "user" => Counted
    PROVE  CountInv'
  <1>1. /\ TablesNow' = TablesNow /\ UNCHANGED <<before, creates>>
        /\ (CodeNow' <=> CodeNow) /\ (StackNow' <=> StackNow)
        /\ at' = IF at = "user" THEN "up" ELSE "panic"
    BY SameUserPages, Zenon DEF Fail, TablesNow
  <1>2. at = "user" => Counted'
    BY <1>1, Zenon DEF Counted
  <1>3. QED
    BY <1>1, <1>2, Zenon DEF CountInv, Began

\* The types of what Underway counts with.
LEMMA CountTypes ==
    ASSUME CountInv, FInv
    PROVE  /\ FramesNow \in Nat /\ TablesNow \in 0 .. 3 /\ TABLES = 3
           /\ before.frames \in Nat /\ before.tables \in 0 .. 3
           /\ before \in [frames : Nat, tables : 0 .. TABLES, code : BOOLEAN, stack : BOOLEAN]
           /\ before.code => before.tables = 3
           /\ before.stack => before.code
  BY FramesLeftNow, Zenon DEF CountInv, Began, TABLES

LEMMA AllocateLeafCounted ==
    ASSUME FInv, FInv', PageInv, CountInv, AllocateLeaf
    PROVE  CountInv'
  <1>1. /\ FramesNow \in Nat /\ TablesNow \in 0 .. 3 /\ TABLES = 3
        /\ before.frames \in Nat /\ before.tables \in 0 .. 3
        /\ before \in [frames : Nat, tables : 0 .. TABLES, code : BOOLEAN, stack : BOOLEAN]
        /\ before.code => before.tables = 3
        /\ before.stack => before.code
    BY CountTypes, Zenon
  <1>2. /\ Mapping /\ leaf = NoFrame /\ NextFrame
        /\ at = "user" => Underway
    BY Zenon DEF AllocateLeaf, CountInv
  <1>3. CASE ~ last' /\ FramesNow = 0 /\ FramesNow' = FramesNow
    <2>1. at = "user" => Counted
      <3>1. SUFFICES ASSUME at = "user" PROVE Counted
        BY Zenon
      <3>2. CASE before.frames = 0 /\ TablesNow = before.tables
                 /\ (CodeNow <=> before.code) /\ (StackNow <=> before.stack)
        <4>1. /\ FramesLeft(before) = 0 /\ TablesLeft(before) = before.tables
              /\ ~ CodeMaps(before) /\ ~ StackMaps(before)
          BY <1>1, <3>2, AfterCreateCases, Zenon
        <4>2. QED
          BY <1>3, <3>2, <4>1, Zenon DEF Counted
      <3>3. CASE /\ TablesNow = TABLES /\ ~ before.code /\ CodeNow /\ ~ StackNow
                 /\ before.frames = 1 + TABLES - before.tables
        <4>1. /\ FramesLeft(before) = 0 /\ TablesLeft(before) = TABLES
              /\ CodeMaps(before) /\ ~ StackMaps(before)
          BY <1>1, <3>3, AfterCreateCases, Zenon
        <4>2. QED
          BY <1>1, <1>3, <3>3, <4>1, Zenon DEF Counted
      <3>4. QED
        BY <1>1, <1>2, <1>3, <3>1, <3>2, <3>3 DEF Underway
    <2>2. Fail
      BY <1>3, Zenon DEF AllocateLeaf
    <2>3. QED
      BY <1>2, <1>3, <2>1, <2>2, FailCounted, Zenon
  <1>4. CASE last' /\ FramesNow' = FramesNow - 1
    <2>1. /\ leaf' = handed'[Len(handed')] /\ TablesNow' = TablesNow
          /\ UNCHANGED <<at, index, entries, creates, before>>
          /\ (CodeNow' <=> CodeNow) /\ (StackNow' <=> StackNow)
      BY <1>4, SameUserPages, Zenon DEF AllocateLeaf, TablesNow
    <2>2. leaf' # NoFrame
      <3>1. FrameTaken
        BY <1>2, <1>4, FrameStep, Zenon DEF NoneLeft
      <3>2. QED
        BY <2>1, <3>1, FreshFrame, Zenon
    <2>3. at = "user" => Underway'
      BY <1>1, <1>2, <1>4, <2>1, <2>2 DEF Underway, NoFrame
    <2>4. at # "up"
      BY <1>2 DEF Mapping
    <2>5. QED
      BY <2>1, <2>3, <2>4, Zenon DEF CountInv, Began
  <1>5. QED
    BY <1>2, <1>3, <1>4, FrameCounted, Zenon

LEMMA CreateTableCounted ==
    ASSUME FInv, FInv', PageInv, CountInv, CreateTable
    PROVE  CountInv'
  <1>1. /\ FramesNow \in Nat /\ TablesNow \in 0 .. 3 /\ TABLES = 3
        /\ before.frames \in Nat /\ before.tables \in 0 .. 3
        /\ before \in [frames : Nat, tables : 0 .. TABLES, code : BOOLEAN, stack : BOOLEAN]
        /\ before.code => before.tables = 3
        /\ before.stack => before.code
    BY CountTypes
  <1>2. /\ Mapping /\ leaf # NoFrame /\ NextFrame
        /\ at = "user" => Underway /\ TablesNow < 3
    BY <1>1 DEF CreateTable, CountInv, TablesNow
  <1>3. at = "user" =>
            /\ index = 1 /\ ~ before.code /\ ~ before.stack /\ ~ CodeNow /\ ~ StackNow
            /\ TablesNow >= before.tables
            /\ FramesNow = before.frames - 1 - (TablesNow - before.tables)
    BY <1>1, <1>2 DEF Underway
  <1>4. CASE ~ last' /\ FramesNow = 0 /\ FramesNow' = FramesNow
    <2>1. at = "user" => Counted
      <3>1. SUFFICES ASSUME at = "user" PROVE Counted
        OBVIOUS
      <3>2. /\ before.frames > 0 /\ before.frames < 1 + TABLES - before.tables
            /\ TablesNow = before.tables + before.frames - 1
        BY <1>1, <1>2, <1>3, <1>4, <3>1
      <3>3. /\ FramesLeft(before) = 0
            /\ TablesLeft(before) = before.tables + before.frames - 1
            /\ ~ CodeMaps(before) /\ ~ StackMaps(before)
        BY <1>1, <1>3, <3>1, <3>2, AfterCreateCases, Zenon
      <3>4. QED
        BY <1>3, <1>4, <3>1, <3>2, <3>3, Zenon DEF Counted
    <2>2. Fail
      BY <1>4 DEF CreateTable
    <2>3. QED
      BY <1>2, <1>4, <2>1, <2>2, FailCounted
  <1>5. CASE last' /\ FramesNow' = FramesNow - 1
    <2>1. /\ depth' = [depth EXCEPT ![at] = @ + 1]
          /\ UNCHANGED <<at, index, leaf, entries, creates, before>>
          /\ (CodeNow' <=> CodeNow) /\ (StackNow' <=> StackNow)
      BY <1>5, SameUserPages, Zenon DEF CreateTable
    <2>2. TablesNow' = IF at = "user" THEN TablesNow + 1 ELSE TablesNow
      BY <2>1, Zenon DEF PageInv, TablesNow
    <2>3. at = "user" => Underway'
      BY <1>1, <1>2, <1>3, <1>5, <2>1, <2>2 DEF Underway
    <2>4. at # "up"
      BY <1>2, Zenon DEF Mapping
    <2>5. TablesNow' \in 0 .. 3
      BY <1>1, <1>2, <2>2
    <2>6. CodeNow' => TablesNow' = TABLES
      BY <1>3, <2>1, <2>2, Zenon DEF CountInv
    <2>7. QED
      BY <1>1, <2>1, <2>3, <2>4, <2>5, <2>6, Zenon DEF CountInv, Began
  <1>6. QED
    BY <1>2, <1>4, <1>5, FrameCounted

LEMMA SetEntryCounted ==
    ASSUME FInv, PageInv, CountInv, SetEntry
    PROVE  CountInv'
  <1>1. /\ FramesNow \in Nat /\ TablesNow \in 0 .. 3 /\ TABLES = 3
        /\ before.frames \in Nat /\ before.tables \in 0 .. 3
        /\ before \in [frames : Nat, tables : 0 .. TABLES, code : BOOLEAN, stack : BOOLEAN]
        /\ before.code => before.tables = 3
        /\ before.stack => before.code
    BY CountTypes, Zenon
  <1>2. /\ Mapping /\ leaf # NoFrame /\ FramesNow' = FramesNow
        /\ at = "user" => Underway /\ TablesNow = 3
    BY <1>1, SameFrames, Zenon DEF SetEntry, CountInv, TablesNow
  <1>3. CASE Mapped(<<at, index>>)
    <2>1. at = "user" => Counted
      <3>1. SUFFICES ASSUME at = "user" PROVE Counted
        BY Zenon
      <3>2. /\ index = 1 /\ before.code /\ before.tables = 3 /\ before.frames > 0
            /\ FramesNow = before.frames - 1
            /\ CodeNow /\ (StackNow <=> before.stack)
        BY <1>1, <1>2, <1>3, <3>1 DEF Underway, CodeNow, StackNow
      <3>3. /\ FramesLeft(before) = before.frames - 1 /\ TablesLeft(before) = before.tables
            /\ ~ CodeMaps(before) /\ ~ StackMaps(before)
        BY <1>1, <3>2, AfterCreateCases, Zenon
      <3>4. QED
        BY <1>2, <3>1, <3>2, <3>3, Zenon DEF Counted
    <2>2. Fail
      BY <1>3, Zenon DEF SetEntry
    <2>3. QED
      BY <1>2, <2>1, <2>2, FailCounted, Zenon
  <1>4. CASE ~ Mapped(<<at, index>>)
    <2>1. /\ entries' = entries \cup {[page |-> <<at, index>>, frame |-> leaf]}
          /\ PageDone /\ TablesNow' = TablesNow /\ UNCHANGED <<creates, before>>
      BY <1>4 DEF SetEntry, TablesNow
    <2>2. \A q : Mapped(q)' <=> (Mapped(q) \/ q = <<at, index>>)
      BY <2>1, OnePageMore, Zenon
    <2>3. /\ CodeNow' <=> CodeNow \/ (at = "user" /\ index = 1)
          /\ StackNow' <=> StackNow \/ (at = "user" /\ index = 2)
      BY <2>2, Zenon DEF CodeNow, StackNow
    <2>4. leaf' = NoFrame
      BY <2>1, Zenon DEF PageDone
    <2>5. CASE at = "user" /\ index = 1
      <3>1. ~ CodeNow
        BY <1>4, <2>5, Zenon DEF CodeNow
      <3>2. /\ ~ before.code /\ ~ before.stack /\ ~ StackNow
            /\ FramesNow = before.frames - 1 - (3 - before.tables)
        BY <1>1, <1>2, <2>5, <3>1, Zenon DEF Underway
      <3>3. index' = 2 /\ at' = "user"
        <4>1. LastPage(at) = 2
          BY <2>5, Zenon DEF LastPage, PAGES
        <4>2. QED
          BY <2>1, <2>5, <4>1 DEF PageDone
      <3>4. CodeNow' /\ ~ StackNow'
        BY <2>3, <2>5, <3>2
      <3>5. Underway'
        BY <1>1, <1>2, <2>1, <2>4, <2>5, <3>2, <3>3, <3>4, SMTT(20) DEF Underway
      <3>6. QED
        BY <1>1, <1>2, <2>1, <2>5, <3>3, <3>4, <3>5, Zenon DEF CountInv, Began
    <2>6. CASE at = "user" /\ index = 2
      <3>1. /\ ~ before.code /\ ~ before.stack /\ CodeNow
            /\ FramesNow = before.frames - 2 - (3 - before.tables)
        BY <1>1, <1>2, <2>6 DEF Underway
      <3>2. at' = "up"
        <4>1. LastPage(at) = 2
          BY <2>6 DEF LastPage, PAGES
        <4>2. ~ (index < LastPage(at))
          BY <2>6, <4>1
        <4>3. QED
          BY <2>1, <2>6, <4>2, Zenon DEF PageDone
      <3>3. CodeNow' /\ StackNow'
        BY <2>3, <2>6, <3>1, Zenon
      <3>4. before.frames >= 2 + TABLES - before.tables
        BY <1>1, <3>1
      <3>5. /\ FramesLeft(before) = before.frames - 2 - (TABLES - before.tables)
            /\ TablesLeft(before) = TABLES /\ CodeMaps(before) /\ StackMaps(before)
        BY <1>1, <3>1, <3>4, AfterCreateCases, Zenon
      <3>6. Counted'
        BY <1>1, <1>2, <2>1, <2>6, <3>1, <3>3, <3>5, SMTT(20) DEF Counted
      <3>7. QED
        BY <1>1, <1>2, <2>1, <2>6, <3>2, <3>3, <3>6, Zenon DEF CountInv, Began
    <2>7. CASE at \in {"low", "heap"}
      <3>1. (CodeNow' <=> CodeNow) /\ (StackNow' <=> StackNow)
        BY <2>3, <2>7, Zenon
      <3>2. at' \in {"low", "heap", "up"} /\ creates' = 0
        BY <2>1, <2>7, Zenon DEF PageDone, CountInv
      <3>3. QED
        BY <2>1, <3>1, <3>2 DEF CountInv, Began
    <2>8. at = "user" => index = 1 \/ index = 2
      BY <1>2, Zenon DEF Underway
    <2>9. QED
      BY <1>2, <2>5, <2>6, <2>7, <2>8, Zenon DEF Mapping
  <1>5. QED
    BY <1>3, <1>4, Zenon

LEMMA BeginCreateCounted ==
    ASSUME FInv, PageInv, CountInv, BeginCreate
    PROVE  CountInv'
  <1>1. /\ at' = "user" /\ index' = 1 /\ leaf' = NoFrame
        /\ creates' = creates + 1 /\ before' = UserPagesNow
        /\ TablesNow' = TablesNow /\ FramesNow' = FramesNow
        /\ (CodeNow' <=> CodeNow) /\ (StackNow' <=> StackNow)
    BY SameFrames, SameUserPages, Zenon DEF BeginCreate, LeafFor, TablesNow
  <1>2. /\ FramesNow \in Nat /\ TablesNow \in 0 .. TABLES /\ creates \in Nat
        /\ (CodeNow => TablesNow = TABLES) /\ (StackNow => CodeNow)
    BY FramesLeftNow, Zenon DEF CountInv
  <1>3. CodeNow \in BOOLEAN /\ StackNow \in BOOLEAN
    BY Zenon DEF CodeNow, StackNow, Mapped
  <1>4. before' = [frames |-> FramesNow, tables |-> TablesNow,
                   code |-> CodeNow, stack |-> StackNow]
    BY <1>1, Zenon DEF UserPagesNow, FramesNow, TablesNow, CodeNow, StackNow
  <1>5. /\ before' \in [frames : Nat, tables : 0 .. TABLES, code : BOOLEAN, stack : BOOLEAN]
        /\ before'.frames = FramesNow /\ before'.tables = TablesNow
        /\ before'.code = CodeNow /\ before'.stack = StackNow
    BY <1>2, <1>3, <1>4, Zenon
  <1>6. Began'
    BY <1>2, <1>5, Zenon DEF Began
  <1>7. Underway'
    BY <1>1, <1>5, Zenon DEF Underway
  <1>8. creates' \in Nat
    BY <1>1, <1>2
  <1>9. QED
    BY <1>1, <1>2, <1>6, <1>7, <1>8, Zenon DEF CountInv

LEMMA CountStep ==
    ASSUME FInv, FInv', PageInv, CountInv, [PagingNext]_pagingVars
    PROVE  CountInv'
  <1>1. CASE UNCHANGED pagingVars
    <2>1. /\ UNCHANGED <<at, index, leaf, depth, entries, creates, before>>
          /\ FramesNow' = FramesNow /\ TablesNow' = TablesNow
          /\ (CodeNow' <=> CodeNow) /\ (StackNow' <=> StackNow)
      BY <1>1, SameFrames, SameUserPages, Zenon DEF pagingVars, pageVars, TablesNow
    <2>2. (Underway => Underway') /\ (Counted => Counted')
      BY <2>1 DEF Underway, Counted
    <2>3. QED
      BY <2>1, <2>2, Zenon DEF CountInv, Began
  <1>2. QED
    BY <1>1, AllocateLeafCounted, CreateTableCounted, SetEntryCounted, BeginCreateCounted, Zenon
       DEF PagingNext, Stopped

LEMMA CountInitInv ==
    ASSUME PagingInit
    PROVE  CountInv
  <1>1. /\ at \in {"low", "heap"} /\ creates = 0 /\ entries = {}
        /\ TablesNow = 0 /\ before = UserPagesNow
    BY Zenon DEF PagingInit, TablesNow
  <1>2. ~ CodeNow /\ ~ StackNow
    BY <1>1, Zenon DEF CodeNow, StackNow, Mapped
  <1>3. FramesNow \in Nat
    BY FrameInitInv, FramesLeftNow DEF PagingInit
  <1>4. CodeNow = FALSE /\ StackNow = FALSE
    BY <1>2, Zenon DEF CodeNow, StackNow, Mapped
  <1>5. before = [frames |-> FramesNow, tables |-> 0, code |-> FALSE, stack |-> FALSE]
    BY <1>1, <1>4, Zenon DEF UserPagesNow, FramesNow, TablesNow, CodeNow, StackNow
  <1>6. Began
    BY <1>3, <1>5 DEF Began, TABLES
  <1>7. QED
    BY <1>1, <1>2, <1>6 DEF CountInv, TABLES

\* create_process_from_program done frame by frame, with every frame that can
\* be missing, ends as Userland has it in one step: for every memory map, heap
\* and number of calls, so that Userland's CreateProcess is the whole call.
THEOREM CreateIsAsCounted == PagingSpec => []CreateAsCounted
  <1> DEFINE Inv == FInv /\ PageInv /\ CountInv
  <1>1. PagingInit => Inv
    BY FrameInitInv, PageInitInv, CountInitInv, Zenon DEF PagingInit
  <1>2. Inv /\ [PagingNext]_pagingVars => Inv'
    BY PagingFrames, PageStep, CountStep
  <1>3. Inv => CreateAsCounted
    BY CountedIsAfterCreate DEF CountInv, CreateAsCounted
  <1>4. QED
    BY <1>1, <1>2, <1>3, PTL DEF PagingSpec
=============================================================================

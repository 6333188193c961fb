--------------------------- MODULE AllocatorLemmas ---------------------------
(***************************************************************************)
(* What the proofs about the allocators share: arithmetic, align_up, and   *)
(* what the operations of the free list do to a canonical list and to the  *)
(* bytes it covers.                                                        *)
(***************************************************************************)
EXTENDS FreeList, WellFoundedInduction, TLAPS

-----------------------------------------------------------------------------
(* Numbers.                                                                *)

\* A set of numbers that is not empty has a least one.
LEMMA LeastNumber ==
    ASSUME NEW S \in SUBSET Nat, S # {}
    PROVE  Min(S) \in S /\ \A y \in S : Min(S) <= y
  <1> DEFINE R == OpToRel(<, Nat)
  <1>1. IsWellFoundedOn(R, Nat)
    BY NatLessThanWellFounded
  <1>2. \A x, y \in Nat : <<y, x>> \in R <=> y < x
    BY DEF OpToRel
  <1> HIDE DEF R
  <1>3. PICK x \in S : \A y \in S : ~ (<<y, x>> \in R)
    <2>1. S \subseteq Nat /\ S # {}
      OBVIOUS
    <2>2. QED
      BY <1>1, <2>1, WFMin, Zenon
  <1>4. \A y \in S : x <= y
    <2>1. SUFFICES ASSUME NEW y \in S PROVE x <= y
      OBVIOUS
    <2>2. x \in Nat /\ y \in Nat
      OBVIOUS
    <2>3. ~ (y < x)
      BY <1>2, <1>3, <2>2, Zenon
    <2>4. QED
      BY <2>2, <2>3
  <1>5. \E z \in S : \A y \in S : z <= y
    BY <1>4
  <1>6. QED
    BY <1>5, Zenon DEF Min

\* A set that holds 0, and with a number the next one, holds every number.
LEMMA Induction ==
    ASSUME NEW S, 0 \in S, \A n \in Nat : n \in S => n + 1 \in S
    PROVE  \A n \in Nat : n \in S
  <1> DEFINE Missing == Nat \ S
  <1>1. SUFFICES ASSUME Missing # {} PROVE FALSE
    OBVIOUS
  <1>2. Missing \in SUBSET Nat
    OBVIOUS
  <1> DEFINE m == Min(Missing)
  <1>3. m \in Missing /\ \A y \in Missing : m <= y
    BY <1>1, <1>2, LeastNumber, Zenon
  <1> HIDE DEF m
  <1>4. m \in Nat /\ m # 0 /\ m \notin S
    BY <1>3
  <1>5. m - 1 \in Nat /\ m - 1 \notin Missing
    BY <1>3, <1>4
  <1>6. QED
    BY <1>4, <1>5

-----------------------------------------------------------------------------
(* Sequences.                                                              *)

\* A sequence is a function on 1 .. Len.
LEMMA SeqFacts ==
    ASSUME NEW S, NEW s \in Seq(S)
    PROVE  /\ Len(s) \in Nat /\ DOMAIN s = 1 .. Len(s) /\ s \in [1 .. Len(s) -> S]
           /\ \A i \in 1 .. Len(s) : s[i] \in S
           /\ s # <<>> => Len(s) \in Nat \ {0}
  OBVIOUS

\* The empty sequence.
LEMMA NoElements ==
    ASSUME NEW S
    PROVE <<>> \in Seq(S) /\ Len(<<>>) = 0
  OBVIOUS

\* Concatenation.
LEMMA ConcatFacts ==
    ASSUME NEW S, NEW s \in Seq(S), NEW t \in Seq(S)
    PROVE  /\ s \o t \in Seq(S)
           /\ Len(s \o t) = Len(s) + Len(t)
           /\ \A i \in 1 .. Len(s) + Len(t) :
                 (s \o t)[i] = IF i <= Len(s) THEN s[i] ELSE t[i - Len(s)]
  OBVIOUS

\* Append.
LEMMA AppendFacts ==
    ASSUME NEW S, NEW s \in Seq(S), NEW e \in S
    PROVE  /\ Append(s, e) \in Seq(S)
           /\ Len(Append(s, e)) = Len(s) + 1
           /\ \A i \in 1 .. Len(s) : Append(s, e)[i] = s[i]
           /\ Append(s, e)[Len(s) + 1] = e
  OBVIOUS

\* A stretch of a sequence.
LEMMA SubSeqFacts ==
    ASSUME NEW S, NEW s, NEW m \in Int, NEW n \in Int, \A i \in m .. n : s[i] \in S
    PROVE  /\ SubSeq(s, m, n) \in Seq(S)
           /\ Len(SubSeq(s, m, n)) = IF m <= n THEN n - m + 1 ELSE 0
           /\ \A i \in 1 .. n - m + 1 : SubSeq(s, m, n)[i] = s[m + i - 1]
  OBVIOUS

\* Replacing one element.
LEMMA ExceptFacts ==
    ASSUME NEW S, NEW s \in Seq(S), NEW i \in 1 .. Len(s), NEW e \in S
    PROVE  LET t == [s EXCEPT ![i] = e] IN
           /\ t \in Seq(S) /\ Len(t) = Len(s)
           /\ \A k \in 1 .. Len(s) : t[k] = IF k = i THEN e ELSE s[k]
  OBVIOUS

\* Head and tail.
LEMMA TailFacts ==
    ASSUME NEW S, NEW s \in Seq(S), s # <<>>
    PROVE  /\ Head(s) \in S
           /\ Tail(s) \in Seq(S)
           /\ Len(Tail(s)) = Len(s) - 1
           /\ \A i \in 1 .. Len(Tail(s)) : Tail(s)[i] = s[i + 1]
  OBVIOUS

-----------------------------------------------------------------------------
(* Remainders.                                                             *)

\* Division with remainder on naturals.
LEMMA DivMod ==
    ASSUME NEW a \in Nat, NEW n \in Nat \ {0}
    PROVE  /\ a \div n \in Nat
           /\ a % n \in 0 .. (n - 1)
           /\ a = (a \div n) * n + (a % n)
  BY SMTT(20)

\* A multiple leaves no remainder.
LEMMA MultipleMod ==
    ASSUME NEW k \in Nat, NEW n \in Nat \ {0}
    PROVE  (k * n) % n = 0
  BY SMTT(20)

\* align_up returns the least aligned address that is not below its argument.
LEMMA AlignUp ==
    ASSUME NEW a \in Nat, NEW n \in Nat \ {0}
    PROVE  /\ align_up(a, n) \in Nat
           /\ align_up(a, n) >= a
           /\ align_up(a, n) % n = 0
           /\ \A m \in Nat : m >= a /\ m % n = 0 => align_up(a, n) <= m
  <1> DEFINE k == (a + n - 1) \div n
  <1>1. a + n - 1 \in Nat
    OBVIOUS
  <1>2. /\ k \in Nat
        /\ a + n - 1 = k * n + ((a + n - 1) % n)
        /\ (a + n - 1) % n \in 0 .. (n - 1)
    BY <1>1, DivMod, Zenon
  <1>3. (k * n) % n = 0
    BY <1>2, MultipleMod, Zenon
  <1>4. k * n \in Nat
    BY <1>2
  <1> HIDE DEF k
  <1>5. k * n >= a /\ k * n <= a + n - 1
    BY <1>2, <1>4
  <1>6. ASSUME NEW m \in Nat, m >= a, m % n = 0
        PROVE  k * n <= m
    <2> DEFINE q == m \div n
    <2>1. q \in Nat /\ m = q * n
      BY <1>6, DivMod
    <2> HIDE DEF q
    <2>2. CASE k <= q
      <3>1. k * n <= q * n
        BY <1>2, <2>1, <2>2, SMTT(20)
      <3>2. QED
        BY <2>1, <3>1
    <2>3. CASE k >= q + 1
      <3>1. k * n >= q * n + n
        BY <1>2, <2>1, <2>3, SMTT(20)
      <3>2. q * n \in Nat
        BY <2>1
      <3>3. QED
        BY <1>4, <1>5, <1>6, <2>1, <3>1, <3>2
    <2>4. QED
      BY <1>2, <2>1, <2>2, <2>3
  <1>7. QED
    BY <1>3, <1>4, <1>5, <1>6 DEF align_up, k

\* A multiple of a multiple is a multiple.
LEMMA Divides ==
    ASSUME NEW a \in Nat, NEW m \in Nat \ {0}, NEW n \in Nat \ {0},
           a % m = 0, m % n = 0
    PROVE  a % n = 0
  <1> DEFINE p == a \div m
             q == m \div n
  <1>1. p \in Nat /\ a = p * m
    BY DivMod
  <1>2. q \in Nat /\ m = q * n
    BY DivMod
  <1> HIDE DEF p, q
  <1>3. a = (p * q) * n /\ p * q \in Nat
    BY <1>1, <1>2, SMTT(20)
  <1>4. QED
    BY <1>3, MultipleMod

\* The sum of multiples of 8 is one.
LEMMA SumOfEights ==
    ASSUME NEW a \in Nat, NEW b \in Nat, a % 8 = 0, b % 8 = 0
    PROVE  a + b \in Nat /\ (a + b) % 8 = 0
  OBVIOUS

\* From one address to another.
LEMMA Distance ==
    ASSUME NEW a \in Nat, NEW b \in Nat
    PROVE  b - a \in Int /\ a + (b - a) = b
  OBVIOUS

-----------------------------------------------------------------------------
(* The walk of coalesce.                                                   *)

\* The walk, as the list that is done after each node.
IsWalk(w, list) ==
    w = [k \in 0 .. Len(list) |->
            IF k = 0 THEN <<>> ELSE Merge(w[k - 1], list[k])]

\* The recursion coalesce is defined by has a solution.
LEMMA WalkExists ==
    ASSUME NEW list
    PROVE  \A n \in Nat : \E w :
              w = [k \in 0 .. n |-> IF k = 0 THEN <<>> ELSE Merge(w[k - 1], list[k])]
  <1> DEFINE Good(w, n) ==
               w = [k \in 0 .. n |-> IF k = 0 THEN <<>> ELSE Merge(w[k - 1], list[k])]
             S == {n \in Nat : \E w : Good(w, n)}
  <1>1. 0 \in S
    <2> DEFINE w == [k \in 0 .. 0 |-> <<>>]
    <2>1. Good(w, 0)
      OBVIOUS
    <2>2. QED
      BY <2>1, Zenon
  <1>2. ASSUME NEW n \in Nat, n \in S PROVE n + 1 \in S
    <2>1. PICK w : Good(w, n)
      BY <1>2
    <2> DEFINE v == [k \in 0 .. n + 1 |-> IF k = n + 1 THEN Merge(w[n], list[n + 1]) ELSE w[k]]
    <2>2. \A k \in 0 .. n : v[k] = w[k] /\ k \in 0 .. n + 1
      OBVIOUS
    <2>3. v[n + 1] = Merge(w[n], list[n + 1]) /\ n + 1 \in 0 .. n + 1
      OBVIOUS
    <2>4. v = [k \in 0 .. n + 1 |-> v[k]]
      OBVIOUS
    <2> HIDE DEF v
    <2>5. \A k \in 0 .. n + 1 : v[k] = IF k = 0 THEN <<>> ELSE Merge(v[k - 1], list[k])
      <3>1. SUFFICES ASSUME NEW k \in 0 .. n + 1
                     PROVE  v[k] = IF k = 0 THEN <<>> ELSE Merge(v[k - 1], list[k])
        BY Zenon
      <3>2. CASE k = n + 1
        <4>1. k # 0 /\ k - 1 = n /\ n \in 0 .. n
          BY <3>2
        <4>2. QED
          BY <2>2, <2>3, <3>2, <4>1
      <3>3. CASE k # n + 1
        <4>1. k \in 0 .. n /\ (k # 0 => k - 1 \in 0 .. n)
          BY <3>3
        <4>2. w[k] = IF k = 0 THEN <<>> ELSE Merge(w[k - 1], list[k])
          BY <2>1, <4>1
        <4>3. QED
          BY <2>2, <4>1, <4>2, Zenon
      <3>4. QED
        BY <3>2, <3>3
    <2>6. Good(v, n + 1)
      BY <2>4, <2>5, Zenon
    <2> HIDE DEF Good
    <2>7. n + 1 \in Nat /\ \E u : Good(u, n + 1)
      BY <2>6
    <2>8. QED
      BY <2>7
  <1> HIDE DEF S
  <1>3. \A n \in Nat : n \in S
    BY <1>1, <1>2, Induction
  <1>4. QED
    BY <1>3, Zenon DEF S

\* coalesce is the end of the walk.
LEMMA CoalesceWalks ==
    ASSUME NEW T, NEW list \in Seq(T)
    PROVE  \E w : IsWalk(w, list) /\ coalesce(list) = w[Len(list)]
  <1> DEFINE n == Len(list)
             w == CHOOSE w : IsWalk(w, list)
  <1>1. coalesce(list) = w[n]
    BY DEF coalesce, IsWalk
  <1>2. n \in Nat
    BY SeqFacts
  <1>3. \E v : IsWalk(v, list)
    BY <1>2, WalkExists, Zenon DEF IsWalk
  <1>4. IsWalk(w, list)
    BY <1>3
  <1>5. QED
    BY <1>1, <1>4, Zenon

-----------------------------------------------------------------------------
(* Lists of free regions.                                                  *)

\* A region a header fits in.
Node ==
    {r \in [start : Nat, size : Nat] :
        r.size >= MIN_BLOCK /\ r.start % NODE_ALIGN = 0 /\ InHeap(r.start, r.size)}

\* The bytes of a region, and of the regions of a list.
Within(r, x) == r.start <= x /\ x < end_addr(r)
Covers(list, x) == \E i \in 1 .. Len(list) : Within(list[i], x)

\* Address order: regions may touch but not overlap.
Ascending(list) == \A i \in 1 .. Len(list) - 1 : end_addr(list[i]) <= list[i + 1].start

\* What the debug assertions and the tests of linkedlist.rs ask of a list.
Sound(list) == list \in Seq(Node) /\ Canonical(list)

\* The parts of a region.
LEMMA NodeFacts ==
    ASSUME NEW r \in Node
    PROVE  /\ r \in [start : Nat, size : Nat]
           /\ r.start \in Nat /\ r.size \in Nat /\ r.size >= 16
           /\ r.start % 8 = 0
           /\ end_addr(r) \in Nat /\ end_addr(r) = r.start + r.size
           /\ InHeap(r.start, r.size)
  BY DEF Node, MIN_BLOCK, NODE_ALIGN, end_addr

\* The regions of a list.
LEMMA SeqNodeFacts ==
    ASSUME NEW list \in Seq(Node)
    PROVE  /\ Len(list) \in Nat /\ DOMAIN list = 1 .. Len(list)
           /\ \A i \in 1 .. Len(list) :
                 /\ list[i] \in Node
                 /\ list[i].start \in Nat /\ list[i].size \in Nat /\ list[i].size >= 16
                 /\ end_addr(list[i]) \in Nat
                 /\ end_addr(list[i]) = list[i].start + list[i].size
  BY SeqFacts, NodeFacts, Zenon

\* A list of regions is canonical when no region reaches the next.
LEMMA SoundIff ==
    ASSUME NEW list \in Seq(Node)
    PROVE  Sound(list) <=> \A i \in 1 .. Len(list) - 1 : end_addr(list[i]) < list[i + 1].start
  <1>1. /\ DOMAIN list = 1 .. Len(list)
        /\ \A i \in 1 .. Len(list) : list[i] \in Node
    BY SeqNodeFacts
  <1>2. QED
    BY <1>1, Zenon DEF Sound, Canonical, Node

\* The empty list.
LEMMA EmptyList == Sound(<<>>) /\ \A x \in Int : ~ Covers(<<>>, x)
  <1>1. <<>> \in Seq(Node) /\ Len(<<>>) = 0 /\ DOMAIN <<>> = {}
    BY NoElements
  <1>2. \A i : i \notin 1 .. 0 /\ i \notin 1 .. (0 - 1)
    OBVIOUS
  <1>3. Sound(<<>>)
    BY <1>1, <1>2 DEF Sound, Canonical
  <1>4. QED
    BY <1>1, <1>2, <1>3 DEF Covers

\* One step of the walk: the list that is done stays canonical, ends where the
\* node just walked over ends, and gains the bytes of that node.
LEMMA MergeStep ==
    ASSUME NEW w, Sound(w), NEW r \in Node,
           w # <<>> => end_addr(w[Len(w)]) <= r.start
    PROVE  /\ Sound(Merge(w, r))
           /\ Merge(w, r) # <<>>
           /\ end_addr(Merge(w, r)[Len(Merge(w, r))]) = end_addr(r)
           /\ \A x \in Int : Covers(Merge(w, r), x) <=> Covers(w, x) \/ Within(r, x)
  <1> DEFINE n == Len(w)
             m == Merge(w, r)
  <1>1. /\ w \in Seq(Node) /\ n \in Nat /\ DOMAIN w = 1 .. n
        /\ \A i \in 1 .. n :
              /\ w[i] \in Node
              /\ w[i].start \in Nat /\ w[i].size \in Nat /\ w[i].size >= 16
              /\ end_addr(w[i]) \in Nat
              /\ end_addr(w[i]) = w[i].start + w[i].size
    BY SeqNodeFacts DEF Sound
  <1>2. \A i \in 1 .. n - 1 : end_addr(w[i]) < w[i + 1].start
    BY SoundIff DEF Sound
  <1>3. /\ r.start \in Nat /\ r.size \in Nat /\ r.size >= 16
        /\ end_addr(r) \in Nat /\ end_addr(r) = r.start + r.size
    BY NodeFacts
  <1>n. n = Len(w)
    OBVIOUS
  <1> HIDE DEF n
  <1>4. CASE w # <<>> /\ end_addr(w[n]) = r.start
    <2> DEFINE j == [start |-> w[n].start, size |-> w[n].size + r.size]
    <2>1. n \in 1 .. n
      BY <1>1, <1>4, <1>n, NoElements
    <2>2. w[n] \in Node /\ w[n] \in [start : Nat, size : Nat]
      BY <1>1, <2>1, NodeFacts, Zenon
    <2>3. m = [w EXCEPT ![n] = j]
      <3>1. m = [w EXCEPT ![n].size = @ + r.size]
        BY <1>4, <1>n DEF Merge
      <3>2. [w[n] EXCEPT !.size = @ + r.size] = j
        BY <2>2
      <3>3. QED
        BY <1>1, <2>1, <3>1, <3>2, Zenon
    <2>4. /\ end_addr(j) = end_addr(r) /\ j.start = w[n].start
          /\ j \in Node
      <3>1. /\ j \in [start : Nat, size : Nat] /\ j.start = w[n].start
            /\ j.size = w[n].size + r.size
        BY <1>1, <1>3, <2>1
      <3> HIDE DEF j
      <3>a. /\ w[n].start \in Nat /\ w[n].size \in Nat /\ w[n].size >= 16
            /\ w[n].start + w[n].size = r.start
        BY <1>1, <1>4, <2>1, Zenon
      <3>2. j.start + j.size = end_addr(r) /\ j.size >= 16
        <4> DEFINE a == w[n].start
                   b == w[n].size
                   c == r.start
                   d == r.size
                   e == end_addr(r)
        <4>1. a \in Nat /\ b \in Nat /\ b >= 16 /\ a + b = c
          BY <3>a, Zenon
        <4>2. c \in Nat /\ d \in Nat /\ e = c + d
          BY <1>3
        <4>3. j.start = a /\ j.size = b + d
          BY <3>1
        <4> HIDE DEF a, b, c, d, e
        <4>4. a + (b + d) = e /\ b + d >= 16
          BY <4>1, <4>2
        <4>5. QED
          BY <4>3, <4>4, Zenon DEF e
      <3>3. end_addr(j) = end_addr(r)
        BY <3>2, Zenon DEF end_addr
      <3>4. InHeap(j.start, j.size)
        BY <1>3, <2>2, <3>1, <3>2, Zenon DEF Node, InHeap
      <3>5. j.start % NODE_ALIGN = 0
        BY <2>2, <3>1 DEF Node
      <3>6. QED
        BY <3>1, <3>2, <3>3, <3>4, <3>5, Zenon DEF Node, MIN_BLOCK
    <2> HIDE DEF j, m
    <2>5. /\ m \in Seq(Node) /\ Len(m) = n
          /\ \A k \in 1 .. n : m[k] = IF k = n THEN j ELSE w[k]
      BY <1>1, <1>n, <2>1, <2>3, <2>4, ExceptFacts
    <2>6. \A i \in 1 .. n - 1 : end_addr(m[i]) < m[i + 1].start
      <3>1. \A k \in 1 .. n : m[k].start = w[k].start
        BY <2>4, <2>5, Zenon
      <3>2. \A k \in 1 .. n - 1 : m[k] = w[k]
        BY <1>1, <2>5
      <3>3. QED
        BY <1>1, <1>2, <3>1, <3>2
    <2>7. Sound(m)
      BY <2>5, <2>6, SoundIff, Zenon
    <2>8. m # <<>> /\ end_addr(m[Len(m)]) = end_addr(r)
      BY <2>1, <2>4, <2>5, NoElements
    <2>9. \A x \in Int : Within(j, x) <=> Within(w[n], x) \/ Within(r, x)
      BY <1>1, <1>3, <1>4, <2>1, <2>4, SMTT(30) DEF Within
    <2>10. \A x \in Int : Covers(m, x) <=> Covers(w, x) \/ Within(r, x)
      BY <1>n, <2>1, <2>5, <2>9, Zenon DEF Covers
    <2>11. QED
      BY <2>7, <2>8, <2>10, Zenon DEF m
  <1>5. CASE ~ (w # <<>> /\ end_addr(w[n]) = r.start)
    <2>1. m = Append(w, r)
      BY <1>5, <1>n DEF Merge
    <2> HIDE DEF m
    <2>2. /\ m \in Seq(Node) /\ m # <<>> /\ Len(m) = n + 1
          /\ \A i \in 1 .. n : m[i] = w[i]
          /\ m[n + 1] = r
      BY <1>1, <1>n, <2>1, AppendFacts
    <2>3. n # 0 => end_addr(w[n]) < r.start
      BY <1>1, <1>3, <1>5, <1>n, NoElements
    <2>4. \A i \in 1 .. Len(m) - 1 : end_addr(m[i]) < m[i + 1].start
      BY <1>1, <1>2, <2>2, <2>3
    <2>5. Sound(m)
      BY <2>2, <2>4, SoundIff, Zenon
    <2>6. ASSUME NEW x \in Int PROVE Covers(m, x) <=> Covers(w, x) \/ Within(r, x)
      <3>1. Covers(m, x) <=> \E i \in 1 .. n + 1 : Within(m[i], x)
        BY <2>2, Zenon DEF Covers
      <3>2. Covers(w, x) <=> \E i \in 1 .. n : Within(m[i], x)
        BY <1>n, <2>2, Zenon DEF Covers
      <3>3. \A i : i \in 1 .. n + 1 <=> i \in 1 .. n \/ i = n + 1
        BY <1>1
      <3>4. QED
        BY <2>2, <3>1, <3>2, <3>3, Zenon
    <2>7. QED
      BY <2>2, <2>5, <2>6 DEF m
  <1>6. QED
    BY <1>4, <1>5, Zenon

\* One pass of coalesce makes an ascending list canonical, whichever of its
\* regions touch, and changes none of its bytes.
LEMMA CoalesceSound ==
    ASSUME NEW list \in Seq(Node), Ascending(list)
    PROVE  /\ Sound(coalesce(list))
           /\ \A x \in Int : Covers(coalesce(list), x) <=> Covers(list, x)
  <1> DEFINE n == Len(list)
  <1>1. /\ n \in Nat
        /\ \A i \in 1 .. n : list[i] \in Node
    BY SeqNodeFacts
  <1>2. PICK w : IsWalk(w, list) /\ coalesce(list) = w[n]
    BY CoalesceWalks
  <1>3. /\ w[0] = <<>>
        /\ \A k \in 1 .. n : w[k] = Merge(w[k - 1], list[k])
    BY <1>1, <1>2 DEF IsWalk
  <1>4. \A i \in 1 .. n - 1 : end_addr(list[i]) <= list[i + 1].start
    BY DEF Ascending
  <1>5. \A x : Covers(list, x) <=> \E i \in 1 .. n : Within(list[i], x)
    BY DEF Covers
  <1> HIDE DEF n
  <1> DEFINE Done(k) ==
               k <= n =>
               /\ Sound(w[k])
               /\ k > 0 => w[k] # <<>> /\ end_addr(w[k][Len(w[k])]) = end_addr(list[k])
               /\ \A x \in Int : Covers(w[k], x) <=> \E i \in 1 .. k : Within(list[i], x)
             S == {k \in Nat : Done(k)}
  <1>6. 0 \in S
    <2>1. Sound(<<>>) /\ \A x \in Int : ~ Covers(<<>>, x)
      BY EmptyList
    <2>2. QED
      BY <1>3, <2>1
  <1>7. ASSUME NEW k \in Nat, k \in S PROVE k + 1 \in S
    <2>1. SUFFICES ASSUME k + 1 <= n PROVE Done(k + 1)
      OBVIOUS
    <2>2. k + 1 \in 1 .. n /\ w[k + 1] = Merge(w[k], list[k + 1]) /\ list[k + 1] \in Node
      BY <1>1, <1>3, <2>1
    <2>3. Done(k) /\ k <= n
      BY <1>1, <1>7, <2>1
    <2>4. w[k] # <<>> => end_addr(w[k][Len(w[k])]) <= list[k + 1].start
      <3>1. CASE k = 0
        BY <1>3, <3>1, Zenon
      <3>2. CASE k # 0
        BY <1>1, <1>4, <2>1, <2>3, <3>2
      <3>3. QED
        BY <3>1, <3>2, Zenon
    <2>5. /\ Sound(w[k + 1])
          /\ w[k + 1] # <<>>
          /\ end_addr(w[k + 1][Len(w[k + 1])]) = end_addr(list[k + 1])
          /\ \A x \in Int : Covers(w[k + 1], x) <=> Covers(w[k], x) \/ Within(list[k + 1], x)
      BY <2>2, <2>3, <2>4, MergeStep
    <2>6. \A x \in Int : Covers(w[k + 1], x) <=> \E i \in 1 .. k + 1 : Within(list[i], x)
      <3>1. \A i : i \in 1 .. k + 1 <=> i \in 1 .. k \/ i = k + 1
        OBVIOUS
      <3>2. \A x \in Int : Covers(w[k], x) <=> \E i \in 1 .. k : Within(list[i], x)
        BY <2>3
      <3>3. QED
        BY <2>5, <3>1, <3>2, Zenon
    <2>7. QED
      BY <2>5, <2>6
  <1> HIDE DEF S
  <1>8. \A k \in Nat : k \in S
    BY <1>6, <1>7, Induction, Zenon
  <1>9. Done(n)
    BY <1>1, <1>8 DEF S
  <1>10. QED
    BY <1>1, <1>2, <1>5, <1>9

\* A canonical list is in address order throughout.
LEMMA SoundOrdered ==
    ASSUME NEW list, Sound(list)
    PROVE  \A i, j \in 1 .. Len(list) : i < j => end_addr(list[i]) < list[j].start
  <1> DEFINE n == Len(list)
  <1>1. /\ n \in Nat
        /\ \A i \in 1 .. n :
              /\ list[i].start \in Nat /\ list[i].size \in Nat /\ list[i].size >= 16
              /\ end_addr(list[i]) \in Nat
              /\ end_addr(list[i]) = list[i].start + list[i].size
    BY SeqNodeFacts DEF Sound
  <1>2. \A i \in 1 .. n - 1 : end_addr(list[i]) < list[i + 1].start
    BY SoundIff, Zenon DEF Sound
  <1> HIDE DEF n
  <1> SUFFICES ASSUME NEW i \in 1 .. n
               PROVE  \A j \in 1 .. n : i < j => end_addr(list[i]) < list[j].start
    BY DEF n
  <1> DEFINE S == {j \in Nat : i < j /\ j <= n => end_addr(list[i]) < list[j].start}
  <1>3. 0 \in S
    BY <1>1
  <1>4. ASSUME NEW j \in Nat, j \in S PROVE j + 1 \in S
    <2>1. SUFFICES ASSUME i < j + 1, j + 1 <= n PROVE end_addr(list[i]) < list[j + 1].start
      OBVIOUS
    <2>2. j \in 1 .. n - 1 /\ i <= j
      BY <1>1, <2>1
    <2>3. /\ end_addr(list[j]) < list[j + 1].start
          /\ list[j].start < end_addr(list[j])
          /\ end_addr(list[j]) \in Nat /\ list[j].start \in Nat
          /\ list[j + 1].start \in Nat /\ end_addr(list[i]) \in Nat
      BY <1>1, <1>2, <2>2
    <2>4. CASE i = j
      BY <2>3, <2>4, Zenon
    <2>5. CASE i < j
      <3>1. end_addr(list[i]) < list[j].start
        BY <1>1, <1>4, <2>2, <2>5
      <3>2. QED
        BY <2>3, <3>1
    <2>6. QED
      BY <1>1, <2>2, <2>4, <2>5
  <1> HIDE DEF S
  <1>5. \A j \in Nat : j \in S
    BY <1>3, <1>4, Induction, Zenon
  <1>6. QED
    BY <1>1, <1>5 DEF S

-----------------------------------------------------------------------------
(* Adding a region to the list and taking one off it.                      *)

\* Inserting into a sequence.
LEMMA SpliceFacts ==
    ASSUME NEW T, NEW s \in Seq(T), NEW i \in 1 .. Len(s) + 1, NEW e \in T
    PROVE  /\ Splice(s, i, e) \in Seq(T)
           /\ Len(Splice(s, i, e)) = Len(s) + 1
           /\ \A j \in 1 .. Len(s) + 1 :
                 Splice(s, i, e)[j] = IF j < i THEN s[j] ELSE IF j = i THEN e ELSE s[j - 1]
  <1> DEFINE n == Len(s)
             a == SubSeq(s, 1, i - 1)
             b == SubSeq(s, i, n)
             c == a \o <<e>>
  <1>1. n \in Nat /\ i \in Nat /\ i >= 1 /\ i <= n + 1 /\ \A j \in 1 .. n : s[j] \in T
    BY SeqFacts
  <1>2. /\ a \in Seq(T) /\ Len(a) = i - 1
        /\ \A j \in 1 .. i - 1 : a[j] = s[j]
    <2>1. /\ 1 \in Int /\ i - 1 \in Int
          /\ \A j \in 1 .. i - 1 : s[j] \in T
      BY <1>1
    <2>2. /\ a \in Seq(T) /\ Len(a) = IF 1 <= i - 1 THEN i - 1 - 1 + 1 ELSE 0
          /\ \A j \in 1 .. i - 1 - 1 + 1 : a[j] = s[1 + j - 1]
      BY <2>1, SubSeqFacts
    <2> HIDE DEF a
    <2>3. QED
      BY <1>1, <2>2
  <1>3. /\ b \in Seq(T) /\ Len(b) = n - i + 1
        /\ \A j \in 1 .. n - i + 1 : b[j] = s[i + j - 1]
    <2>1. /\ i \in Int /\ n \in Int
          /\ \A j \in i .. n : s[j] \in T
      BY <1>1
    <2>2. /\ b \in Seq(T) /\ Len(b) = IF i <= n THEN n - i + 1 ELSE 0
          /\ \A j \in 1 .. n - i + 1 : b[j] = s[i + j - 1]
      BY <2>1, SubSeqFacts
    <2> HIDE DEF b
    <2>3. QED
      BY <1>1, <2>2
  <1> HIDE DEF a, b, n
  <1>4. <<e>> \in Seq(T) /\ Len(<<e>>) = 1 /\ <<e>>[1] = e
    OBVIOUS
  <1>5. /\ c \in Seq(T) /\ Len(c) = i
        /\ \A j \in 1 .. i : c[j] = IF j < i THEN s[j] ELSE e
    <2>1. /\ c \in Seq(T) /\ Len(c) = Len(a) + Len(<<e>>)
          /\ \A j \in 1 .. Len(a) + Len(<<e>>) :
                c[j] = IF j <= Len(a) THEN a[j] ELSE <<e>>[j - Len(a)]
      BY <1>2, <1>4, ConcatFacts, Zenon
    <2> HIDE DEF c
    <2>2. QED
      BY <1>1, <1>2, <1>4, <2>1
  <1> HIDE DEF c
  <1> DEFINE u == c \o b
  <1>6. u = Splice(s, i, e)
    BY DEF Splice, a, b, c, n
  <1>7. /\ u \in Seq(T) /\ Len(u) = Len(c) + Len(b)
        /\ \A j \in 1 .. Len(c) + Len(b) : u[j] = IF j <= Len(c) THEN c[j] ELSE b[j - Len(c)]
    BY <1>3, <1>5, ConcatFacts
  <1> HIDE DEF u
  <1>v. /\ Len(u) = n + 1
        /\ \A j \in 1 .. n + 1 : u[j] = IF j <= i THEN c[j] ELSE b[j - i]
    <2>1. Len(c) = i /\ Len(c) + Len(b) = n + 1
      BY <1>1, <1>3, <1>5
    <2>2. QED
      BY <1>7, <2>1, Zenon
  <1>8. \A j \in 1 .. n + 1 : u[j] = IF j < i THEN s[j] ELSE IF j = i THEN e ELSE s[j - 1]
    <2> SUFFICES ASSUME NEW j \in 1 .. n + 1
                 PROVE  u[j] = IF j < i THEN s[j] ELSE IF j = i THEN e ELSE s[j - 1]
      OBVIOUS
    <2>1. CASE j <= i
      BY <1>1, <1>5, <1>v, <2>1
    <2>2. CASE j > i
      <3>1. j - i \in 1 .. n - i + 1 /\ i + (j - i) - 1 = j - 1
        BY <1>1, <2>2
      <3>2. u[j] = b[j - i]
        BY <1>1, <1>v, <2>2
      <3>3. QED
        BY <1>1, <1>3, <2>2, <3>1, <3>2
    <2>3. QED
      BY <1>1, <2>1, <2>2
  <1>9. QED
    BY <1>6, <1>7, <1>v, <1>8, Zenon DEF n

\* Removing from a sequence.
LEMMA UnlinkFacts ==
    ASSUME NEW T, NEW s \in Seq(T), NEW i \in 1 .. Len(s)
    PROVE  /\ Unlink(s, i) \in Seq(T)
           /\ Len(Unlink(s, i)) = Len(s) - 1
           /\ \A j \in 1 .. Len(s) - 1 :
                 Unlink(s, i)[j] = IF j < i THEN s[j] ELSE s[j + 1]
  <1> DEFINE n == Len(s)
             a == SubSeq(s, 1, i - 1)
             b == SubSeq(s, i + 1, n)
             u == a \o b
  <1>1. n \in Nat /\ i \in Nat /\ i >= 1 /\ i <= n /\ \A j \in 1 .. n : s[j] \in T
    BY SeqFacts
  <1>2. /\ a \in Seq(T) /\ Len(a) = i - 1
        /\ \A j \in 1 .. i - 1 : a[j] = s[j]
    <2>1. /\ 1 \in Int /\ i - 1 \in Int
          /\ \A j \in 1 .. i - 1 : s[j] \in T
      BY <1>1
    <2>2. /\ a \in Seq(T) /\ Len(a) = IF 1 <= i - 1 THEN i - 1 - 1 + 1 ELSE 0
          /\ \A j \in 1 .. i - 1 - 1 + 1 : a[j] = s[1 + j - 1]
      BY <2>1, SubSeqFacts
    <2> HIDE DEF a
    <2>3. QED
      BY <1>1, <2>2
  <1>3. /\ b \in Seq(T) /\ Len(b) = n - i
        /\ \A j \in 1 .. n - i : b[j] = s[i + j]
    <2>1. /\ i + 1 \in Int /\ n \in Int
          /\ \A j \in i + 1 .. n : s[j] \in T
      BY <1>1
    <2>2. /\ b \in Seq(T) /\ Len(b) = IF i + 1 <= n THEN n - (i + 1) + 1 ELSE 0
          /\ \A j \in 1 .. n - (i + 1) + 1 : b[j] = s[i + 1 + j - 1]
      BY <2>1, SubSeqFacts
    <2> HIDE DEF b
    <2>3. \A j \in 1 .. n - i : i + 1 + j - 1 = i + j
      BY <1>1
    <2>4. QED
      BY <1>1, <2>2, <2>3
  <1>4. u = Unlink(s, i)
    BY Zenon DEF Unlink
  <1> HIDE DEF a, b, n
  <1>5. /\ u \in Seq(T) /\ Len(u) = Len(a) + Len(b)
        /\ \A j \in 1 .. Len(a) + Len(b) : u[j] = IF j <= Len(a) THEN a[j] ELSE b[j - Len(a)]
    BY <1>2, <1>3, ConcatFacts, Zenon
  <1> HIDE DEF u
  <1>6. /\ Len(u) = n - 1
        /\ \A j \in 1 .. n - 1 : u[j] = IF j < i THEN s[j] ELSE b[j - (i - 1)]
    <2>1. Len(a) = i - 1 /\ Len(a) + Len(b) = n - 1
      BY <1>1, <1>2, <1>3
    <2>2. \A j \in 1 .. n - 1 : u[j] = IF j <= i - 1 THEN a[j] ELSE b[j - (i - 1)]
      BY <1>5, <2>1, Zenon
    <2>3. QED
      BY <1>1, <1>2, <1>5, <2>1, <2>2
  <1>7. \A j \in 1 .. n - 1 : u[j] = IF j < i THEN s[j] ELSE s[j + 1]
    <2> SUFFICES ASSUME NEW j \in 1 .. n - 1, j >= i PROVE u[j] = s[j + 1]
      BY <1>1, <1>6
    <2>1. j - (i - 1) \in 1 .. n - i /\ i + (j - (i - 1)) = j + 1
      BY <1>1
    <2>2. u[j] = b[j - (i - 1)]
      BY <1>1, <1>6
    <2>3. QED
      BY <1>3, <2>1, <2>2, Zenon
  <1>8. QED
    BY <1>4, <1>5, <1>6, <1>7, Zenon DEF n

\* Where a walk stops: the first one, or 0 when there is none.
LEMMA FirstFacts ==
    ASSUME NEW n \in Nat, NEW I \in SUBSET (1 .. n), NEW i, i = IF I # {} THEN Min(I) ELSE 0
    PROVE  /\ i = 0 => I = {}
           /\ i # 0 => /\ i \in I
                       /\ \A j \in 1 .. n : j < i => j \notin I
           /\ i \in 0 .. n
  <1>1. CASE I = {}
    BY <1>1
  <1>2. CASE I # {}
    <2>1. I \in SUBSET Nat
      OBVIOUS
    <2>2. i \in I /\ \A y \in I : i <= y
      BY <1>2, <2>1, LeastNumber, Zenon
    <2>3. \A y \in I : y \in Nat /\ y >= 1 /\ y <= n
      OBVIOUS
    <2>4. QED
      BY <2>2, <2>3
  <1>3. QED
    BY <1>1, <1>2, Zenon

\* The slot for an address is behind the regions that start below it.
LEMMA SlotFacts ==
    ASSUME NEW list \in Seq(Node), NEW addr \in Nat
    PROVE  /\ Slot(list, addr) \in 1 .. Len(list) + 1
           /\ \A j \in 1 .. Slot(list, addr) - 1 : j \in 1 .. Len(list) /\ list[j].start < addr
           /\ Slot(list, addr) <= Len(list) => list[Slot(list, addr)].start >= addr
  <1> DEFINE n == Len(list)
             I == {i \in 1 .. n : list[i].start >= addr}
             i == IF I # {} THEN Min(I) ELSE 0
  <1>1. n \in Nat /\ \A j \in 1 .. n : list[j].start \in Nat
    BY SeqNodeFacts, Zenon
  <1>2. Slot(list, addr) = IF i = 0 THEN n + 1 ELSE i
    BY DEF Slot, First
  <1> HIDE DEF n
  <1>3. I \in SUBSET (1 .. n)
    BY Zenon
  <1>4. /\ i = 0 => I = {}
        /\ i # 0 => i \in I /\ \A j \in 1 .. n : j < i => j \notin I
        /\ i \in 0 .. n
    <2> HIDE DEF I
    <2>1. QED
      BY <1>1, <1>3, FirstFacts, Zenon
  <1> HIDE DEF i
  <1>5. CASE i = 0
    BY <1>1, <1>2, <1>4, <1>5 DEF n
  <1>6. CASE i # 0
    BY <1>1, <1>2, <1>4, <1>6 DEF n
  <1>7. QED
    BY <1>5, <1>6, Zenon

\* A free list none of whose debug assertions has failed.
SoundFree(free) ==
    /\ free \in [list : Seq(Node), ok : {TRUE}]
    /\ Canonical(free.list)

\* add_free_region: a free stretch the list does not know of yet passes every
\* assertion and is added to the list, which stays canonical.
LEMMA AddFreeRegion ==
    ASSUME NEW free, SoundFree(free),
           NEW addr \in Nat, NEW size \in Nat,
           size >= MIN_BLOCK, addr % NODE_ALIGN = 0, InHeap(addr, size),
           \A x \in Int : addr <= x /\ x < addr + size => ~ Covers(free.list, x)
    PROVE  /\ SoundFree(add_free_region(free, addr, size))
           /\ \A x \in Int : Covers(add_free_region(free, addr, size).list, x)
                                <=> Covers(free.list, x) \/ (addr <= x /\ x < addr + size)
  <1> DEFINE list == free.list
             n == Len(list)
             p == Slot(list, addr)
             r == Region(addr, size)
             u == Splice(list, p, r)
  <1>1. /\ list \in Seq(Node) /\ Sound(list) /\ n \in Nat
        /\ \A i \in 1 .. n :
              /\ list[i].start \in Nat /\ list[i].size \in Nat /\ list[i].size >= 16
              /\ end_addr(list[i]) \in Nat
              /\ end_addr(list[i]) = list[i].start + list[i].size
    BY SeqNodeFacts, Zenon DEF SoundFree, Sound
  <1>2. \A i \in 1 .. n - 1 : end_addr(list[i]) < list[i + 1].start
    BY <1>1, SoundIff, Zenon
  <1>3. /\ r \in Node /\ r.start = addr /\ end_addr(r) = addr + size
    BY DEF Region, Node, end_addr
  <1>4. size >= 16
    BY DEF MIN_BLOCK
  <1>5. /\ p \in 1 .. n + 1
        /\ \A j \in 1 .. p - 1 : j \in 1 .. n /\ list[j].start < addr
        /\ p <= n => list[p].start >= addr
    BY <1>1, SlotFacts, Zenon
  <1>c. \A x : Covers(list, x) <=> \E i \in 1 .. n : Within(list[i], x)
    BY DEF Covers
  <1>6. ASSUME NEW i \in 1 .. n
        PROVE  end_addr(list[i]) <= addr \/ list[i].start >= addr + size
    <2>1. \A x \in Int : Within(list[i], x) => ~ (addr <= x /\ x < addr + size)
      BY <1>c, Zenon
    <2>2. ~ Within(list[i], addr)
      BY <1>4, <2>1
    <2>3. list[i].start \in Int /\ Within(list[i], list[i].start)
      BY <1>1, SMTT(30) DEF Within
    <2>4. ~ (addr <= list[i].start /\ list[i].start < addr + size)
      BY <2>1, <2>3, Zenon
    <2>5. QED
      BY <1>1, <2>2, <2>4 DEF Within
  <1>7. add_free_region(free, addr, size)
           = [list |-> coalesce(u), ok |-> free.ok /\ Listable(list, addr, size)]
    BY DEF add_free_region
  <1> HIDE DEF r, p, n
  <1>8. Listable(list, addr, size)
    <2>1. align_up(addr, NODE_ALIGN) = addr
      <3>1. NODE_ALIGN \in Nat \ {0}
        BY DEF NODE_ALIGN
      <3>2. QED
        BY <3>1, AlignUp
    <2>2. ASSUME NEW i \in 1 .. p - 1 PROVE addr >= end_addr(list[i])
      <3>1. i \in 1 .. n /\ list[i].start < addr
        BY <1>5
      <3>2. end_addr(list[i]) <= addr \/ list[i].start >= addr + size
        BY <1>6, <3>1
      <3>3. QED
        BY <1>1, <3>1, <3>2
    <2>3. QED
      BY <2>1, <2>2 DEF Listable, p
  <1>9. /\ u \in Seq(Node) /\ Len(u) = n + 1
        /\ \A j \in 1 .. n + 1 :
              u[j] = IF j < p THEN list[j] ELSE IF j = p THEN r ELSE list[j - 1]
    <2> HIDE DEF list
    <2>1. p \in 1 .. Len(list) + 1
      BY <1>5, Zenon DEF n
    <2>2. QED
      BY <1>1, <1>3, <2>1, SpliceFacts DEF n
  <1> HIDE DEF u, list
  <1>p. p \in Nat /\ p >= 1 /\ p <= n + 1 /\ n \in Nat
    BY <1>1, <1>5
  <1>q. /\ \A j \in 1 .. n + 1 : j < p => u[j] = list[j]
        /\ u[p] = r
        /\ \A j \in 1 .. n + 1 : j > p => u[j] = list[j - 1]
    <2>1. \A j \in 1 .. n + 1 : j \in Nat
      BY <1>p
    <2>2. QED
      BY <1>5, <1>9, <1>p, <2>1
  <1>10. Ascending(u)
    <2>0. Len(u) - 1 = n
      BY <1>9, <1>p
    <2> SUFFICES ASSUME NEW i \in 1 .. n PROVE end_addr(u[i]) <= u[i + 1].start
      BY <2>0, Zenon DEF Ascending
    <2>i. /\ i \in Nat /\ i >= 1 /\ i <= n
          /\ i \in 1 .. n + 1 /\ i + 1 \in 1 .. n + 1 /\ i + 1 - 1 = i
      BY <1>p
    <2>1. CASE i + 1 < p
      <3>1. u[i] = list[i] /\ u[i + 1] = list[i + 1]
        BY <1>p, <1>q, <2>i, <2>1
      <3>2. i \in 1 .. n - 1 /\ i + 1 \in 1 .. n
        BY <1>p, <2>i, <2>1
      <3>3. /\ end_addr(list[i]) < list[i + 1].start
            /\ end_addr(list[i]) \in Nat /\ list[i + 1].start \in Nat
        BY <1>1, <1>2, <3>2, Zenon
      <3>4. QED
        BY <3>1, <3>3
    <2>2. CASE i + 1 = p
      <3>1. u[i] = list[i] /\ u[i + 1] = r
        BY <1>p, <1>q, <2>i, <2>2
      <3>2. list[i].start < addr
        <4>1. i \in 1 .. p - 1
          BY <1>p, <2>i, <2>2
        <4>2. QED
          BY <1>5, <4>1, Zenon
      <3>3. end_addr(list[i]) <= addr \/ list[i].start >= addr + size
        BY <1>6, Zenon
      <3>4. list[i].start \in Nat /\ end_addr(list[i]) \in Nat
        BY <1>1, Zenon
      <3>5. end_addr(list[i]) <= addr
        BY <3>2, <3>3, <3>4
      <3>6. QED
        BY <1>3, <3>1, <3>5, Zenon
    <2>3. CASE i = p
      <3>1. u[i] = r /\ u[i + 1] = list[i]
        BY <1>p, <1>q, <2>i, <2>3
      <3>2. list[i].start >= addr
        BY <1>5, <2>i, <2>3, Zenon
      <3>3. end_addr(list[i]) <= addr \/ list[i].start >= addr + size
        BY <1>6
      <3>4. list[i].start \in Nat /\ end_addr(list[i]) \in Nat /\ end_addr(list[i]) > list[i].start
        BY <1>1, SMTT(30)
      <3>5. list[i].start >= addr + size
        BY <3>2, <3>3, <3>4
      <3>6. QED
        BY <1>3, <3>1, <3>4, <3>5, Zenon
    <2>4. CASE i > p
      <3>1. u[i] = list[i - 1] /\ u[i + 1] = list[i]
        BY <1>p, <1>q, <2>i, <2>4
      <3>2. i - 1 \in 1 .. n - 1 /\ i - 1 \in 1 .. n /\ (i - 1) + 1 = i
        BY <1>p, <2>i, <2>4
      <3>3. /\ end_addr(list[i - 1]) < list[i].start
            /\ end_addr(list[i - 1]) \in Nat /\ list[i].start \in Nat
        BY <1>1, <1>2, <3>2, Zenon
      <3>4. QED
        BY <3>1, <3>3
    <2>5. QED
      BY <1>p, <2>i, <2>1, <2>2, <2>3, <2>4
  <1>11. /\ Sound(coalesce(u))
         /\ \A x \in Int : Covers(coalesce(u), x) <=> Covers(u, x)
    BY <1>9, <1>10, CoalesceSound
  <1>12. ASSUME NEW x \in Int
         PROVE  Covers(u, x) <=> Covers(list, x) \/ (addr <= x /\ x < addr + size)
    <2>1. Covers(u, x) <=> \E j \in 1 .. n + 1 : Within(u[j], x)
      BY <1>9, Zenon DEF Covers
    <2>2. Within(r, x) <=> addr <= x /\ x < addr + size
      BY <1>3, Zenon DEF Within
    <2>3. u[p] = r /\ p \in 1 .. n + 1
      BY <1>5, <1>9
    <2>4. ASSUME NEW j \in 1 .. n + 1, Within(u[j], x)
          PROVE  Covers(list, x) \/ Within(r, x)
      <3>1. j \in Nat /\ j >= 1 /\ j <= n + 1
        BY <1>p
      <3>2. CASE j < p
        BY <1>c, <1>p, <1>q, <2>4, <3>1, <3>2
      <3>3. CASE j = p
        BY <1>q, <2>4, <3>3, Zenon
      <3>4. CASE j > p
        <4>1. j - 1 \in 1 .. n /\ u[j] = list[j - 1]
          BY <1>p, <1>q, <3>1, <3>4
        <4>2. QED
          BY <1>c, <2>4, <4>1, Zenon
      <3>5. QED
        BY <1>p, <3>1, <3>2, <3>3, <3>4
    <2>5. ASSUME NEW j \in 1 .. n, Within(list[j], x) PROVE Covers(u, x)
      <3>1. CASE j < p
        BY <1>1, <1>5, <1>9, <2>1, <2>5, <3>1
      <3>2. CASE j >= p
        <4>1. j + 1 \in 1 .. n + 1 /\ j + 1 > p /\ (j + 1) - 1 = j
          BY <1>p, <3>2
        <4>2. u[j + 1] = list[j]
          BY <1>q, <4>1, Zenon
        <4>3. QED
          BY <2>1, <2>5, <4>1, <4>2, Zenon
      <3>3. QED
        BY <1>1, <1>5, <3>1, <3>2
    <2>6. QED
      BY <1>c, <2>1, <2>2, <2>3, <2>4, <2>5, Zenon
  <1>13. free.ok = TRUE
    BY Zenon DEF SoundFree
  <1>14. add_free_region(free, addr, size) = [list |-> coalesce(u), ok |-> TRUE]
    BY <1>7, <1>8, <1>13, Zenon
  <1>15. QED
    BY <1>11, <1>12, <1>14 DEF SoundFree, Sound, list

\* Unlinking a region keeps the list canonical and takes that region's bytes
\* off it, and no others.
LEMMA RemoveRegion ==
    ASSUME NEW free, SoundFree(free), NEW i \in 1 .. Len(free.list)
    PROVE  /\ SoundFree([free EXCEPT !.list = Unlink(@, i)])
           /\ \A x \in Int : Covers([free EXCEPT !.list = Unlink(@, i)].list, x)
                                <=> Covers(free.list, x) /\ ~ Within(free.list[i], x)
  <1> DEFINE list == free.list
             n == Len(list)
             u == Unlink(list, i)
             rest == [free EXCEPT !.list = Unlink(@, i)]
  <1>1. /\ list \in Seq(Node) /\ Sound(list) /\ n \in Nat
        /\ \A j \in 1 .. n :
              /\ list[j].start \in Nat /\ list[j].size \in Nat /\ list[j].size >= 16
              /\ end_addr(list[j]) \in Nat
              /\ end_addr(list[j]) = list[j].start + list[j].size
    BY SeqNodeFacts, Zenon DEF SoundFree, Sound
  <1>2. \A j, k \in 1 .. n : j < k => end_addr(list[j]) < list[k].start
    BY <1>1, SoundOrdered, Zenon
  <1>3. rest = [list |-> u, ok |-> TRUE]
    <2>1. rest = [free EXCEPT !.list = u]
      OBVIOUS
    <2> HIDE DEF rest, u
    <2>2. free \in [list : Seq(Node), ok : {TRUE}]
      BY Zenon DEF SoundFree
    <2>3. QED
      BY <2>1, <2>2, Zenon
  <1>4. /\ u \in Seq(Node) /\ Len(u) = n - 1
        /\ \A j \in 1 .. n - 1 : u[j] = IF j < i THEN list[j] ELSE list[j + 1]
    <2> HIDE DEF list
    <2>1. i \in 1 .. Len(list)
      BY DEF list
    <2>2. QED
      BY <1>1, <2>1, UnlinkFacts
  <1>c. \A x : Covers(list, x) <=> \E j \in 1 .. n : Within(list[j], x)
    BY DEF Covers
  <1>i. i \in 1 .. n
    OBVIOUS
  <1>l. list = free.list
    OBVIOUS
  <1> HIDE DEF list, n, u, rest
  <1>5. i \in Nat /\ i >= 1 /\ i <= n
    BY <1>1, <1>i
  <1>6. /\ \A j \in 1 .. n - 1 : j < i => u[j] = list[j]
        /\ \A j \in 1 .. n - 1 : j >= i => u[j] = list[j + 1]
    <2>1. \A j \in 1 .. n - 1 : j \in Nat
      BY <1>1
    <2>2. QED
      BY <1>4, <1>5, <2>1
  <1>7. Sound(u)
    <2>1. ASSUME NEW j \in 1 .. Len(u) - 1 PROVE end_addr(u[j]) < u[j + 1].start
      <3>1. /\ j \in Nat /\ j \in 1 .. n - 1 /\ j + 1 \in 1 .. n - 1
            /\ j \in 1 .. n /\ j + 1 \in 1 .. n /\ (j + 1) + 1 \in 1 .. n
        BY <1>1, <1>4
      <3>2. CASE j + 1 < i
        BY <1>2, <1>5, <1>6, <3>1, <3>2
      <3>3. CASE j + 1 = i
        BY <1>2, <1>5, <1>6, <3>1, <3>3
      <3>4. CASE j + 1 > i
        BY <1>2, <1>5, <1>6, <3>1, <3>4
      <3>5. QED
        BY <1>5, <3>1, <3>2, <3>3, <3>4
    <2>2. QED
      BY <1>4, <2>1, SoundIff, Zenon
  <1>8. ASSUME NEW x \in Int
        PROVE  Covers(u, x) <=> Covers(list, x) /\ ~ Within(list[i], x)
    <2>1. Covers(u, x) <=> \E j \in 1 .. n - 1 : Within(u[j], x)
      BY <1>4, Zenon DEF Covers
    <2>2. ASSUME NEW j \in 1 .. n, NEW k \in 1 .. n, j < k, Within(list[j], x)
          PROVE  ~ Within(list[k], x)
      <3>1. end_addr(list[j]) < list[k].start /\ end_addr(list[j]) \in Nat /\ list[k].start \in Nat
        BY <1>1, <1>2, <2>2, Zenon
      <3>2. QED
        BY <2>2, <3>1 DEF Within
    <2>3. ASSUME NEW j \in 1 .. n - 1, Within(u[j], x)
          PROVE  Covers(list, x) /\ ~ Within(list[i], x)
      <3>1. j \in Nat /\ j \in 1 .. n /\ j + 1 \in 1 .. n
        BY <1>1
      <3>2. CASE j < i
        BY <1>c, <1>i, <1>6, <2>2, <2>3, <3>1, <3>2, Zenon
      <3>3. CASE j >= i
        <4>1. i < j + 1 /\ u[j] = list[j + 1]
          BY <1>5, <1>6, <3>1, <3>3
        <4>2. QED
          BY <1>c, <1>i, <2>2, <2>3, <3>1, <4>1, Zenon
      <3>4. QED
        BY <1>5, <3>1, <3>2, <3>3
    <2>4. ASSUME NEW j \in 1 .. n, Within(list[j], x), ~ Within(list[i], x)
          PROVE  Covers(u, x)
      <3>1. j \in Nat /\ j >= 1 /\ j <= n
        BY <1>1
      <3>2. CASE j < i
        <4>1. j \in 1 .. n - 1 /\ u[j] = list[j]
          BY <1>1, <1>5, <1>6, <3>1, <3>2
        <4>2. QED
          BY <2>1, <2>4, <4>1, Zenon
      <3>3. CASE j > i
        <4>1. j - 1 \in 1 .. n - 1 /\ j - 1 >= i /\ (j - 1) + 1 = j
          BY <1>1, <1>5, <3>1, <3>3
        <4>2. u[j - 1] = list[j]
          BY <1>6, <4>1, Zenon
        <4>3. QED
          BY <2>1, <2>4, <4>1, <4>2, Zenon
      <3>4. QED
        BY <1>5, <2>4, <3>1, <3>2, <3>3
    <2>5. QED
      BY <1>c, <2>1, <2>3, <2>4, Zenon
  <1>9. SoundFree(rest)
    BY <1>3, <1>7, Zenon DEF SoundFree, Sound
  <1>10. QED
    BY <1>3, <1>8, <1>9, <1>l, Zenon DEF rest

\* A leftover is listed when a header fits in it, and dropped otherwise.
LEMMA PutBackFacts ==
    ASSUME NEW free, SoundFree(free),
           NEW addr \in Nat, NEW size \in Int,
           size >= MIN_BLOCK => addr % NODE_ALIGN = 0 /\ InHeap(addr, size),
           \A x \in Int : addr <= x /\ x < addr + size => ~ Covers(free.list, x)
    PROVE  /\ SoundFree(PutBack(free, addr, size))
           /\ \A x \in Int : Covers(PutBack(free, addr, size).list, x)
                 <=> Covers(free.list, x) \/ (size >= MIN_BLOCK /\ addr <= x /\ x < addr + size)
  <1>1. CASE size >= MIN_BLOCK
    <2>1. size \in Nat
      BY <1>1 DEF MIN_BLOCK
    <2>2. QED
      BY <1>1, <2>1, AddFreeRegion, Zenon DEF PutBack
  <1>2. CASE ~ (size >= MIN_BLOCK)
    BY <1>2, Zenon DEF PutBack
  <1>3. QED
    BY <1>1, <1>2, Zenon

-----------------------------------------------------------------------------
(* Allocation from the list.                                               *)

\* The size and the alignment alloc and dealloc work with.
LEMMA LayoutFacts ==
    ASSUME NEW l, l.size \in Nat, l.align \in Nat \ {0}, Compatible(l.align, NODE_ALIGN)
    PROVE  /\ allocation_size(l) \in Nat
           /\ allocation_size(l) >= l.size /\ allocation_size(l) >= 16
           /\ allocation_size(l) % 8 = 0
           /\ allocation_align(l) \in Nat \ {0}
           /\ allocation_align(l) % 8 = 0
           /\ allocation_align(l) % l.align = 0
  <1> DEFINE big == Larger(l.size, MIN_BLOCK)
  <1>1. big \in Nat /\ big >= l.size /\ big >= 16
    BY DEF Larger, MIN_BLOCK
  <1>2. allocation_size(l) = align_up(big, 8)
    BY DEF allocation_size, NODE_ALIGN
  <1> HIDE DEF big
  <1>3. align_up(big, 8) \in Nat /\ align_up(big, 8) >= big /\ align_up(big, 8) % 8 = 0
    BY <1>1, AlignUp
  <1>4. CASE l.align > 8
    <2>1. allocation_align(l) = l.align
      BY <1>4 DEF allocation_align, Larger, NODE_ALIGN
    <2>2. l.align % 8 = 0
      BY <1>4 DEF Compatible, NODE_ALIGN
    <2>3. l.align % l.align = 0
      <3>1. (1 * l.align) % l.align = 0
        BY MultipleMod, Zenon
      <3>2. QED
        BY <3>1
    <2>4. QED
      BY <1>1, <1>2, <1>3, <2>1, <2>2, <2>3
  <1>5. CASE ~ (l.align > 8)
    <2>1. allocation_align(l) = 8
      BY <1>5 DEF allocation_align, Larger, NODE_ALIGN
    <2>2. 8 % l.align = 0
      BY <1>5 DEF Compatible, NODE_ALIGN
    <2>3. QED
      BY <1>1, <1>2, <1>3, <2>1, <2>2
  <1>6. QED
    BY <1>4, <1>5, Zenon

\* find_region cuts the block out of its region: the list stays canonical and
\* keeps every other byte, but for leftovers too small for a header.
LEMMA FindRegion ==
    ASSUME NEW free, SoundFree(free), NEW i \in 1 .. Len(free.list),
           NEW size \in Nat, size >= 16, size % 8 = 0,
           NEW align \in Nat \ {0}, align % 8 = 0,
           NEW addr, addr = align_up(free.list[i].start, align),
           addr + size <= end_addr(free.list[i]),
           NEW found, found = find_region(free, i, size, align)
    PROVE  /\ found.addr = addr
           /\ addr \in Nat /\ addr % align = 0 /\ InHeap(addr, size)
           /\ SoundFree(found.free)
           /\ \A x \in Int : addr <= x /\ x < addr + size => Within(free.list[i], x)
           /\ \A x \in Int : Covers(found.free.list, x) <=>
                 \/ Covers(free.list, x) /\ ~ Within(free.list[i], x)
                 \/ /\ addr - free.list[i].start >= 16
                    /\ free.list[i].start <= x /\ x < addr
                 \/ /\ end_addr(free.list[i]) - (addr + size) >= 16
                    /\ addr + size <= x /\ x < end_addr(free.list[i])
  <1> DEFINE r == free.list[i]
             lo == r.start
             hi == end_addr(r)
             rest == [free EXCEPT !.list = Unlink(@, i)]
             front == PutBack(rest, lo, addr - lo)
             back == PutBack(front, addr + size, hi - (addr + size))
  <1>1. /\ r \in Node /\ lo \in Nat /\ hi \in Nat /\ lo % 8 = 0
        /\ HeapStart <= lo /\ hi <= HeapEnd
    <2>1. free.list \in Seq(Node)
      BY Zenon DEF SoundFree
    <2>2. r \in Node
      BY <2>1, SeqNodeFacts, Zenon
    <2> HIDE DEF r
    <2>3. QED
      BY <2>2, NodeFacts, Zenon DEF InHeap
  <1>2. found = [addr |-> addr, free |-> back]
    BY DEF find_region
  <1>3. /\ SoundFree(rest)
        /\ \A x \in Int : Covers(rest.list, x) <=> Covers(free.list, x) /\ ~ Within(r, x)
    BY RemoveRegion, Zenon
  <1>w. \A x : Within(r, x) <=> lo <= x /\ x < hi
    BY DEF Within
  <1>g. addr = align_up(lo, align) /\ addr + size <= hi
    OBVIOUS
  <1> HIDE DEF r, lo, hi, rest
  <1>h. HeapStart \in Nat /\ HeapEnd \in Nat
    BY HeapAssumption DEF HeapEnd
  <1>4. addr \in Nat /\ addr >= lo /\ addr % align = 0
    BY <1>1, <1>g, AlignUp
  <1>5. addr % 8 = 0
    BY <1>4, Divides
  <1>6. (addr + size) % 8 = 0 /\ addr + size \in Nat
    BY <1>4, <1>5, SumOfEights, Zenon
  <1>7. InHeap(addr, size)
    BY <1>1, <1>4, <1>g, <1>h, SMTT(30) DEF InHeap
  <1>8. /\ SoundFree(front)
        /\ \A x \in Int : Covers(front.list, x)
              <=> Covers(rest.list, x) \/ (addr - lo >= MIN_BLOCK /\ lo <= x /\ x < lo + (addr - lo))
    <2>1. addr - lo \in Int /\ lo + (addr - lo) = addr
      BY <1>1, <1>4, Distance, Zenon
    <2>2. lo % NODE_ALIGN = 0 /\ InHeap(lo, addr - lo)
      BY <1>1, <1>4, <1>g, <1>h, <2>1, SMTT(30) DEF NODE_ALIGN, InHeap
    <2>3. \A x \in Int : lo <= x /\ x < addr => Within(r, x)
      BY <1>1, <1>4, <1>g, <1>w, SMTT(30)
    <2>4. \A x \in Int : lo <= x /\ x < lo + (addr - lo) => ~ Covers(rest.list, x)
      BY <1>3, <2>1, <2>3
    <2>5. QED
      BY <1>1, <1>3, <2>1, <2>2, <2>4, PutBackFacts, Zenon
  <1> HIDE DEF front
  <1>9. /\ SoundFree(back)
        /\ \A x \in Int : Covers(back.list, x)
              <=> Covers(front.list, x)
                  \/ (hi - (addr + size) >= MIN_BLOCK /\ addr + size <= x
                         /\ x < (addr + size) + (hi - (addr + size)))
    <2>1. hi - (addr + size) \in Int /\ (addr + size) + (hi - (addr + size)) = hi
      BY <1>1, <1>6, Distance, Zenon
    <2>2. (addr + size) % NODE_ALIGN = 0 /\ InHeap(addr + size, hi - (addr + size))
      <3>1. (addr + size) % NODE_ALIGN = 0
        BY <1>6, Zenon DEF NODE_ALIGN
      <3>2. HeapStart <= addr + size
        BY <1>7, <1>4, <1>h DEF InHeap
      <3>3. QED
        BY <1>1, <2>1, <3>1, <3>2, Zenon DEF InHeap
    <2>3. \A x \in Int : addr + size <= x /\ x < hi => Within(r, x) /\ ~ (x < addr)
      BY <1>1, <1>4, <1>w, SMTT(30)
    <2>4. lo + (addr - lo) = addr
      BY <1>1, <1>4, Distance, Zenon
    <2>5. \A x \in Int : addr + size <= x /\ x < (addr + size) + (hi - (addr + size))
                             => ~ Covers(front.list, x)
      BY <1>3, <1>8, <2>1, <2>3, <2>4, Zenon
    <2>6. QED
      BY <1>6, <1>8, <2>1, <2>2, <2>5, PutBackFacts
  <1> HIDE DEF back
  <1>10. \A x \in Int : addr <= x /\ x < addr + size => Within(r, x)
    BY <1>1, <1>4, <1>g, <1>w, SMTT(30)
  <1>11. \A x \in Int : Covers(back.list, x) <=>
                 \/ Covers(free.list, x) /\ ~ Within(r, x)
                 \/ addr - lo >= 16 /\ lo <= x /\ x < addr
                 \/ hi - (addr + size) >= 16 /\ addr + size <= x /\ x < hi
    <2>1. lo + (addr - lo) = addr /\ (addr + size) + (hi - (addr + size)) = hi
      BY <1>1, <1>4, <1>6, Distance, Zenon
    <2>2. QED
      BY <1>3, <1>8, <1>9, <2>1, Zenon DEF MIN_BLOCK
  <1>12. found.addr = addr /\ found.free = back
    BY <1>2
  <1>13. QED
    BY <1>4, <1>7, <1>9, <1>10, <1>11, <1>12, Zenon DEF r, lo, hi

\* A block of a free list: where it may be and what it takes from the list.
\* All but the bytes of the block and of two leftovers smaller than a header
\* stays on the list.
Taken(free, l, found) ==
    /\ found.addr \in Nat
    /\ found.addr % allocation_align(l) = 0
    /\ InHeap(found.addr, allocation_size(l))
    /\ SoundFree(found.free)
    /\ \A x \in Int : found.addr <= x /\ x < found.addr + allocation_size(l)
                         => Covers(free.list, x) /\ ~ Covers(found.free.list, x)
    /\ \A x \in Int : Covers(found.free.list, x) => Covers(free.list, x)
    /\ \E lo, hi \in Nat : \A x \in Int :
          Covers(free.list, x) =>
             \/ Covers(found.free.list, x)
             \/ found.addr <= x /\ x < found.addr + allocation_size(l)
             \/ lo <= x /\ x < lo + MIN_BLOCK - 1
             \/ hi <= x /\ x < hi + MIN_BLOCK - 1

\* No region of the list can hold the block.
NoFit(list, l) ==
    \A i \in 1 .. Len(list) :
        ~ (align_up(list[i].start, allocation_align(l)) + allocation_size(l) <= end_addr(list[i]))

\* alloc on the free list takes a block, or there is no region for it.
LEMMA FreeListAllocFacts ==
    ASSUME NEW free, SoundFree(free),
           NEW l, l.size \in Nat, l.align \in Nat \ {0}, Compatible(l.align, NODE_ALIGN),
           NEW found, found = FreeListAlloc(free, l)
    PROVE  \/ found.addr = Null /\ found.free = free /\ NoFit(free.list, l)
           \/ Taken(free, l, found)
  <1> DEFINE size == allocation_size(l)
             align == allocation_align(l)
             list == free.list
             n == Len(list)
             I == {i \in 1 .. n : align_up(list[i].start, align) + size <= end_addr(list[i])}
             i == IF I # {} THEN Min(I) ELSE 0
  <1>1. /\ size \in Nat /\ size >= 16 /\ size % 8 = 0
        /\ align \in Nat \ {0} /\ align % 8 = 0
    BY LayoutFacts
  <1>2. list \in Seq(Node) /\ n \in Nat
    BY SeqNodeFacts DEF SoundFree
  <1>3. found = IF i = 0 THEN [addr |-> Null, free |-> free] ELSE find_region(free, i, size, align)
    BY Zenon DEF FreeListAlloc, Fit, First
  <1>4. NoFit(list, l) <=> I = {}
    BY Zenon DEF NoFit
  <1>5. I \in SUBSET (1 .. n)
    OBVIOUS
  <1>6. /\ i = 0 => I = {}
        /\ i # 0 => i \in I
    <2> HIDE DEF I, n
    <2>1. QED
      BY <1>2, <1>5, FirstFacts, Zenon
  <1>7. CASE i = 0
    <2> HIDE DEF i, I, list
    <2>1. found = [addr |-> Null, free |-> free]
      BY <1>3, <1>7
    <2>2. QED
      BY <1>4, <1>6, <1>7, <2>1 DEF list
  <1>8. CASE i # 0
    <2> DEFINE r == list[i]
               addr == align_up(r.start, align)
               hi == end_addr(r)
    <2>1. i \in 1 .. n /\ addr + size <= hi
      BY <1>6, <1>8, Zenon
    <2> HIDE DEF i, I, size, align
    <2>2. found = find_region(free, i, size, align)
      BY <1>3, <1>8
    <2>3. /\ found.addr = addr
          /\ addr \in Nat /\ addr % align = 0 /\ InHeap(addr, size)
          /\ SoundFree(found.free)
          /\ \A x \in Int : addr <= x /\ x < addr + size => Within(r, x)
          /\ \A x \in Int : Covers(found.free.list, x) <=>
                 \/ Covers(list, x) /\ ~ Within(r, x)
                 \/ addr - r.start >= 16 /\ r.start <= x /\ x < addr
                 \/ hi - (addr + size) >= 16 /\ addr + size <= x /\ x < hi
      BY <1>1, <2>1, <2>2, FindRegion, SMTT(30)
    <2>4. r \in Node
      BY <1>2, <2>1, SeqNodeFacts
    <2>5. \A x \in Int : Within(r, x) => Covers(list, x)
      BY <2>1 DEF Covers
    <2> HIDE DEF r, list
    <2>6. r.start \in Nat /\ hi \in Nat /\ addr >= r.start
      BY <1>1, <2>4, NodeFacts, AlignUp
    <2>7. \A x : Within(r, x) <=> r.start <= x /\ x < hi
      BY DEF Within
    <2> HIDE DEF addr, hi
    <2> DEFINE lo == r.start
    <2>8. lo \in Nat
      BY <2>6
    <2>9. addr + size <= hi /\ addr >= lo
      BY <2>1, <2>6
    <2> HIDE DEF lo
    <2>10. ASSUME NEW x \in Int, addr <= x, x < addr + size
           PROVE  Covers(list, x) /\ ~ Covers(found.free.list, x)
      <3>1. Within(r, x) /\ Covers(list, x)
        BY <2>3, <2>5, <2>10
      <3>2. ~ (x < addr) /\ ~ (addr + size <= x)
        BY <1>1, <2>3, <2>10
      <3>3. QED
        BY <2>3, <3>1, <3>2
    <2>11. ASSUME NEW x \in Int, Covers(found.free.list, x) PROVE Covers(list, x)
      <3>1. CASE Covers(list, x)
        BY <3>1
      <3>2. CASE r.start <= x /\ x < addr
        <4>1. x < hi
          BY <1>1, <2>3, <2>6, <2>9, <3>2
        <4>2. QED
          BY <2>5, <2>7, <3>2, <4>1
      <3>3. CASE addr + size <= x /\ x < hi
        <4>1. r.start <= x
          BY <1>1, <2>3, <2>6, <3>3
        <4>2. QED
          BY <2>5, <2>7, <3>3, <4>1
      <3>4. QED
        BY <2>3, <2>11, <3>1, <3>2, <3>3
    <2>12. ASSUME NEW x \in Int, Covers(list, x)
           PROVE  \/ Covers(found.free.list, x)
                  \/ addr <= x /\ x < addr + size
                  \/ lo <= x /\ x < lo + 15
                  \/ addr + size <= x /\ x < addr + size + 15
      <3>1. CASE ~ Within(r, x)
        BY <2>3, <2>12, <3>1
      <3>2. CASE Within(r, x)
        <4>1. lo <= x /\ x < hi
          BY <2>7, <3>2 DEF lo
        <4>2. CASE x < addr
          <5>1. CASE addr - lo >= 16
            BY <2>3, <4>1, <4>2, <5>1, Zenon DEF lo
          <5>2. CASE ~ (addr - lo >= 16)
            BY <2>3, <2>8, <4>1, <4>2, <5>2
          <5>3. QED
            BY <5>1, <5>2
        <4>3. CASE addr + size <= x
          <5>1. CASE hi - (addr + size) >= 16
            BY <2>3, <4>1, <4>3, <5>1, Zenon
          <5>2. CASE ~ (hi - (addr + size) >= 16)
            BY <1>1, <2>3, <2>6, <4>1, <4>3, <5>2
          <5>3. QED
            BY <5>1, <5>2, Zenon
        <4>4. QED
          BY <1>1, <2>3, <4>2, <4>3
      <3>3. QED
        BY <3>1, <3>2
    <2>13. lo \in Nat /\ addr + size \in Nat /\ \A y \in Nat : y + MIN_BLOCK - 1 = y + 15
      BY <1>1, <2>3, <2>8 DEF MIN_BLOCK
    <2>14. \E a, b \in Nat : \A x \in Int :
              Covers(list, x) =>
                 \/ Covers(found.free.list, x)
                 \/ addr <= x /\ x < addr + size
                 \/ a <= x /\ x < a + MIN_BLOCK - 1
                 \/ b <= x /\ x < b + MIN_BLOCK - 1
      <3> DEFINE top == addr + size
      <3>1. top \in Nat /\ lo \in Nat
        BY <2>13, Zenon
      <3>2. \A x \in Int :
              Covers(list, x) =>
                 \/ Covers(found.free.list, x)
                 \/ addr <= x /\ x < addr + size
                 \/ lo <= x /\ x < lo + MIN_BLOCK - 1
                 \/ top <= x /\ x < top + MIN_BLOCK - 1
        BY <2>12, <2>13, Zenon
      <3> HIDE DEF top
      <3>3. QED
        BY <3>1, <3>2, Zenon
    <2>15. Taken(free, l, found)
      BY <2>3, <2>10, <2>11, <2>14, Zenon DEF Taken, list, size, align
    <2>16. QED
      BY <2>15
  <1>9. QED
    BY <1>7, <1>8

\* init lists the heap from its first aligned address on, or nothing when a
\* header does not fit.
LEMMA FreeListInitFacts ==
    /\ SoundFree(FreeListInit)
    /\ \A x \in Int : Covers(FreeListInit.list, x) => HeapStart <= x /\ x < HeapEnd
  <1> DEFINE start == align_up(HeapStart, NODE_ALIGN)
             none == [list |-> <<>>, ok |-> TRUE]
             size == HeapEnd - start
  <1>1. HeapStart \in Nat /\ HeapEnd \in Nat
    BY HeapAssumption DEF HeapEnd
  <1>2. start \in Nat /\ start >= HeapStart /\ start % NODE_ALIGN = 0
    BY <1>1, AlignUp DEF NODE_ALIGN
  <1>3. SoundFree(none) /\ \A x \in Int : ~ Covers(none.list, x)
    BY EmptyList DEF SoundFree, Sound
  <1>4. FreeListInit = PutBack(none, start, size)
    BY DEF FreeListInit
  <1>5. size \in Int /\ start + size = HeapEnd
    <2> HIDE DEF start
    <2>1. QED
      BY <1>1, <1>2, Distance
  <1> HIDE DEF start, size, none
  <1>6. start % NODE_ALIGN = 0 /\ InHeap(start, size)
    BY <1>1, <1>2, <1>5 DEF InHeap
  <1>7. /\ SoundFree(PutBack(none, start, size))
        /\ \A x \in Int : Covers(PutBack(none, start, size).list, x)
              <=> Covers(none.list, x) \/ (size >= MIN_BLOCK /\ start <= x /\ x < start + size)
    BY <1>2, <1>3, <1>5, <1>6, PutBackFacts, Zenon
  <1>8. ASSUME NEW x \in Int, Covers(FreeListInit.list, x) PROVE HeapStart <= x /\ x < HeapEnd
    <2>1. start <= x /\ x < start + size
      BY <1>3, <1>4, <1>7, <1>8
    <2>2. QED
      BY <1>1, <1>2, <1>5, <2>1
  <1>9. QED
    BY <1>4, <1>7, <1>8

\* First fit misses no room: when no region of a canonical list can hold the
\* block, no aligned stretch of listed bytes can, because no two regions touch.
LEMMA NoFitNoRoom ==
    ASSUME NEW free, SoundFree(free),
           NEW l, l.size \in Nat, l.align \in Nat \ {0}, Compatible(l.align, NODE_ALIGN),
           NoFit(free.list, l),
           NEW addr \in Nat, addr % allocation_align(l) = 0
    PROVE  \E x \in addr .. addr + allocation_size(l) - 1 : ~ Covers(free.list, x)
  <1> DEFINE size == allocation_size(l)
             align == allocation_align(l)
             list == free.list
             n == Len(list)
  <1>1. size \in Nat /\ size >= 16 /\ align \in Nat \ {0}
    BY LayoutFacts, Zenon
  <1>2. /\ list \in Seq(Node) /\ Sound(list) /\ n \in Nat
        /\ \A j \in 1 .. n :
              /\ list[j].start \in Nat /\ list[j].size \in Nat /\ list[j].size >= 16
              /\ end_addr(list[j]) \in Nat
              /\ end_addr(list[j]) = list[j].start + list[j].size
    BY SeqNodeFacts, Zenon DEF SoundFree, Sound
  <1>3. \A j, k \in 1 .. n : j < k => end_addr(list[j]) < list[k].start
    BY <1>2, SoundOrdered, Zenon
  <1>c. \A x : Covers(list, x) <=> \E j \in 1 .. n : Within(list[j], x)
    BY DEF Covers
  <1>f. \A i \in 1 .. n : ~ (align_up(list[i].start, align) + size <= end_addr(list[i]))
    BY DEF NoFit
  <1>a. addr % align = 0
    OBVIOUS
  <1> HIDE DEF size, align, n, list
  <1> SUFFICES ASSUME \A x \in addr .. addr + size - 1 : Covers(list, x) PROVE FALSE
    BY DEF size, list
  <1>4. addr \in addr .. addr + size - 1
    BY <1>1
  <1>5. PICK i \in 1 .. n : Within(list[i], addr)
    BY <1>4, <1>c
  <1> DEFINE lo == list[i].start
             hi == end_addr(list[i])
  <1>6. lo \in Nat /\ hi \in Nat /\ lo <= addr /\ addr < hi
    BY <1>2, <1>5, Zenon DEF Within
  <1>7. ~ Covers(list, hi)
    <2> SUFFICES ASSUME NEW j \in 1 .. n, Within(list[j], hi) PROVE FALSE
      BY <1>c, Zenon
    <2>1. /\ list[j].start \in Nat /\ end_addr(list[j]) \in Nat
          /\ list[j].start <= hi /\ hi < end_addr(list[j])
      BY <1>2, Zenon DEF Within
    <2>2. CASE i < j
      BY <1>3, <1>6, <2>1, <2>2
    <2>3. CASE j < i
      <3>1. end_addr(list[j]) < lo
        BY <1>3, <2>3, Zenon
      <3>2. QED
        BY <1>6, <2>1, <3>1
    <2>4. CASE i = j
      BY <1>6, <2>1, <2>4
    <2>5. i \in Nat /\ j \in Nat
      BY <1>2
    <2>6. QED
      BY <2>2, <2>3, <2>4, <2>5
  <1>8. align_up(lo, align) <= addr
    <2> HIDE DEF lo
    <2>1. QED
      BY <1>1, <1>6, <1>a, AlignUp, Zenon
  <1>9. align_up(lo, align) \in Nat
    <2> HIDE DEF lo
    <2>1. QED
      BY <1>1, <1>6, AlignUp, Zenon
  <1>10. ~ (align_up(lo, align) + size <= hi)
    BY <1>f
  <1> HIDE DEF lo, hi
  <1>11. hi \in addr .. addr + size - 1
    BY <1>1, <1>6, <1>8, <1>9, <1>10
  <1>12. QED
    BY <1>7, <1>11, Zenon

-----------------------------------------------------------------------------
(* Blocks in callers' hands.                                               *)

\* What the assumptions say of a layout in use.
LEMMA LayoutTypes ==
    ASSUME NEW l \in Layouts
    PROVE  /\ l \in [size : Nat \ {0}, align : Nat \ {0}]
           /\ l.size \in Nat \ {0} /\ l.align \in Nat \ {0}
           /\ Compatible(l.align, NODE_ALIGN)
  BY HeapAssumption, AlignAssumption

\* A block carries its address and its layout.
LEMMA BlockFacts ==
    ASSUME NEW addr \in Nat, NEW l \in [size : Nat \ {0}, align : Nat \ {0}]
    PROVE  /\ Block(addr, l) \in [addr : Nat, size : Nat \ {0}, align : Nat \ {0}]
           /\ Block(addr, l).addr = addr
           /\ Block(addr, l).size = l.size /\ Block(addr, l).align = l.align
           /\ LayoutOf(Block(addr, l)) = l
  BY DEF Block, LayoutOf

\* Stretches that share no byte lie one behind the other.
LEMMA DisjointApart ==
    ASSUME NEW a \in Nat, NEW m \in Nat \ {0}, NEW b \in Nat, NEW n \in Nat \ {0},
           \A x \in Bytes(a, m) : x \notin Bytes(b, n)
    PROVE  Apart(a, m, b, n) /\ Apart(b, n, a, m)
  <1>1. CASE a <= b
    <2>1. b \in Bytes(b, n)
      BY DEF Bytes
    <2>2. b \notin Bytes(a, m)
      BY <2>1
    <2>3. QED
      BY <1>1, <2>2 DEF Bytes, Apart
  <1>2. CASE b <= a
    <2>1. a \in Bytes(a, m)
      BY DEF Bytes
    <2>2. a \notin Bytes(b, n)
      BY <2>1
    <2>3. QED
      BY <1>2, <2>2 DEF Bytes, Apart
  <1>3. QED
    BY <1>1, <1>2
=============================================================================

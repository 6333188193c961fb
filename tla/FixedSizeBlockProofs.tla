------------------------ MODULE FixedSizeBlockProofs -------------------------
(***************************************************************************)
(* For every heap, every set of layouts and every table of size classes,   *)
(* the global allocator keeps its two layers apart, refuses a request only *)
(* when there is no room for it, never reports too many free bytes, and    *)
(* implements the allocator contract.                                      *)
(***************************************************************************)
EXTENDS FixedSizeBlock, AllocatorLemmas

\* The bytes reserved for a block, and the blocks on the list of a class.
Reserved(b) == Extent(LayoutOf(b))
Kept(i) == Range(list_heads[i])

\* A block as alloc hands it out, from a class or from the fallback.
Held(b) ==
    /\ b \in [addr : Nat, size : Nat \ {0}, align : Nat \ {0}]
    /\ LayoutOf(b) \in Layouts
    /\ b.addr % allocation_align(BlockLayout(LayoutOf(b))) = 0
    /\ InHeap(b.addr, Reserved(b))

\* A block on the list of class i.
Stored(i, a) ==
    /\ BLOCK_SIZES[i] >= MIN_BLOCK
    /\ a % BLOCK_SIZES[i] = 0
    /\ InHeap(a, BLOCK_SIZES[i])

\* Each of the three kinds of memory is sound.
PartsSound ==
    /\ SoundFree(fallback_allocator)
    /\ list_heads \in [Classes -> Seq(Nat)]
    /\ \A b \in live : Held(b)
    /\ \A i \in Classes : /\ IsInjective(list_heads[i])
                         /\ \A a \in Kept(i) : Stored(i, a)

\* No two of them share a byte.
PartsApart ==
    /\ \A b, c \in live : b # c => Apart(b.addr, Reserved(b), c.addr, Reserved(c))
    /\ \A b \in live, i \in Classes : \A a \in Kept(i) :
           Apart(b.addr, Reserved(b), a, BLOCK_SIZES[i])
    /\ \A i, k \in Classes : \A a \in Kept(i), d \in Kept(k) :
           i # k \/ a # d => Apart(a, BLOCK_SIZES[i], d, BLOCK_SIZES[k])
    /\ \A b \in live : \A x \in Bytes(b.addr, Reserved(b)) :
           ~ Covers(fallback_allocator.list, x)
    /\ \A i \in Classes : \A a \in Kept(i) : \A x \in Bytes(a, BLOCK_SIZES[i]) :
           ~ Covers(fallback_allocator.list, x)

\* The inductive invariant.
IInv == PartsSound /\ PartsApart

-----------------------------------------------------------------------------
(* Classes and extents.                                                    *)

\* The size of a class.
LEMMA ClassSizes ==
    /\ Classes = 1 .. Len(BLOCK_SIZES) /\ Len(BLOCK_SIZES) \in Nat
    /\ \A i \in Classes : /\ BLOCK_SIZES[i] \in Nat \ {0}
                         /\ Compatible(BLOCK_SIZES[i], NODE_ALIGN)
                         /\ \A l \in Layouts : Compatible(l.align, BLOCK_SIZES[i])
  <1>1. /\ BLOCK_SIZES \in Seq(Nat \ {0})
        /\ \A i \in 1 .. Len(BLOCK_SIZES) :
              /\ Compatible(BLOCK_SIZES[i], NODE_ALIGN)
              /\ \A l \in Layouts : Compatible(l.align, BLOCK_SIZES[i])
    BY ClassAssumption, Zenon
  <1>2. /\ Classes = 1 .. Len(BLOCK_SIZES) /\ Len(BLOCK_SIZES) \in Nat
        /\ \A i \in 1 .. Len(BLOCK_SIZES) : BLOCK_SIZES[i] \in Nat \ {0}
    BY <1>1, SeqFacts, Zenon DEF Classes
  <1>3. QED
    BY <1>1, <1>2

\* list_index finds a class that holds the layout, or none.
LEMMA IndexFacts ==
    ASSUME NEW l \in Layouts
    PROVE  /\ list_index(l) \in 0 .. Len(BLOCK_SIZES)
           /\ list_index(l) # 0 => /\ list_index(l) \in Classes
                                   /\ BLOCK_SIZES[list_index(l)] >= l.size
                                   /\ BLOCK_SIZES[list_index(l)] >= l.align
  <1> DEFINE n == Len(BLOCK_SIZES)
             need == Larger(l.size, l.align)
             I == {i \in 1 .. n : BLOCK_SIZES[i] >= need}
             i == IF I # {} THEN Min(I) ELSE 0
  <1>1. list_index(l) = i
    BY DEF list_index, First
  <1>2. /\ n \in Nat /\ Classes = 1 .. n
        /\ \A k \in 1 .. n : BLOCK_SIZES[k] \in Nat
    BY ClassSizes, Zenon
  <1>3. need \in Nat /\ need >= l.size /\ need >= l.align
    BY LayoutTypes DEF Larger
  <1> HIDE DEF n, need
  <1>4. I \in SUBSET (1 .. n)
    BY Zenon
  <1>5. /\ i # 0 => i \in I
        /\ i \in 0 .. n
    <2> HIDE DEF I
    <2>1. QED
      BY <1>2, <1>4, FirstFacts, Zenon
  <1> HIDE DEF i
  <1>6. i # 0 => /\ i \in Classes
                 /\ BLOCK_SIZES[i] >= l.size /\ BLOCK_SIZES[i] >= l.align
    <2>1. SUFFICES ASSUME i # 0
                   PROVE  /\ i \in Classes
                          /\ BLOCK_SIZES[i] >= l.size /\ BLOCK_SIZES[i] >= l.align
      OBVIOUS
    <2>2. i \in 1 .. n /\ BLOCK_SIZES[i] >= need /\ BLOCK_SIZES[i] \in Nat
      BY <1>2, <1>5, <2>1, Zenon
    <2>3. l.size \in Nat /\ l.align \in Nat
      BY LayoutTypes, Zenon
    <2>4. QED
      BY <1>2, <1>3, <2>2, <2>3
  <1>7. QED
    BY <1>1, <1>5, <1>6, Zenon DEF n

\* The layout the fallback is asked for covers the caller's.
LEMMA BlockLayoutFacts ==
    ASSUME NEW l \in Layouts
    PROVE  /\ BlockLayout(l).size \in Nat /\ BlockLayout(l).size >= l.size
           /\ BlockLayout(l).align \in Nat \ {0}
           /\ BlockLayout(l).align % l.align = 0
           /\ Compatible(BlockLayout(l).align, NODE_ALIGN)
  <1>1. /\ l.size \in Nat \ {0} /\ l.align \in Nat \ {0}
        /\ Compatible(l.align, NODE_ALIGN)
    BY LayoutTypes, Zenon
  <1>2. CASE list_index(l) = 0
    <2>1. BlockLayout(l) = l
      BY <1>2 DEF BlockLayout
    <2>2. l.align % l.align = 0
      BY <1>1, MultipleMod
    <2>3. QED
      BY <1>1, <2>1, <2>2
  <1>3. CASE list_index(l) # 0
    <2> DEFINE i == list_index(l)
               c == BLOCK_SIZES[i]
    <2>1. i \in Classes /\ c >= l.size /\ c >= l.align
      BY <1>3, IndexFacts, Zenon
    <2>2. /\ c \in Nat \ {0} /\ Compatible(c, NODE_ALIGN)
          /\ Compatible(l.align, c)
      BY <2>1, ClassSizes, Zenon
    <2>3. BlockLayout(l) = [size |-> c, align |-> c]
      BY <1>3, Zenon DEF BlockLayout
    <2> HIDE DEF c
    <2>4. c % l.align = 0
      BY <1>1, <2>1, <2>2, Zenon DEF Compatible
    <2>5. QED
      BY <2>1, <2>2, <2>3, <2>4
  <1>4. QED
    BY <1>2, <1>3, Zenon

\* What the fallback sets aside for a layout is enough for it.
LEMMA ExtentFacts ==
    ASSUME NEW l \in Layouts
    PROVE  /\ Extent(l) \in Nat \ {0} /\ Extent(l) >= MIN_BLOCK /\ Extent(l) >= l.size
           /\ allocation_align(BlockLayout(l)) \in Nat \ {0}
           /\ allocation_align(BlockLayout(l)) % NODE_ALIGN = 0
           /\ allocation_align(BlockLayout(l)) % l.align = 0
  <1> DEFINE B == BlockLayout(l)
  <1>1. /\ B.size \in Nat /\ B.size >= l.size
        /\ B.align \in Nat \ {0} /\ B.align % l.align = 0
        /\ Compatible(B.align, NODE_ALIGN)
    BY BlockLayoutFacts
  <1>2. Extent(l) = allocation_size(B)
    BY Zenon DEF Extent
  <1> HIDE DEF B
  <1>3. /\ allocation_size(B) \in Nat
        /\ allocation_size(B) >= B.size /\ allocation_size(B) >= 16
        /\ allocation_align(B) \in Nat \ {0}
        /\ allocation_align(B) % 8 = 0
        /\ allocation_align(B) % B.align = 0
    BY <1>1, LayoutFacts
  <1>4. l.size \in Nat /\ l.align \in Nat \ {0}
    BY LayoutTypes
  <1>5. allocation_align(B) % l.align = 0
    BY <1>1, <1>3, <1>4, Divides, Zenon
  <1>6. Extent(l) \in Nat \ {0} /\ Extent(l) >= MIN_BLOCK /\ Extent(l) >= l.size
    BY <1>1, <1>2, <1>3, <1>4 DEF MIN_BLOCK
  <1>7. QED
    BY <1>3, <1>5, <1>6, Zenon DEF B, NODE_ALIGN

\* A block of a class that is cached fills its class exactly.
LEMMA CachedExtent ==
    ASSUME NEW l \in Layouts, list_index(l) # 0, BLOCK_SIZES[list_index(l)] >= MIN_BLOCK
    PROVE  /\ Extent(l) = BLOCK_SIZES[list_index(l)]
           /\ allocation_align(BlockLayout(l)) = BLOCK_SIZES[list_index(l)]
           /\ Caches(l)
  <1> DEFINE i == list_index(l)
             c == BLOCK_SIZES[i]
  <1>1. i \in Classes
    BY IndexFacts, Zenon
  <1>2. c \in Nat \ {0} /\ Compatible(c, NODE_ALIGN) /\ c >= 16
    BY <1>1, ClassSizes, Zenon DEF MIN_BLOCK
  <1>3. BlockLayout(l) = [size |-> c, align |-> c]
    BY DEF BlockLayout
  <1>4. Caches(l) <=> i # 0 /\ c >= MIN_BLOCK /\ c >= NODE_ALIGN
    BY DEF Caches
  <1> HIDE DEF c
  <1>5. c % 8 = 0
    BY <1>2 DEF Compatible, NODE_ALIGN
  <1>6. align_up(c, 8) \in Nat /\ align_up(c, 8) >= c /\ align_up(c, 8) <= c
    BY <1>2, <1>5, AlignUp
  <1>7. align_up(c, 8) = c
    BY <1>2, <1>6
  <1>8. Larger(c, 16) = c /\ Larger(c, 8) = c
    BY <1>2 DEF Larger
  <1>9. Extent(l) = c
    BY <1>3, <1>7, <1>8 DEF Extent, allocation_size, MIN_BLOCK, NODE_ALIGN
  <1>10. allocation_align(BlockLayout(l)) = c
    BY <1>3, <1>8 DEF allocation_align, NODE_ALIGN
  <1>11. Caches(l)
    BY <1>2, <1>4 DEF MIN_BLOCK, NODE_ALIGN, c
  <1>12. QED
    BY <1>9, <1>10, <1>11, Zenon DEF c

\* Any other block goes back to the fallback with the extent it came with: in
\* a class too small for a header both round up to one header.
LEMMA UncachedExtent ==
    ASSUME NEW l \in Layouts, ~ Caches(l)
    PROVE  Extent(l) = allocation_size(l)
  <1>1. CASE list_index(l) = 0
    BY <1>1, Zenon DEF Extent, BlockLayout
  <1>2. CASE list_index(l) # 0
    <2> DEFINE i == list_index(l)
               c == BLOCK_SIZES[i]
    <2>1. i \in Classes /\ c >= l.size
      BY <1>2, IndexFacts, Zenon
    <2>2. c \in Nat \ {0} /\ l.size \in Nat
      BY <2>1, ClassSizes, LayoutTypes, Zenon
    <2>3. ~ (c >= MIN_BLOCK)
      BY <1>2, CachedExtent
    <2>4. BlockLayout(l) = [size |-> c, align |-> c]
      BY <1>2 DEF BlockLayout
    <2> HIDE DEF c
    <2>5. Larger(c, MIN_BLOCK) = 16 /\ Larger(l.size, MIN_BLOCK) = 16
      BY <2>1, <2>2, <2>3 DEF Larger, MIN_BLOCK
    <2>6. QED
      BY <2>4, <2>5 DEF Extent, allocation_size
  <1>3. QED
    BY <1>1, <1>2

\* The numbers of a block.
LEMMA HeldFacts ==
    ASSUME NEW b, Held(b)
    PROVE  /\ b.addr \in Nat /\ b.size \in Nat \ {0} /\ b.align \in Nat \ {0}
           /\ Reserved(b) \in Nat \ {0} /\ Reserved(b) >= MIN_BLOCK /\ Reserved(b) >= b.size
           /\ b.addr % NODE_ALIGN = 0 /\ b.addr % b.align = 0
  <1> DEFINE l == LayoutOf(b)
             al == allocation_align(BlockLayout(l))
  <1>1. /\ l \in Layouts /\ l.size = b.size /\ l.align = b.align
        /\ b.addr \in Nat /\ b.size \in Nat \ {0} /\ b.align \in Nat \ {0}
        /\ b.addr % al = 0
    BY DEF Held, LayoutOf
  <1> HIDE DEF l
  <1>2. /\ Extent(l) \in Nat \ {0} /\ Extent(l) >= MIN_BLOCK /\ Extent(l) >= l.size
        /\ al \in Nat \ {0} /\ al % NODE_ALIGN = 0 /\ al % l.align = 0
    BY <1>1, ExtentFacts
  <1>3. NODE_ALIGN \in Nat \ {0}
    BY DEF NODE_ALIGN
  <1> HIDE DEF al
  <1>4. b.addr % NODE_ALIGN = 0
    BY <1>1, <1>2, <1>3, Divides, Zenon
  <1>5. b.addr % l.align = 0
    BY <1>1, <1>2, Divides, Zenon
  <1>6. QED
    BY <1>1, <1>2, <1>4, <1>5, Zenon DEF Reserved, l

\* The numbers of a cached block.
LEMMA StoredFacts ==
    ASSUME PartsSound, NEW i \in Classes, NEW a \in Kept(i)
    PROVE  /\ a \in Nat /\ BLOCK_SIZES[i] \in Nat \ {0} /\ BLOCK_SIZES[i] >= MIN_BLOCK
           /\ a % BLOCK_SIZES[i] = 0 /\ InHeap(a, BLOCK_SIZES[i])
  <1>1. list_heads[i] \in Seq(Nat)
    BY DEF PartsSound
  <1>2. a \in Nat
    BY <1>1, SeqFacts DEF Kept, Range
  <1>3. QED
    BY <1>2, ClassSizes, Zenon DEF PartsSound, Stored

-----------------------------------------------------------------------------
(* The lists of the classes.                                               *)

\* Taking the head of a list that holds no address twice.
LEMMA PopFacts ==
    ASSUME NEW s \in Seq(Nat), s # <<>>, IsInjective(s)
    PROVE  /\ Head(s) \in Range(s)
           /\ Tail(s) \in Seq(Nat) /\ IsInjective(Tail(s))
           /\ Range(Tail(s)) = Range(s) \ {Head(s)}
           /\ Len(Tail(s)) = Len(s) - 1
  <1> DEFINE n == Len(s)
             t == Tail(s)
  <1>1. n \in Nat /\ n >= 1 /\ DOMAIN s = 1 .. n
    BY SeqFacts
  <1>2. /\ t \in Seq(Nat) /\ Len(t) = n - 1
        /\ \A j \in 1 .. n - 1 : t[j] = s[j + 1]
    BY TailFacts
  <1>3. DOMAIN t = 1 .. n - 1
    BY <1>2, SeqFacts
  <1>4. Head(s) = s[1]
    OBVIOUS
  <1> HIDE DEF n, t
  <1>5. \A j, k \in 1 .. n : s[j] = s[k] => j = k
    BY <1>1, Zenon DEF IsInjective
  <1>6. IsInjective(t)
    <2>1. SUFFICES ASSUME NEW j \in 1 .. n - 1, NEW k \in 1 .. n - 1, t[j] = t[k]
                   PROVE  j = k
      BY <1>3, Zenon DEF IsInjective
    <2>2. j + 1 \in 1 .. n /\ k + 1 \in 1 .. n /\ s[j + 1] = s[k + 1]
      BY <1>1, <1>2, <2>1
    <2>3. j + 1 = k + 1
      BY <1>5, <2>2
    <2>4. QED
      BY <2>3
  <1>7. Range(s) = {s[j] : j \in 1 .. n} /\ Range(t) = {t[j] : j \in 1 .. n - 1}
    BY <1>1, <1>3 DEF Range
  <1>8. s[1] \in Range(s)
    BY <1>1, <1>7
  <1>9. ASSUME NEW x \in Range(t) PROVE x \in Range(s) /\ x # s[1]
    <2>1. PICK j \in 1 .. n - 1 : x = t[j]
      BY <1>7, <1>9, Zenon
    <2>2. j + 1 \in 1 .. n /\ j + 1 # 1 /\ 1 \in 1 .. n /\ x = s[j + 1]
      BY <1>1, <1>2, <2>1
    <2>3. QED
      BY <1>5, <1>7, <2>2, Zenon
  <1>10. ASSUME NEW x \in Range(s), x # s[1] PROVE x \in Range(t)
    <2>1. PICK j \in 1 .. n : x = s[j]
      BY <1>7, <1>10
    <2>2. j - 1 \in 1 .. n - 1 /\ (j - 1) + 1 = j
      BY <1>1, <1>10, <2>1
    <2>3. x = t[j - 1]
      BY <1>2, <2>1, <2>2, Zenon
    <2>4. QED
      BY <1>7, <2>2, <2>3, Zenon
  <1>11. Range(t) = Range(s) \ {s[1]}
    BY <1>9, <1>10, Zenon
  <1>12. QED
    BY <1>2, <1>4, <1>6, <1>8, <1>11, Zenon DEF t, n

\* Putting an address that is not on the list in front of it.
LEMMA PushFacts ==
    ASSUME NEW s \in Seq(Nat), IsInjective(s), NEW a \in Nat, a \notin Range(s)
    PROVE  /\ <<a>> \o s \in Seq(Nat) /\ IsInjective(<<a>> \o s)
           /\ Range(<<a>> \o s) = Range(s) \cup {a}
  <1> DEFINE n == Len(s)
             t == <<a>> \o s
  <1>1. n \in Nat /\ DOMAIN s = 1 .. n
    BY SeqFacts
  <1>2. <<a>> \in Seq(Nat) /\ Len(<<a>>) = 1 /\ <<a>>[1] = a
    OBVIOUS
  <1>3. /\ t \in Seq(Nat) /\ Len(t) = 1 + n
        /\ \A j \in 1 .. 1 + n : t[j] = IF j <= 1 THEN <<a>>[j] ELSE s[j - 1]
    BY <1>2, ConcatFacts
  <1>4. DOMAIN t = 1 .. 1 + n
    BY <1>3, SeqFacts, Zenon
  <1> HIDE DEF n, t
  <1>5. t[1] = a
    BY <1>1, <1>2, <1>3
  <1>6. \A j \in 2 .. 1 + n : t[j] = s[j - 1] /\ j - 1 \in 1 .. n
    BY <1>1, <1>3
  <1>7. Range(s) = {s[j] : j \in 1 .. n} /\ Range(t) = {t[j] : j \in 1 .. 1 + n}
    BY <1>1, <1>4, Zenon DEF Range
  <1>8. \A j \in 2 .. 1 + n : t[j] \in Range(s)
    BY <1>6, <1>7, Zenon
  <1>9. \A j, k \in 1 .. n : s[j] = s[k] => j = k
    BY <1>1, Zenon DEF IsInjective
  <1>10. \A j \in 1 .. 1 + n : j = 1 \/ j \in 2 .. 1 + n
    BY <1>1
  <1>11. IsInjective(t)
    <2>1. SUFFICES ASSUME NEW j \in 1 .. 1 + n, NEW k \in 1 .. 1 + n, t[j] = t[k]
                   PROVE  j = k
      BY <1>4 DEF IsInjective
    <2>2. CASE j \in 2 .. 1 + n /\ k \in 2 .. 1 + n
      <3>1. j - 1 = k - 1
        BY <1>6, <1>9, <2>1, <2>2, Zenon
      <3>2. QED
        BY <2>2, <3>1
    <2>3. CASE j = 1 /\ k \in 2 .. 1 + n
      BY <1>5, <1>8, <2>1, <2>3, Zenon
    <2>4. CASE k = 1 /\ j \in 2 .. 1 + n
      BY <1>5, <1>8, <2>1, <2>4, Zenon
    <2>5. QED
      BY <1>10, <2>2, <2>3, <2>4
  <1>12. ASSUME NEW x \in Range(t) PROVE x \in Range(s) \cup {a}
    BY <1>5, <1>7, <1>8, <1>10, Zenon
  <1>13. ASSUME NEW x \in Range(s) PROVE x \in Range(t)
    <2>1. PICK j \in 1 .. n : x = s[j]
      BY <1>7, <1>13, Zenon
    <2>2. j + 1 \in 2 .. 1 + n /\ j + 1 \in 1 .. 1 + n /\ (j + 1) - 1 = j
      BY <1>1
    <2>3. x = t[j + 1]
      BY <1>6, <2>1, <2>2, Zenon
    <2>4. QED
      BY <1>7, <2>2, <2>3, Zenon
  <1>14. a \in Range(t)
    BY <1>1, <1>5, <1>7
  <1>15. QED
    BY <1>3, <1>11, <1>12, <1>13, <1>14, Zenon DEF t

-----------------------------------------------------------------------------
(* Each call preserves the inductive invariant.                            *)

\* Handing out a cached block: it leaves its class and becomes live.
LEMMA PopEffect ==
    ASSUME IInv, NEW l \in Layouts, AllocCached(l)
    PROVE  LET i == list_index(l)
               a == Head(list_heads[i])
               new == Block(a, l) IN
           /\ i \in Classes /\ a \in Kept(i)
           /\ list_heads' \in [Classes -> Seq(Nat)]
           /\ \A k \in Classes : IsInjective(list_heads'[k])
           /\ Kept(i)' = Kept(i) \ {a}
           /\ \A k \in Classes : k # i => Kept(k)' = Kept(k)
           /\ live' = live \cup {new} /\ fallback_allocator' = fallback_allocator
           /\ Held(new) /\ new.addr = a /\ Reserved(new) = BLOCK_SIZES[i]
           /\ new.size = l.size /\ new.align = l.align
  <1> DEFINE i == list_index(l)
             s == list_heads[i]
             a == Head(s)
             c == BLOCK_SIZES[i]
             new == Block(a, l)
  <1>1. /\ i # 0 /\ s # <<>>
        /\ list_heads' = [list_heads EXCEPT ![i] = Tail(s)]
        /\ live' = live \cup {new} /\ fallback_allocator' = fallback_allocator
    BY Zenon DEF AllocCached, Cached
  <1>2. i \in Classes
    BY <1>1, IndexFacts, Zenon
  <1>3. list_heads \in [Classes -> Seq(Nat)] /\ \A k \in Classes : IsInjective(list_heads[k])
    BY DEF IInv, PartsSound
  <1>4. s \in Seq(Nat) /\ IsInjective(s)
    BY <1>2, <1>3, Zenon
  <1> HIDE DEF i
  <1>5. /\ a \in Range(s) /\ Tail(s) \in Seq(Nat) /\ IsInjective(Tail(s))
        /\ Range(Tail(s)) = Range(s) \ {a}
    <2> HIDE DEF s
    <2>1. QED
      BY <1>1, <1>4, PopFacts, Zenon
  <1>6. a \in Kept(i)
    BY <1>5, Zenon DEF Kept
  <1>7. a \in Nat /\ c \in Nat \ {0} /\ c >= MIN_BLOCK /\ a % c = 0 /\ InHeap(a, c)
    BY <1>2, <1>6, StoredFacts, Zenon DEF IInv
  <1>8. /\ l \in [size : Nat \ {0}, align : Nat \ {0}]
        /\ Extent(l) = c /\ allocation_align(BlockLayout(l)) = c
    BY <1>1, <1>7, CachedExtent, LayoutTypes, Zenon DEF i
  <1> HIDE DEF a, c
  <1>9. /\ new \in [addr : Nat, size : Nat \ {0}, align : Nat \ {0}]
        /\ new.addr = a /\ new.size = l.size /\ new.align = l.align
        /\ LayoutOf(new) = l
    BY <1>7, <1>8, BlockFacts
  <1> HIDE DEF new
  <1>10. Held(new) /\ Reserved(new) = c
    BY <1>7, <1>8, <1>9, Zenon DEF Held, Reserved
  <1>11. /\ list_heads' \in [Classes -> Seq(Nat)]
         /\ list_heads'[i] = Tail(s)
         /\ \A k \in Classes : k # i => list_heads'[k] = list_heads[k]
    <2> DEFINE t == Tail(s)
    <2>1. t \in Seq(Nat) /\ list_heads' = [list_heads EXCEPT ![i] = t]
      BY <1>1, <1>5, Zenon
    <2> HIDE DEF t, s
    <2>2. QED
      BY <1>2, <1>3, <2>1, Zenon DEF t
  <1>12. /\ Kept(i)' = Kept(i) \ {a}
         /\ \A k \in Classes : k # i => Kept(k)' = Kept(k)
    BY <1>5, <1>11, Zenon DEF Kept, i
  <1>13. \A k \in Classes : IsInjective(list_heads'[k])
    BY <1>3, <1>5, <1>11, Zenon
  <1>14. QED
    BY <1>1, <1>2, <1>6, <1>9, <1>10, <1>11, <1>12, <1>13, Zenon DEF i, a, s, c, new

\* Apart does not depend on the order.
LEMMA ApartSymmetric ==
    ASSUME NEW a, NEW m, NEW b, NEW n, Apart(a, m, b, n)
    PROVE  Apart(b, n, a, m)
  BY Zenon DEF Apart

\* alloc from a class preserves the inductive invariant.
LEMMA AllocCachedInv ==
    ASSUME IInv, NEW l \in Layouts, AllocCached(l)
    PROVE  IInv'
  <1> DEFINE i == list_index(l)
             a == Head(list_heads[i])
             c == BLOCK_SIZES[i]
             new == Block(a, l)
  <1>1. /\ i \in Classes /\ a \in Kept(i)
        /\ list_heads' \in [Classes -> Seq(Nat)]
        /\ \A k \in Classes : IsInjective(list_heads'[k])
        /\ Kept(i)' = Kept(i) \ {a}
        /\ \A k \in Classes : k # i => Kept(k)' = Kept(k)
        /\ live' = live \cup {new} /\ fallback_allocator' = fallback_allocator
        /\ Held(new) /\ new.addr = a /\ Reserved(new) = c
    BY PopEffect
  <1> HIDE DEF a, c, new, i
  <1>2. \A k \in Classes : \A d \in Kept(k)' : d \in Kept(k) /\ (k # i \/ d # a)
    BY <1>1
  <1>3. PartsSound'
    <2>1. SoundFree(fallback_allocator')
      BY <1>1, Zenon DEF IInv, PartsSound
    <2>2. \A b \in live' : Held(b)
      BY <1>1, Zenon DEF IInv, PartsSound
    <2>3. \A k \in Classes : \A d \in Kept(k)' : Stored(k, d)
      BY <1>2, Zenon DEF IInv, PartsSound
    <2>4. QED
      BY <1>1, <2>1, <2>2, <2>3 DEF PartsSound
  <1>4. \A b \in live : /\ Apart(b.addr, Reserved(b), a, c)
                        /\ Apart(a, c, b.addr, Reserved(b))
    BY <1>1, ApartSymmetric, Zenon DEF IInv, PartsApart, c
  <1>5. \A k \in Classes : \A d \in Kept(k)' : Apart(a, c, d, BLOCK_SIZES[k])
    BY <1>1, <1>2, Zenon DEF IInv, PartsApart, c
  <1>6. \A b, d \in live' : b # d => Apart(b.addr, Reserved(b), d.addr, Reserved(d))
    BY <1>1, <1>4, Zenon DEF IInv, PartsApart
  <1>7. \A b \in live', k \in Classes : \A d \in Kept(k)' :
           Apart(b.addr, Reserved(b), d, BLOCK_SIZES[k])
    BY <1>1, <1>2, <1>5, Zenon DEF IInv, PartsApart
  <1>8. \A k, m \in Classes : \A d \in Kept(k)', e \in Kept(m)' :
           k # m \/ d # e => Apart(d, BLOCK_SIZES[k], e, BLOCK_SIZES[m])
    BY <1>2, Zenon DEF IInv, PartsApart
  <1>9. \A x \in Bytes(new.addr, Reserved(new)) : ~ Covers(fallback_allocator.list, x)
    BY <1>1, Zenon DEF IInv, PartsApart, c
  <1>10. \A b \in live' : \A x \in Bytes(b.addr, Reserved(b)) :
            ~ Covers(fallback_allocator'.list, x)
    BY <1>1, <1>9, Zenon DEF IInv, PartsApart
  <1>11. \A k \in Classes : \A d \in Kept(k)' : \A x \in Bytes(d, BLOCK_SIZES[k]) :
            ~ Covers(fallback_allocator'.list, x)
    BY <1>1, <1>2, Zenon DEF IInv, PartsApart
  <1>12. PartsApart'
    BY <1>6, <1>7, <1>8, <1>10, <1>11, Zenon DEF PartsApart
  <1>13. QED
    BY <1>3, <1>12 DEF IInv

\* Caching a freed block: it leaves the callers and joins its class.
LEMMA PushEffect ==
    ASSUME IInv, NEW b \in live, DeallocCached(b)
    PROVE  LET i == list_index(LayoutOf(b))
               a == b.addr IN
           /\ i \in Classes /\ a \in Nat /\ Stored(i, a) /\ Reserved(b) = BLOCK_SIZES[i]
           /\ list_heads' \in [Classes -> Seq(Nat)]
           /\ \A k \in Classes : IsInjective(list_heads'[k])
           /\ Kept(i)' = Kept(i) \cup {a}
           /\ \A k \in Classes : k # i => Kept(k)' = Kept(k)
           /\ live' = live \ {b} /\ fallback_allocator' = fallback_allocator
  <1> DEFINE l == LayoutOf(b)
             i == list_index(l)
             s == list_heads[i]
             a == b.addr
             c == BLOCK_SIZES[i]
             t == <<a>> \o s
  <1>1. /\ i # 0 /\ c >= MIN_BLOCK
        /\ list_heads' = [list_heads EXCEPT ![i] = t]
        /\ live' = live \ {b} /\ fallback_allocator' = fallback_allocator
    BY Zenon DEF DeallocCached, Caches
  <1>2. Held(b) /\ l \in Layouts /\ a \in Nat
    BY HeldFacts, Zenon DEF IInv, PartsSound, Held
  <1>3. i \in Classes
    BY <1>1, <1>2, IndexFacts, Zenon
  <1>4. list_heads \in [Classes -> Seq(Nat)] /\ \A k \in Classes : IsInjective(list_heads[k])
    BY Zenon DEF IInv, PartsSound
  <1>5. s \in Seq(Nat) /\ IsInjective(s)
    BY <1>3, <1>4, Zenon
  <1>6. Reserved(b) = c /\ allocation_align(BlockLayout(l)) = c
    BY <1>1, <1>2, CachedExtent, Zenon DEF Reserved
  <1>7. Stored(i, a)
    BY <1>1, <1>2, <1>6, Zenon DEF Held, Stored
  <1>8. c \in Nat \ {0}
    BY <1>3, ClassSizes, Zenon
  <1>9. a \notin Kept(i)
    <2>1. SUFFICES ASSUME a \in Kept(i) PROVE FALSE
      OBVIOUS
    <2>2. Apart(a, Reserved(b), a, c)
      BY <1>3, <2>1, Zenon DEF IInv, PartsApart
    <2>3. QED
      BY <1>2, <1>6, <1>8, <2>2 DEF Apart
  <1> HIDE DEF i, a, s, c
  <1>10. t \in Seq(Nat) /\ IsInjective(t) /\ Range(t) = Range(s) \cup {a}
    BY <1>2, <1>5, <1>9, PushFacts, Zenon DEF Kept, s
  <1> HIDE DEF t
  <1>11. /\ list_heads' \in [Classes -> Seq(Nat)]
         /\ list_heads'[i] = t
         /\ \A k \in Classes : k # i => list_heads'[k] = list_heads[k]
    BY <1>1, <1>3, <1>4, <1>10, Zenon
  <1>12. /\ Kept(i)' = Kept(i) \cup {a}
         /\ \A k \in Classes : k # i => Kept(k)' = Kept(k)
    BY <1>10, <1>11, Zenon DEF Kept, s, i
  <1>13. \A k \in Classes : IsInjective(list_heads'[k])
    BY <1>4, <1>10, <1>11, Zenon
  <1>14. QED
    BY <1>1, <1>2, <1>3, <1>6, <1>7, <1>11, <1>12, <1>13, Zenon DEF i, a, c

\* dealloc to a class preserves the inductive invariant.
LEMMA DeallocCachedInv ==
    ASSUME IInv, NEW b \in live, DeallocCached(b)
    PROVE  IInv'
  <1> DEFINE i == list_index(LayoutOf(b))
             a == b.addr
             c == BLOCK_SIZES[i]
  <1>1. /\ i \in Classes /\ Stored(i, a) /\ Reserved(b) = c
        /\ list_heads' \in [Classes -> Seq(Nat)]
        /\ \A k \in Classes : IsInjective(list_heads'[k])
        /\ Kept(i)' = Kept(i) \cup {a}
        /\ \A k \in Classes : k # i => Kept(k)' = Kept(k)
        /\ live' = live \ {b} /\ fallback_allocator' = fallback_allocator
    BY PushEffect
  <1> HIDE DEF i, c
  <1>2. \A k \in Classes : \A d \in Kept(k)' : d \in Kept(k) \/ (k = i /\ d = a)
    BY <1>1
  <1>3. PartsSound'
    <2>1. SoundFree(fallback_allocator')
      BY <1>1 DEF IInv, PartsSound
    <2>2. \A d \in live' : Held(d)
      BY <1>1 DEF IInv, PartsSound
    <2>3. \A k \in Classes : \A d \in Kept(k)' : Stored(k, d)
      BY <1>1, <1>2 DEF IInv, PartsSound
    <2>4. QED
      BY <1>1, <2>1, <2>2, <2>3 DEF PartsSound
  <1>4. \A k \in Classes : \A d \in Kept(k) : /\ Apart(a, c, d, BLOCK_SIZES[k])
                                            /\ Apart(d, BLOCK_SIZES[k], a, c)
    BY <1>1, ApartSymmetric DEF IInv, PartsApart
  <1>5. \A d \in live' : Apart(d.addr, Reserved(d), a, c)
    BY <1>1, Zenon DEF IInv, PartsApart
  <1>6. \A d, e \in live' : d # e => Apart(d.addr, Reserved(d), e.addr, Reserved(e))
    BY <1>1, Zenon DEF IInv, PartsApart
  <1>7. \A e \in live', k \in Classes : \A d \in Kept(k)' :
           Apart(e.addr, Reserved(e), d, BLOCK_SIZES[k])
    BY <1>1, <1>2, <1>5, Zenon DEF IInv, PartsApart, c
  <1>8. \A k, m \in Classes : \A d \in Kept(k)', e \in Kept(m)' :
           k # m \/ d # e => Apart(d, BLOCK_SIZES[k], e, BLOCK_SIZES[m])
    <2>1. SUFFICES ASSUME NEW k \in Classes, NEW m \in Classes,
                          NEW d \in Kept(k)', NEW e \in Kept(m)', k # m \/ d # e
                   PROVE  Apart(d, BLOCK_SIZES[k], e, BLOCK_SIZES[m])
      BY Zenon
    <2>2. CASE d \in Kept(k) /\ e \in Kept(m)
      BY <2>1, <2>2, Zenon DEF IInv, PartsApart
    <2>3. CASE d \in Kept(k) /\ m = i /\ e = a
      BY <1>4, <2>3, Zenon DEF c
    <2>4. CASE e \in Kept(m) /\ k = i /\ d = a
      BY <1>4, <2>4, Zenon DEF c
    <2>5. QED
      BY <1>2, <2>1, <2>2, <2>3, <2>4, Zenon
  <1>9. \A x \in Bytes(a, c) : ~ Covers(fallback_allocator.list, x)
    BY <1>1, Zenon DEF IInv, PartsApart
  <1>10. \A d \in live' : \A x \in Bytes(d.addr, Reserved(d)) :
            ~ Covers(fallback_allocator'.list, x)
    BY <1>1, Zenon DEF IInv, PartsApart
  <1>11. \A k \in Classes : \A d \in Kept(k)' : \A x \in Bytes(d, BLOCK_SIZES[k]) :
            ~ Covers(fallback_allocator'.list, x)
    BY <1>1, <1>2, <1>9, Zenon DEF IInv, PartsApart, c
  <1>12. PartsApart'
    BY <1>6, <1>7, <1>8, <1>10, <1>11 DEF PartsApart
  <1>13. QED
    BY <1>3, <1>12 DEF IInv

\* A block the fallback could serve shares no byte with what is in use or
\* cached: it was free.
LEMMA TakenIsNew ==
    ASSUME IInv, NEW l \in Layouts, NEW found, Taken(fallback_allocator, BlockLayout(l), found)
    PROVE  LET new == Block(found.addr, l) IN
           /\ Held(new) /\ Reserved(new) = Extent(l)
           /\ new.addr = found.addr /\ new.size = l.size /\ new.align = l.align
           /\ \A b \in live : /\ Apart(new.addr, Reserved(new), b.addr, Reserved(b))
                              /\ Apart(b.addr, Reserved(b), new.addr, Reserved(new))
           /\ \A i \in Classes : \A a \in Kept(i) :
                 Apart(new.addr, Reserved(new), a, BLOCK_SIZES[i])
  <1> DEFINE new == Block(found.addr, l)
             a == found.addr
             s == Extent(l)
             list == fallback_allocator.list
  <1>1. l \in [size : Nat \ {0}, align : Nat \ {0}]
    BY LayoutTypes, Zenon
  <1>2. s \in Nat \ {0}
    BY ExtentFacts, Zenon
  <1>3. /\ a \in Nat /\ a % allocation_align(BlockLayout(l)) = 0 /\ InHeap(a, s)
        /\ \A x \in Int : a <= x /\ x < a + s => Covers(list, x)
    BY Zenon DEF Taken, Extent
  <1>4. /\ new \in [addr : Nat, size : Nat \ {0}, align : Nat \ {0}]
        /\ new.addr = a /\ new.size = l.size /\ new.align = l.align
        /\ LayoutOf(new) = l
    BY <1>1, <1>3, BlockFacts
  <1> HIDE DEF new, a, s
  <1>5. Reserved(new) = s
    BY <1>4, Zenon DEF Reserved, s
  <1>6. Held(new)
    BY <1>3, <1>4, <1>5, Zenon DEF Held
  <1>7. \A x \in Bytes(a, s) : Covers(list, x)
    BY <1>2, <1>3 DEF Bytes
  <1>8. ASSUME NEW b \in live
        PROVE  Apart(a, s, b.addr, Reserved(b)) /\ Apart(b.addr, Reserved(b), a, s)
    <2>1. b.addr \in Nat /\ Reserved(b) \in Nat \ {0}
      BY HeldFacts, Zenon DEF IInv, PartsSound
    <2>2. \A x \in Bytes(b.addr, Reserved(b)) : ~ Covers(list, x)
      BY Zenon DEF IInv, PartsApart
    <2>3. \A x \in Bytes(a, s) : x \notin Bytes(b.addr, Reserved(b))
      BY <1>7, <2>2, Zenon
    <2>4. QED
      BY <1>2, <1>3, <2>1, <2>3, DisjointApart, Zenon
  <1>9. ASSUME NEW i \in Classes, NEW d \in Kept(i)
        PROVE  Apart(a, s, d, BLOCK_SIZES[i])
    <2>1. d \in Nat /\ BLOCK_SIZES[i] \in Nat \ {0}
      BY StoredFacts, Zenon DEF IInv
    <2>2. \A x \in Bytes(d, BLOCK_SIZES[i]) : ~ Covers(list, x)
      BY Zenon DEF IInv, PartsApart
    <2>3. \A x \in Bytes(a, s) : x \notin Bytes(d, BLOCK_SIZES[i])
      BY <1>7, <2>2, Zenon
    <2>4. QED
      BY <1>2, <1>3, <2>1, <2>3, DisjointApart, Zenon
  <1>10. QED
    BY <1>4, <1>5, <1>6, <1>8, <1>9, Zenon DEF new, a, s

\* The fallback answers null and changes nothing, or hands out a block it had.
LEMMA FallbackCases ==
    ASSUME IInv, NEW l \in Layouts, AllocFallback(l)
    PROVE  \/ UNCHANGED vars
           \/ \E found : /\ Taken(fallback_allocator, BlockLayout(l), found)
                         /\ fallback_allocator' = found.free
                         /\ live' = live \cup {Block(found.addr, l)}
                         /\ list_heads' = list_heads
  <1> DEFINE B == BlockLayout(l)
             found == FreeListAlloc(fallback_allocator, B)
  <1>1. /\ fallback_allocator' = found.free
        /\ live' = IF found.addr = Null THEN live ELSE live \cup {Block(found.addr, l)}
        /\ list_heads' = list_heads
    BY Zenon DEF AllocFallback
  <1>2. B.size \in Nat /\ B.align \in Nat \ {0} /\ Compatible(B.align, NODE_ALIGN)
    BY BlockLayoutFacts, Zenon
  <1>3. SoundFree(fallback_allocator)
    BY Zenon DEF IInv, PartsSound
  <1> HIDE DEF B
  <1>4. \/ found.addr = Null /\ found.free = fallback_allocator
        \/ Taken(fallback_allocator, B, found)
    BY <1>2, <1>3, FreeListAllocFacts, Zenon
  <1> HIDE DEF found
  <1>5. CASE found.addr = Null /\ found.free = fallback_allocator
    BY <1>1, <1>5, Zenon DEF vars
  <1>6. CASE Taken(fallback_allocator, B, found)
    <2>1. found.addr # Null
      BY <1>6 DEF Taken, Null
    <2>2. QED
      BY <1>1, <1>6, <2>1, Zenon DEF B
  <1>7. QED
    BY <1>4, <1>5, <1>6, Zenon

\* The lists of the classes do not change when list_heads does not.
LEMMA KeptStays ==
    ASSUME list_heads' = list_heads
    PROVE  \A i : Kept(i)' = Kept(i)
  BY Zenon DEF Kept

\* alloc from the fallback preserves the inductive invariant.
LEMMA AllocFallbackInv ==
    ASSUME IInv, NEW l \in Layouts, AllocFallback(l)
    PROVE  IInv'
  <1>1. CASE UNCHANGED vars
    BY <1>1, Zenon DEF IInv, PartsSound, PartsApart, Kept, vars
  <1>2. CASE \E found : /\ Taken(fallback_allocator, BlockLayout(l), found)
                        /\ fallback_allocator' = found.free
                        /\ live' = live \cup {Block(found.addr, l)}
                        /\ list_heads' = list_heads
    <2>1. PICK found : /\ Taken(fallback_allocator, BlockLayout(l), found)
                       /\ fallback_allocator' = found.free
                       /\ live' = live \cup {Block(found.addr, l)}
                       /\ list_heads' = list_heads
      BY <1>2, Zenon
    <2> DEFINE new == Block(found.addr, l)
    <2>2. /\ Held(new) /\ Reserved(new) = Extent(l) /\ new.addr = found.addr
          /\ \A b \in live : /\ Apart(new.addr, Reserved(new), b.addr, Reserved(b))
                             /\ Apart(b.addr, Reserved(b), new.addr, Reserved(new))
          /\ \A i \in Classes : \A a \in Kept(i) :
                Apart(new.addr, Reserved(new), a, BLOCK_SIZES[i])
      BY <2>1, TakenIsNew, Zenon
    <2>3. live' = live \cup {new} /\ \A i : Kept(i)' = Kept(i)
      BY <2>1, KeptStays, Zenon
    <2>4. \A x \in Int :
             /\ Covers(fallback_allocator'.list, x) => Covers(fallback_allocator.list, x)
             /\ found.addr <= x /\ x < found.addr + Extent(l)
                   => ~ Covers(fallback_allocator'.list, x)
      BY <2>1, Zenon DEF Taken, Extent
    <2> HIDE DEF new
    <2>5. PartsSound'
      <3>1. SoundFree(fallback_allocator')
        BY <2>1, Zenon DEF Taken
      <3>2. \A b \in live' : Held(b)
        BY <2>2, <2>3, Zenon DEF IInv, PartsSound
      <3>3. list_heads' \in [Classes -> Seq(Nat)]
        BY <2>1, Zenon DEF IInv, PartsSound
      <3>4. \A i \in Classes : /\ IsInjective(list_heads'[i])
                              /\ \A a \in Kept(i)' : Stored(i, a)
        BY <2>1, <2>3, Zenon DEF IInv, PartsSound
      <3>5. QED
        BY <3>1, <3>2, <3>3, <3>4, Zenon DEF PartsSound
    <2>6. \A b, d \in live' : b # d => Apart(b.addr, Reserved(b), d.addr, Reserved(d))
      BY <2>2, <2>3, Zenon DEF IInv, PartsApart
    <2>7. \A b \in live', k \in Classes : \A d \in Kept(k)' :
             Apart(b.addr, Reserved(b), d, BLOCK_SIZES[k])
      BY <2>2, <2>3, Zenon DEF IInv, PartsApart
    <2>8. \A k, m \in Classes : \A d \in Kept(k)', e \in Kept(m)' :
             k # m \/ d # e => Apart(d, BLOCK_SIZES[k], e, BLOCK_SIZES[m])
      BY <2>3, Zenon DEF IInv, PartsApart
    <2>9. \A b \in live' : \A x \in Bytes(b.addr, Reserved(b)) :
             ~ Covers(fallback_allocator'.list, x)
      <3>1. SUFFICES ASSUME NEW b \in live', NEW x \in Bytes(b.addr, Reserved(b))
                     PROVE  ~ Covers(fallback_allocator'.list, x)
        BY Zenon
      <3>2. Held(b)
        BY <2>2, <2>3, Zenon DEF IInv, PartsSound
      <3>3. /\ b.addr \in Nat /\ Reserved(b) \in Nat
            /\ x \in Int /\ b.addr <= x /\ x < b.addr + Reserved(b)
        BY <3>2, HeldFacts DEF Bytes
      <3>4. CASE b = new
        BY <2>2, <2>4, <3>3, <3>4, Zenon
      <3>5. CASE b \in live
        BY <2>4, <3>3, <3>5, Zenon DEF IInv, PartsApart
      <3>6. QED
        BY <2>3, <3>4, <3>5, Zenon
    <2>10. \A k \in Classes : \A d \in Kept(k)' : \A x \in Bytes(d, BLOCK_SIZES[k]) :
              ~ Covers(fallback_allocator'.list, x)
      <3>1. SUFFICES ASSUME NEW k \in Classes, NEW d \in Kept(k),
                            NEW x \in Bytes(d, BLOCK_SIZES[k])
                     PROVE  ~ Covers(fallback_allocator'.list, x)
        BY <2>3, Zenon
      <3>2. d \in Nat /\ BLOCK_SIZES[k] \in Nat
        BY StoredFacts, Zenon DEF IInv
      <3>3. x \in Int
        BY <3>2 DEF Bytes
      <3>4. QED
        BY <2>4, <3>3, Zenon DEF IInv, PartsApart
    <2>11. PartsApart'
      BY <2>6, <2>7, <2>8, <2>9, <2>10 DEF PartsApart
    <2>12. QED
      BY <2>5, <2>11 DEF IInv
  <1>3. QED
    BY <1>1, <1>2, FallbackCases, Zenon

\* dealloc to the fallback preserves the inductive invariant.
LEMMA DeallocFallbackInv ==
    ASSUME IInv, NEW b \in live, DeallocFallback(b)
    PROVE  IInv'
  <1> DEFINE a == b.addr
             s == Reserved(b)
             list == fallback_allocator.list
             more == add_free_region(fallback_allocator, a, s)
  <1>1. /\ live' = live \ {b} /\ list_heads' = list_heads
        /\ \A i : Kept(i)' = Kept(i)
    BY KeptStays, Zenon DEF DeallocFallback
  <1>2. Held(b) /\ LayoutOf(b) \in Layouts
    BY Zenon DEF IInv, PartsSound, Held
  <1>3. a \in Nat /\ s \in Nat \ {0} /\ s >= MIN_BLOCK /\ a % NODE_ALIGN = 0 /\ InHeap(a, s)
    BY <1>2, HeldFacts, Zenon DEF Held
  <1>4. fallback_allocator' = more
    BY <1>2, UncachedExtent, Zenon DEF DeallocFallback, FreeListDealloc, Reserved
  <1>5. \A x \in Bytes(a, s) : ~ Covers(list, x)
    BY DEF IInv, PartsApart
  <1> HIDE DEF a, s
  <1>6. \A x \in Int : a <= x /\ x < a + s <=> x \in Bytes(a, s)
    BY <1>3 DEF Bytes
  <1>7. SoundFree(fallback_allocator)
    BY DEF IInv, PartsSound
  <1>8. \A x \in Int : a <= x /\ x < a + s => ~ Covers(list, x)
    BY <1>5, <1>6, Zenon
  <1>9. /\ SoundFree(more)
        /\ \A x \in Int : Covers(more.list, x) <=> Covers(list, x) \/ (a <= x /\ x < a + s)
    BY <1>3, <1>7, <1>8, AddFreeRegion, Zenon
  <1> HIDE DEF more
  <1>10. \A x \in Int : Covers(fallback_allocator'.list, x) <=> Covers(list, x) \/ x \in Bytes(a, s)
    BY <1>4, <1>6, <1>9, Zenon
  <1>11. PartsSound'
    <2>1. SoundFree(fallback_allocator')
      BY <1>4, <1>9, Zenon
    <2>2. \A d \in live' : Held(d)
      BY <1>1, Zenon DEF IInv, PartsSound
    <2>3. list_heads' \in [Classes -> Seq(Nat)]
      BY <1>1, Zenon DEF IInv, PartsSound
    <2>4. \A i \in Classes : /\ IsInjective(list_heads'[i])
                            /\ \A d \in Kept(i)' : Stored(i, d)
      BY <1>1, Zenon DEF IInv, PartsSound
    <2>5. QED
      BY <2>1, <2>2, <2>3, <2>4, Zenon DEF PartsSound
  <1>12. \A d \in live' : \A x \in Bytes(d.addr, Reserved(d)) :
            ~ Covers(fallback_allocator'.list, x)
    <2>1. SUFFICES ASSUME NEW d \in live', NEW x \in Bytes(d.addr, Reserved(d))
                   PROVE  ~ Covers(fallback_allocator'.list, x)
      OBVIOUS
    <2>2. d \in live /\ d # b
      BY <1>1, Zenon
    <2>3. d.addr \in Nat /\ Reserved(d) \in Nat
      BY <2>2, HeldFacts, Zenon DEF IInv, PartsSound
    <2>4. x \in Int /\ ~ Covers(list, x)
      BY <2>2, <2>3 DEF IInv, PartsApart, Bytes
    <2>5. Apart(a, s, d.addr, Reserved(d))
      BY <2>2, Zenon DEF IInv, PartsApart, a, s
    <2>6. x \notin Bytes(a, s)
      BY <1>3, <2>3, <2>5 DEF Bytes, Apart
    <2>7. QED
      BY <1>10, <2>4, <2>6, Zenon
  <1>13. \A k \in Classes : \A d \in Kept(k)' : \A x \in Bytes(d, BLOCK_SIZES[k]) :
            ~ Covers(fallback_allocator'.list, x)
    <2>1. SUFFICES ASSUME NEW k \in Classes, NEW d \in Kept(k), NEW x \in Bytes(d, BLOCK_SIZES[k])
                   PROVE  ~ Covers(fallback_allocator'.list, x)
      BY <1>1, Zenon
    <2>2. d \in Nat /\ BLOCK_SIZES[k] \in Nat
      BY StoredFacts, Zenon DEF IInv
    <2>3. x \in Int /\ ~ Covers(list, x)
      BY <2>2 DEF IInv, PartsApart, Bytes
    <2>4. Apart(a, s, d, BLOCK_SIZES[k])
      BY Zenon DEF IInv, PartsApart, a, s
    <2>5. x \notin Bytes(a, s)
      BY <1>3, <2>2, <2>4 DEF Bytes, Apart
    <2>6. QED
      BY <1>10, <2>3, <2>5, Zenon
  <1>14. PartsApart'
    BY <1>1, <1>12, <1>13, Zenon DEF IInv, PartsApart
  <1>15. QED
    BY <1>11, <1>14 DEF IInv

\* init leaves every class empty and the heap to the fallback.
LEMMA InitInv == Init => IInv
  <1> SUFFICES ASSUME Init PROVE IInv
    OBVIOUS
  <1>1. list_heads = [i \in Classes |-> <<>>] /\ live = {} /\ SoundFree(fallback_allocator)
    BY FreeListInitFacts DEF Init
  <1>2. <<>> \in Seq(Nat) /\ DOMAIN <<>> = {}
    BY NoElements
  <1>3. \A i \in Classes : list_heads[i] = <<>> /\ IsInjective(list_heads[i]) /\ Kept(i) = {}
    BY <1>1, <1>2, Zenon DEF IsInjective, Kept, Range
  <1>4. PartsSound
    BY <1>1, <1>2, <1>3, Zenon DEF PartsSound
  <1>5. PartsApart
    BY <1>1, <1>3, Zenon DEF PartsApart
  <1>6. QED
    BY <1>4, <1>5, Zenon DEF IInv

\* Every call preserves the inductive invariant.
LEMMA NextInv == IInv /\ [Next]_vars => IInv'
  <1>1. SUFFICES ASSUME IInv, [Next]_vars PROVE IInv'
    OBVIOUS
  <1>2. ASSUME NEW l \in Layouts, AllocCached(l) PROVE IInv'
    BY <1>1, <1>2, AllocCachedInv, Zenon
  <1>3. ASSUME NEW l \in Layouts, AllocFallback(l) PROVE IInv'
    BY <1>1, <1>3, AllocFallbackInv, Zenon
  <1>4. ASSUME NEW b \in live, DeallocCached(b) PROVE IInv'
    BY <1>1, <1>4, DeallocCachedInv, Zenon
  <1>5. ASSUME NEW b \in live, DeallocFallback(b) PROVE IInv'
    BY <1>1, <1>5, DeallocFallbackInv, Zenon
  <1>6. CASE UNCHANGED vars
    BY <1>1, <1>6, Zenon DEF IInv, PartsSound, PartsApart, Kept, vars
  <1>7. QED
    BY <1>1, <1>2, <1>3, <1>4, <1>5, <1>6, Zenon DEF Next

\* The inductive invariant holds in every state the global allocator can reach.
THEOREM Invariance == Spec => []IInv
  BY InitInv, NextInv, PTL DEF Spec

-----------------------------------------------------------------------------
(* What follows from it.                                                   *)

\* The fallback of fixed_size_block.rs keeps its list canonical and fails none
\* of its debug assertions, whatever the classes take from it and give back.
THEOREM FallbackStaysSound == Spec => []FallbackSound
  <1>1. IInv => FallbackSound
    BY Zenon DEF IInv, PartsSound, SoundFree, FallbackSound
  <1>2. QED
    BY <1>1, Invariance, PTL

\* A region of the list covers its bytes.
LEMMA RegionFacts ==
    ASSUME PartsSound
    PROVE  LET list == fallback_allocator.list IN
           /\ Len(list) \in Nat /\ DOMAIN list = 1 .. Len(list)
           /\ \A k \in 1 .. Len(list) :
                 /\ list[k].start \in Nat /\ list[k].size \in Nat \ {0}
                 /\ InHeap(list[k].start, list[k].size)
                 /\ \A x \in Bytes(list[k].start, list[k].size) : x \in Int /\ Covers(list, x)
           /\ \A x \in Int : Covers(list, x) =>
                 \E k \in 1 .. Len(list) : x \in Bytes(list[k].start, list[k].size)
           /\ \A j, k \in 1 .. Len(list) : j # k =>
                 Apart(list[j].start, list[j].size, list[k].start, list[k].size)
  <1> DEFINE list == fallback_allocator.list
             n == Len(list)
  <1>1. list \in Seq(Node) /\ Sound(list)
    BY DEF PartsSound, SoundFree, Sound
  <1>2. /\ n \in Nat /\ DOMAIN list = 1 .. n
        /\ \A k \in 1 .. n :
              /\ list[k] \in Node
              /\ list[k].start \in Nat /\ list[k].size \in Nat /\ list[k].size >= 16
              /\ end_addr(list[k]) = list[k].start + list[k].size
    BY <1>1, SeqNodeFacts, Zenon
  <1>3. \A j, k \in 1 .. n : j < k => end_addr(list[j]) < list[k].start
    BY <1>1, SoundOrdered, Zenon
  <1>4. \A k \in 1 .. n : InHeap(list[k].start, list[k].size)
    BY <1>2, NodeFacts, Zenon
  <1>5. \A x : Covers(list, x) <=> \E k \in 1 .. n : Within(list[k], x)
    BY Zenon DEF Covers
  <1> HIDE DEF list, n
  <1>6. \A k \in 1 .. n : \A x :
           /\ x \in Bytes(list[k].start, list[k].size) => x \in Int /\ Within(list[k], x)
           /\ x \in Int /\ Within(list[k], x) => x \in Bytes(list[k].start, list[k].size)
    BY <1>2 DEF Bytes, Within
  <1>7. \A j, k \in 1 .. n : j # k =>
           Apart(list[j].start, list[j].size, list[k].start, list[k].size)
    <2>1. SUFFICES ASSUME NEW j \in 1 .. n, NEW k \in 1 .. n, j # k
                   PROVE  Apart(list[j].start, list[j].size, list[k].start, list[k].size)
      BY Zenon
    <2>2. CASE j < k
      <3>1. list[j].start + list[j].size < list[k].start
        BY <1>2, <1>3, <2>2
      <3>2. QED
        BY <1>2, <3>1 DEF Apart
    <2>3. CASE k < j
      <3>1. list[k].start + list[k].size < list[j].start
        BY <1>2, <1>3, <2>3
      <3>2. QED
        BY <1>2, <3>1 DEF Apart
    <2>4. QED
      BY <1>2, <2>1, <2>2, <2>3
  <1>8. \A k \in 1 .. n : list[k].size \in Nat \ {0}
    BY <1>2
  <1>9. \A x \in Int : Covers(list, x) => \E k \in 1 .. n : x \in Bytes(list[k].start, list[k].size)
    BY <1>5, <1>6, Zenon
  <1>10. \A k \in 1 .. n : \A x \in Bytes(list[k].start, list[k].size) : x \in Int /\ Covers(list, x)
    BY <1>5, <1>6, Zenon
  <1>11. QED
    BY <1>2, <1>4, <1>7, <1>8, <1>9, <1>10 DEF list, n

\* A stretch none of whose bytes the list covers is apart from every region.
LEMMA ApartFromRegions ==
    ASSUME PartsSound, NEW a \in Nat, NEW m \in Nat \ {0},
           \A x \in Bytes(a, m) : ~ Covers(fallback_allocator.list, x),
           NEW k \in DOMAIN fallback_allocator.list
    PROVE  LET r == fallback_allocator.list[k] IN
           Apart(a, m, r.start, r.size) /\ Apart(r.start, r.size, a, m)
  <1> DEFINE r == fallback_allocator.list[k]
  <1>1. /\ r.start \in Nat /\ r.size \in Nat \ {0}
        /\ \A x \in Bytes(r.start, r.size) : Covers(fallback_allocator.list, x)
    BY RegionFacts, Zenon
  <1> HIDE DEF r
  <1>2. \A x \in Bytes(a, m) : x \notin Bytes(r.start, r.size)
    BY <1>1, Zenon
  <1>3. Apart(a, m, r.start, r.size) /\ Apart(r.start, r.size, a, m)
    BY <1>1, <1>2, DisjointApart, Zenon
  <1>4. QED
    BY <1>3, Zenon DEF r

\* Every stretch someone knows of, by kind.
LEMMA StretchCases ==
    ASSUME PartsSound, NEW s \in Stretches
    PROVE  \/ \E b \in live : s = <<"live", b.addr, Reserved(b)>>
           \/ \E i \in Classes : \E a \in Kept(i) : s = <<"cached", a, BLOCK_SIZES[i]>>
           \/ \E k \in DOMAIN fallback_allocator.list :
                 s = <<"free", fallback_allocator.list[k].start, fallback_allocator.list[k].size>>
  <1> DEFINE A == {<<"live", b.addr, Extent(LayoutOf(b))>> : b \in live}
             B == UNION {{<<"cached", list_heads[i][j], BLOCK_SIZES[i]>> :
                             j \in DOMAIN list_heads[i]} : i \in Classes}
             C == {<<"free", fallback_allocator.list[k].start, fallback_allocator.list[k].size>> :
                      k \in DOMAIN fallback_allocator.list}
  <1>1. CASE s \in A
    BY <1>1, Zenon DEF Reserved
  <1>2. CASE s \in B
    <2> PICK i \in Classes :
           s \in {<<"cached", list_heads[i][j], BLOCK_SIZES[i]>> : j \in DOMAIN list_heads[i]}
      BY <1>2, Zenon
    <2>1. PICK j \in DOMAIN list_heads[i] : s = <<"cached", list_heads[i][j], BLOCK_SIZES[i]>>
      BY Zenon
    <2>2. list_heads[i][j] \in Kept(i)
      BY Zenon DEF Kept, Range
    <2>3. QED
      BY <2>1, <2>2, Zenon
  <1>3. CASE s \in C
    BY <1>3, Zenon
  <1>4. Stretches = A \cup B \cup C
    BY DEF Stretches
  <1> HIDE DEF A, B, C
  <1>5. s \in A \/ s \in B \/ s \in C
    BY <1>4, Zenon
  <1>6. QED
    BY <1>1, <1>2, <1>3, <1>5, Zenon

\* A live block is apart from every other stretch.
LEMMA LiveApart ==
    ASSUME IInv, NEW b \in live, NEW t \in Stretches, t # <<"live", b.addr, Reserved(b)>>
    PROVE  /\ Apart(b.addr, Reserved(b), t[2], t[3])
           /\ Apart(t[2], t[3], b.addr, Reserved(b))
  <1>1. b.addr \in Nat /\ Reserved(b) \in Nat \ {0}
    BY HeldFacts, Zenon DEF IInv, PartsSound
  <1>2. CASE \E c \in live : t = <<"live", c.addr, Reserved(c)>>
    <2>1. PICK c \in live : t = <<"live", c.addr, Reserved(c)>>
      BY <1>2, Zenon
    <2>2. b # c /\ t[2] = c.addr /\ t[3] = Reserved(c)
      BY <2>1, Zenon
    <2>3. QED
      BY <2>2, Zenon DEF IInv, PartsApart
  <1>3. CASE \E i \in Classes : \E a \in Kept(i) : t = <<"cached", a, BLOCK_SIZES[i]>>
    <2> PICK i \in Classes : \E a \in Kept(i) : t = <<"cached", a, BLOCK_SIZES[i]>>
      BY <1>3, Zenon
    <2>1. PICK a \in Kept(i) : t[2] = a /\ t[3] = BLOCK_SIZES[i]
      OBVIOUS
    <2>2. QED
      BY <2>1, ApartSymmetric, Zenon DEF IInv, PartsApart
  <1>4. CASE \E k \in DOMAIN fallback_allocator.list :
               t = <<"free", fallback_allocator.list[k].start, fallback_allocator.list[k].size>>
    <2>1. PICK k \in DOMAIN fallback_allocator.list :
             t[2] = fallback_allocator.list[k].start /\ t[3] = fallback_allocator.list[k].size
      BY <1>4
    <2>2. \A x \in Bytes(b.addr, Reserved(b)) : ~ Covers(fallback_allocator.list, x)
      BY Zenon DEF IInv, PartsApart
    <2>3. QED
      BY <1>1, <2>1, <2>2, ApartFromRegions, Zenon DEF IInv
  <1>5. QED
    BY <1>2, <1>3, <1>4, StretchCases, Zenon DEF IInv

\* A cached block is apart from every other cached block and every region.
LEMMA CachedApart ==
    ASSUME IInv, NEW i \in Classes, NEW a \in Kept(i),
           NEW t \in Stretches, t # <<"cached", a, BLOCK_SIZES[i]>>
    PROVE  /\ Apart(a, BLOCK_SIZES[i], t[2], t[3])
           /\ Apart(t[2], t[3], a, BLOCK_SIZES[i])
  <1>1. a \in Nat /\ BLOCK_SIZES[i] \in Nat \ {0}
    BY StoredFacts, Zenon DEF IInv
  <1>2. CASE \E c \in live : t = <<"live", c.addr, Reserved(c)>>
    <2>1. PICK c \in live : t[2] = c.addr /\ t[3] = Reserved(c)
      BY <1>2
    <2>2. QED
      BY <2>1, ApartSymmetric, Zenon DEF IInv, PartsApart
  <1>3. CASE \E k \in Classes : \E d \in Kept(k) : t = <<"cached", d, BLOCK_SIZES[k]>>
    <2> PICK k \in Classes : \E d \in Kept(k) : t = <<"cached", d, BLOCK_SIZES[k]>>
      BY <1>3, Zenon
    <2>1. PICK d \in Kept(k) : t = <<"cached", d, BLOCK_SIZES[k]>>
      BY Zenon
    <2>2. t[2] = d /\ t[3] = BLOCK_SIZES[k] /\ (i # k \/ a # d)
      BY <2>1, Zenon
    <2>3. QED
      BY <2>2, ApartSymmetric, Zenon DEF IInv, PartsApart
  <1>4. CASE \E k \in DOMAIN fallback_allocator.list :
               t = <<"free", fallback_allocator.list[k].start, fallback_allocator.list[k].size>>
    <2>1. PICK k \in DOMAIN fallback_allocator.list :
             t[2] = fallback_allocator.list[k].start /\ t[3] = fallback_allocator.list[k].size
      BY <1>4
    <2>2. \A x \in Bytes(a, BLOCK_SIZES[i]) : ~ Covers(fallback_allocator.list, x)
      BY Zenon DEF IInv, PartsApart
    <2>3. QED
      BY <1>1, <2>1, <2>2, ApartFromRegions, Zenon DEF IInv
  <1>5. QED
    BY <1>2, <1>3, <1>4, StretchCases, Zenon DEF IInv

\* A byte belongs to one live block, one cached block or one region at most,
\* however blocks move between the layers of fixed_size_block.rs, and a cached
\* block can serve any layout of its class.
THEOREM LayersStayApart == Spec => []LayersShareNothing
  <1>1. IInv => LayersShareNothing
    <2> SUFFICES ASSUME IInv PROVE LayersShareNothing
      BY Zenon
    <2> DEFINE list == fallback_allocator.list
    <2>1. ASSUME NEW s \in Stretches, NEW t \in Stretches, s # t
          PROVE  Apart(s[2], s[3], t[2], t[3])
      <3>1. CASE \E b \in live : s = <<"live", b.addr, Reserved(b)>>
        BY <2>1, <3>1, LiveApart
      <3>2. CASE \E b \in live : t = <<"live", b.addr, Reserved(b)>>
        BY <2>1, <3>2, LiveApart
      <3>3. CASE \E i \in Classes : \E a \in Kept(i) : s = <<"cached", a, BLOCK_SIZES[i]>>
        BY <2>1, <3>3, CachedApart
      <3>4. CASE \E i \in Classes : \E a \in Kept(i) : t = <<"cached", a, BLOCK_SIZES[i]>>
        BY <2>1, <3>4, CachedApart
      <3>5. CASE /\ \E j \in DOMAIN list : s = <<"free", list[j].start, list[j].size>>
                 /\ \E k \in DOMAIN list : t = <<"free", list[k].start, list[k].size>>
        <4>1. PICK j \in DOMAIN list : s = <<"free", list[j].start, list[j].size>>
          BY <3>5, Zenon
        <4>2. PICK k \in DOMAIN list : t = <<"free", list[k].start, list[k].size>>
          BY <3>5, Zenon
        <4>3. j # k
          BY <2>1, <4>1, <4>2, Zenon
        <4>4. Apart(list[j].start, list[j].size, list[k].start, list[k].size)
          BY <4>3, RegionFacts, Zenon DEF IInv
        <4>5. QED
          BY <4>1, <4>2, <4>4, Zenon
      <3>6. QED
        BY <3>1, <3>2, <3>3, <3>4, <3>5, StretchCases, Zenon DEF IInv
    <2>2. ASSUME NEW s \in Stretches PROVE InHeap(s[2], s[3])
      <3>1. CASE \E b \in live : s = <<"live", b.addr, Reserved(b)>>
        BY <3>1 DEF IInv, PartsSound, Held
      <3>2. CASE \E i \in Classes : \E a \in Kept(i) : s = <<"cached", a, BLOCK_SIZES[i]>>
        BY <3>2, StoredFacts DEF IInv
      <3>3. CASE \E k \in DOMAIN list : s = <<"free", list[k].start, list[k].size>>
        BY <3>3, RegionFacts DEF IInv
      <3>4. QED
        BY <3>1, <3>2, <3>3, StretchCases DEF IInv
    <2>3. ASSUME NEW i \in Classes
          PROVE  /\ IsInjective(list_heads[i])
                 /\ \A j \in DOMAIN list_heads[i] : list_heads[i][j] % BLOCK_SIZES[i] = 0
      <3>1. \A j \in DOMAIN list_heads[i] : list_heads[i][j] \in Kept(i)
        BY DEF Kept, Range
      <3>2. QED
        BY <3>1, StoredFacts DEF IInv, PartsSound
    <2>4. QED
      BY <2>1, <2>2, <2>3, Zenon DEF LayersShareNothing
  <1>2. QED
    BY <1>1, Invariance, PTL

\* alloc returns null only when the class of the layout has no cached block and
\* no aligned stretch of the fallback's bytes is large enough.
THEOREM RefusalMeansNoRoom == Spec => []RefusedOnlyWithoutRoom
  <1>1. IInv => RefusedOnlyWithoutRoom
    <2>1. SUFFICES ASSUME IInv, NEW l \in Layouts, Refused(l),
                          NEW addr \in HeapStart .. HeapEnd - 1,
                          addr % allocation_align(BlockLayout(l)) = 0,
                          Bytes(addr, Extent(l)) \subseteq FallbackBytes
                   PROVE  FALSE
      BY DEF RefusedOnlyWithoutRoom
    <2> DEFINE B == BlockLayout(l)
               list == fallback_allocator.list
               found == FreeListAlloc(fallback_allocator, B)
    <2>2. B.size \in Nat /\ B.align \in Nat \ {0} /\ Compatible(B.align, NODE_ALIGN)
      BY BlockLayoutFacts
    <2>3. SoundFree(fallback_allocator)
      BY <2>1 DEF IInv, PartsSound
    <2>4. found.addr = Null
      BY <2>1 DEF Refused
    <2>5. addr \in Nat
      BY HeapAssumption DEF HeapEnd
    <2>6. Extent(l) = allocation_size(B)
      BY DEF Extent
    <2>7. addr % allocation_align(B) = 0
      BY <2>1
    <2> HIDE DEF B
    <2>8. \/ found.addr = Null /\ found.free = fallback_allocator /\ NoFit(list, B)
          \/ Taken(fallback_allocator, B, found)
      BY <2>2, <2>3, FreeListAllocFacts
    <2> HIDE DEF found
    <2>9. NoFit(list, B)
      BY <2>4, <2>8 DEF Taken, Null
    <2>10. PICK x \in addr .. addr + allocation_size(B) - 1 : ~ Covers(list, x)
      BY <2>2, <2>3, <2>5, <2>7, <2>9, NoFitNoRoom
    <2>11. x \in FallbackBytes
      BY <2>1, <2>6, Zenon DEF Bytes
    <2>12. PICK k \in DOMAIN list : x \in Bytes(list[k].start, list[k].size)
      BY <2>11, Zenon DEF FallbackBytes
    <2>13. Covers(list, x)
      BY <2>1, <2>12, RegionFacts, Zenon DEF IInv
    <2>14. QED
      BY <2>10, <2>13
  <1>2. QED
    BY <1>1, Invariance, PTL

-----------------------------------------------------------------------------
(* The allocator contract.                                                 *)

\* A block that is apart from what is live is one the contract allows.
LEMMA AllocRefines ==
    ASSUME IInv, NEW l \in Layouts, NEW a, NEW new, new = Block(a, l),
           Held(new), new.addr = a, new.size = l.size, new.align = l.align,
           \A b \in live : Apart(a, Reserved(new), b.addr, Reserved(b)),
           live' = live \cup {new}
    PROVE  Contract!Next
  <1>1. /\ a \in Nat /\ l.size \in Nat \ {0} /\ a % l.align = 0
        /\ Reserved(new) \in Nat /\ Reserved(new) >= l.size
    BY HeldFacts, Zenon
  <1>2. a \in HeapStart .. HeapEnd - l.size
    <2>1. HeapStart \in Nat /\ HeapEnd \in Nat
      BY HeapAssumption DEF HeapEnd
    <2>2. HeapStart <= a /\ a + Reserved(new) <= HeapEnd
      BY Zenon DEF Held, InHeap
    <2>3. QED
      BY <1>1, <2>1, <2>2
  <1>3. \A b \in live : Apart(a, l.size, b.addr, b.size)
    <2>1. SUFFICES ASSUME NEW b \in live PROVE Apart(a, l.size, b.addr, b.size)
      BY Zenon
    <2>2. /\ b.addr \in Nat /\ b.size \in Nat
          /\ Reserved(b) \in Nat /\ Reserved(b) >= b.size
      BY HeldFacts, Zenon DEF IInv, PartsSound
    <2>3. QED
      BY <1>1, <2>2 DEF Apart
  <1>4. Contract!Alloc(l)
    BY <1>1, <1>2, <1>3, Zenon
       DEF Contract!Alloc, Contract!HeapEnd, Contract!Apart, Contract!Block,
           HeapEnd, Apart, Block
  <1>5. QED
    BY <1>4 DEF Contract!Next

\* A call is one the contract allows, or changes no block in a caller's hands.
LEMMA StepRefines == IInv /\ [Next]_vars => [Contract!Next]_live
  <1>1. SUFFICES ASSUME IInv, [Next]_vars PROVE Contract!Next \/ live' = live
    BY Zenon
  <1>2. ASSUME NEW l \in Layouts, AllocCached(l) PROVE Contract!Next
    <2> DEFINE i == list_index(l)
               a == Head(list_heads[i])
               new == Block(a, l)
    <2>1. /\ i \in Classes /\ a \in Kept(i)
          /\ live' = live \cup {new}
          /\ Held(new) /\ new.addr = a /\ Reserved(new) = BLOCK_SIZES[i]
          /\ new.size = l.size /\ new.align = l.align
      BY <1>1, <1>2, PopEffect, Zenon
    <2> HIDE DEF a, i
    <2>2. \A b \in live : Apart(a, Reserved(new), b.addr, Reserved(b))
      BY <1>1, <2>1, ApartSymmetric, Zenon DEF IInv, PartsApart
    <2> HIDE DEF new
    <2>3. new = Block(a, l)
      BY Zenon DEF new
    <2>4. QED
      BY <1>1, <2>1, <2>2, <2>3, AllocRefines, Zenon
  <1>3. ASSUME NEW l \in Layouts, AllocFallback(l) PROVE Contract!Next \/ live' = live
    <2>1. CASE UNCHANGED vars
      BY <2>1, Zenon DEF vars
    <2>2. CASE \E found : /\ Taken(fallback_allocator, BlockLayout(l), found)
                          /\ live' = live \cup {Block(found.addr, l)}
      <3>1. PICK found : /\ Taken(fallback_allocator, BlockLayout(l), found)
                         /\ live' = live \cup {Block(found.addr, l)}
        BY <2>2, Zenon
      <3> DEFINE a == found.addr
                 new == Block(a, l)
      <3>2. /\ Held(new)
            /\ new.addr = a /\ new.size = l.size /\ new.align = l.align
            /\ \A b \in live : Apart(new.addr, Reserved(new), b.addr, Reserved(b))
        BY <1>1, <3>1, TakenIsNew, Zenon
      <3>3. live' = live \cup {new}
        BY <3>1, Zenon
      <3> HIDE DEF new, a
      <3>4. new = Block(a, l)
        BY Zenon DEF new
      <3>5. QED
        BY <1>1, <3>2, <3>3, <3>4, AllocRefines, Zenon
    <2>3. QED
      BY <1>1, <1>3, <2>1, <2>2, FallbackCases, Zenon
  <1>4. CASE \E b \in live : DeallocCached(b) \/ DeallocFallback(b)
    BY <1>4 DEF DeallocCached, DeallocFallback, Contract!Next, Contract!Dealloc
  <1>5. CASE UNCHANGED vars
    BY <1>5 DEF vars
  <1>6. QED
    BY <1>1, <1>2, <1>3, <1>4, <1>5, Zenon DEF Next

\* The global allocator implements the allocator contract, for every heap,
\* every set of layouts and every table of classes.
THEOREM FixedSizeBlockImplementsHeap == Spec => ImplementsHeap
  <1>1. Init => Contract!Init
    BY Zenon DEF Init, Contract!Init
  <1>2. QED
    BY <1>1, StepRefines, Invariance, PTL DEF Spec, ImplementsHeap, Contract!Spec

-----------------------------------------------------------------------------
(* Counting bytes.  A set of bytes below some address has a number of      *)
(* bytes: disjoint sets add up, and a stretch has its length.              *)

Measures(size, N) ==
    /\ size \in [SUBSET (0 .. N - 1) -> Nat]
    /\ \A X, Y \in SUBSET (0 .. N - 1) :
           X \cap Y = {} => size[X \cup Y] = size[X] + size[Y]
    /\ \A a, b \in 0 .. N : a <= b => size[a .. b - 1] = b - a

\* One byte more: it counts where it is a member.
LEMMA MeasureStep ==
    ASSUME NEW n \in Nat, NEW size, Measures(size, n)
    PROVE  \E new : Measures(new, n + 1)
  <1> DEFINE Old == 0 .. n - 1
             All == 0 .. n
             one(X) == IF n \in X THEN 1 ELSE 0
             new == [X \in SUBSET All |-> size[X \ {n}] + one(X)]
  <1>1. \A X \in SUBSET All : X \ {n} \in SUBSET Old /\ one(X) \in Nat
    OBVIOUS
  <1>2. \A X \in SUBSET Old : size[X] \in Nat
    BY Zenon DEF Measures
  <1>3. \A X \in SUBSET All : new[X] = size[X \ {n}] + one(X)
    BY Zenon
  <1>4. new \in [SUBSET All -> Nat]
    BY <1>1, <1>2
  <1>5. ASSUME NEW X \in SUBSET All, NEW Y \in SUBSET All, X \cap Y = {}
        PROVE  new[X \cup Y] = new[X] + new[Y]
    <2> DEFINE V == X \ {n}
               W == Y \ {n}
    <2>1. V \in SUBSET Old /\ W \in SUBSET Old /\ V \cap W = {} /\ (X \cup Y) \ {n} = V \cup W
      BY <1>5
    <2>2. one(X \cup Y) = one(X) + one(Y) /\ one(X) \in Nat /\ one(Y) \in Nat
      BY <1>5
    <2>3. /\ new[X] = size[V] + one(X) /\ new[Y] = size[W] + one(Y)
          /\ new[X \cup Y] = size[V \cup W] + one(X \cup Y)
      BY <1>3, <2>1, Zenon
    <2> HIDE DEF V, W, one, new
    <2>4. size[V \cup W] = size[V] + size[W] /\ size[V] \in Nat /\ size[W] \in Nat
      BY <2>1, <1>2, Zenon DEF Measures
    <2>5. QED
      BY <2>2, <2>3, <2>4
  <1>6. ASSUME NEW a \in 0 .. n + 1, NEW b \in 0 .. n + 1, a <= b
        PROVE  new[a .. b - 1] = b - a
    <2>1. a .. b - 1 \in SUBSET All
      BY <1>6
    <2>2. CASE b <= n
      <3>1. (a .. b - 1) \ {n} = a .. b - 1 /\ n \notin a .. b - 1
        BY <1>6, <2>2
      <3>2. new[a .. b - 1] = size[a .. b - 1] + 0
        BY <1>3, <2>1, <3>1, Zenon
      <3>3. size[a .. b - 1] = b - a
        BY <1>6, <2>2 DEF Measures
      <3>4. QED
        BY <1>6, <3>2, <3>3
    <2>3. CASE b = n + 1 /\ a = n + 1
      <3>1. (a .. b - 1) \ {n} = n .. n - 1 /\ n \notin a .. b - 1
        BY <2>3
      <3>2. size[n .. n - 1] = n - n
        BY DEF Measures
      <3>3. new[a .. b - 1] = size[n .. n - 1] + 0
        BY <1>3, <2>1, <3>1, Zenon
      <3> HIDE DEF new
      <3>4. QED
        BY <2>3, <3>2, <3>3
    <2>4. CASE b = n + 1 /\ a <= n
      <3>1. (a .. b - 1) \ {n} = a .. n - 1 /\ n \in a .. b - 1
        BY <1>6, <2>4
      <3>2. size[a .. n - 1] = n - a
        BY <1>6, <2>4 DEF Measures
      <3>3. new[a .. b - 1] = (n - a) + 1
        BY <1>3, <2>1, <3>1, <3>2, Zenon
      <3>4. QED
        BY <1>6, <2>4, <3>3
    <2>5. QED
      BY <1>6, <2>2, <2>3, <2>4
  <1> HIDE DEF new
  <1>7. All = 0 .. (n + 1) - 1
    OBVIOUS
  <1>8. Measures(new, n + 1)
    BY <1>4, <1>5, <1>6, <1>7, Zenon DEF Measures
  <1>9. QED
    BY <1>8, Zenon

LEMMA MeasureExists == \A n \in Nat : \E size : Measures(size, n)
  <1> DEFINE N == {n \in Nat : \E size : Measures(size, n)}
  <1>1. 0 \in N
    <2> DEFINE size == [X \in SUBSET (0 .. 0 - 1) |-> 0]
    <2>1. Measures(size, 0)
      BY DEF Measures
    <2>2. QED
      BY <2>1
  <1>2. \A n \in Nat : n \in N => n + 1 \in N
    BY MeasureStep
  <1> HIDE DEF N
  <1>3. \A n \in Nat : n \in N
    BY <1>1, <1>2, Induction, Zenon
  <1>4. QED
    BY <1>3 DEF N

\* The number of bytes in a set of bytes of the heap.
Count == CHOOSE size : Measures(size, HeapEnd)
HeapBytes == HeapStart .. HeapEnd - 1

LEMMA CountFacts ==
    /\ \A X \in SUBSET HeapBytes : Count[X] \in Nat
    /\ \A X, Y \in SUBSET HeapBytes : X \cap Y = {} => Count[X \cup Y] = Count[X] + Count[Y]
    /\ \A a, b \in HeapStart .. HeapEnd : a <= b => Count[a .. b - 1] = b - a
    /\ Count[{}] = 0
  <1>1. HeapStart \in Nat /\ HeapEnd \in Nat
    BY HeapAssumption DEF HeapEnd
  <1>2. Measures(Count, HeapEnd)
    BY <1>1, MeasureExists, Zenon DEF Count
  <1>3. HeapBytes \subseteq 0 .. HeapEnd - 1 /\ HeapStart .. HeapEnd \subseteq 0 .. HeapEnd
    BY <1>1 DEF HeapBytes
  <1> HIDE DEF Count, HeapBytes
  <1>4. Count[0 .. 0 - 1] = 0 - 0
    BY <1>1, <1>2 DEF Measures
  <1>5. 0 .. 0 - 1 = {}
    OBVIOUS
  <1>6. Count[{}] = 0
    BY <1>4, <1>5
  <1>7. \A X \in SUBSET HeapBytes : Count[X] \in Nat
    BY <1>2, <1>3, Zenon DEF Measures
  <1>8. \A X, Y \in SUBSET HeapBytes : X \cap Y = {} => Count[X \cup Y] = Count[X] + Count[Y]
    BY <1>2, <1>3, Zenon DEF Measures
  <1>9. \A a, b \in HeapStart .. HeapEnd : a <= b => Count[a .. b - 1] = b - a
    BY <1>2, <1>3, Zenon DEF Measures
  <1>10. QED
    BY <1>6, <1>7, <1>8, <1>9, Zenon

-----------------------------------------------------------------------------
(* Sums.  A sum over a set whose members stand for disjoint sets of bytes  *)
(* is the number of bytes in all of them.                                  *)

\* The bytes the members of s stand for.
Together(s, B) == UNION {B[x] : x \in s}

\* x stands for w[x] bytes of the heap, and no two members share one.
Counted(S, w, B) ==
    /\ \A x \in S : B[x] \in SUBSET HeapBytes /\ w[x] = Count[B[x]]
    /\ \A x, y \in S : x # y => B[x] \cap B[y] = {}

\* Members can be taken from S one by one, but not for ever.
Exhaustible(S) ==
    \E z \in [SUBSET S -> Nat] : \A s \in SUBSET S : \A x \in s : z[s \ {x}] < z[s]

\* g[s] adds the weights of the members of s, one after the other.
Adds(g, S, w) ==
    g = [s \in SUBSET S |->
            IF s = {} THEN 0
            ELSE w[CHOOSE x \in s : TRUE] + g[s \ {CHOOSE x \in s : TRUE}]]

\* Leaving one member out leaves its bytes out.
LEMMA LeaveOneOut ==
    ASSUME NEW S, NEW w, NEW B, Counted(S, w, B), NEW s \in SUBSET S, NEW x \in s
    PROVE  /\ Count[Together(s, B)] = w[x] + Count[Together(s \ {x}, B)]
           /\ w[x] \in Nat /\ Count[Together(s \ {x}, B)] \in Nat
  <1> DEFINE U == Together(s, B)
             V == Together(s \ {x}, B)
             X == B[x]
  <1>1. U = X \cup V /\ X \cap V = {}
    BY DEF Together, Counted
  <1>2. X \in SUBSET HeapBytes /\ V \in SUBSET HeapBytes
    BY DEF Together, Counted
  <1>3. w[x] = Count[X]
    BY Zenon DEF Counted
  <1> HIDE DEF U, V, X
  <1>4. Count[X] \in Nat /\ Count[V] \in Nat /\ Count[U] = Count[X] + Count[V]
    BY <1>1, <1>2, CountFacts, Zenon
  <1>5. QED
    BY <1>3, <1>4 DEF U, V

\* Members that all stand for some byte cannot be taken for ever.
LEMMA BytesRunOut ==
    ASSUME NEW S, NEW w, NEW B, Counted(S, w, B), \A x \in S : w[x] # 0
    PROVE  Exhaustible(S)
  <1> DEFINE z == [s \in SUBSET S |-> Count[Together(s, B)]]
  <1>1. \A s \in SUBSET S : Together(s, B) \in SUBSET HeapBytes
    BY DEF Together, Counted
  <1>2. z \in [SUBSET S -> Nat]
    BY <1>1, CountFacts
  <1>3. ASSUME NEW s \in SUBSET S, NEW x \in s PROVE z[s \ {x}] < z[s]
    <2>1. /\ Count[Together(s, B)] = w[x] + Count[Together(s \ {x}, B)]
          /\ w[x] \in Nat /\ Count[Together(s \ {x}, B)] \in Nat
      BY LeaveOneOut, Zenon
    <2>2. w[x] # 0
      BY Zenon
    <2>3. Count[Together(s \ {x}, B)] < Count[Together(s, B)]
      BY <2>1, <2>2
    <2>4. s \ {x} \in SUBSET S
      OBVIOUS
    <2>5. QED
      BY <2>3, <2>4, Zenon
  <1> HIDE DEF z
  <1>4. QED
    BY <1>2, <1>3, Zenon DEF Exhaustible

\* There is such a sum.
LEMMA SumExists ==
    ASSUME NEW S, NEW w, NEW B, Counted(S, w, B)
    PROVE  \E g : Adds(g, S, w)
  <1> DEFINE g == [s \in SUBSET S |-> Count[Together(s, B)]]
             pick(s) == CHOOSE x \in s : TRUE
  <1>1. \A s \in SUBSET S :
           Count[Together(s, B)]
             = IF s = {} THEN 0 ELSE w[pick(s)] + Count[Together(s \ {pick(s)}, B)]
    <2>1. SUFFICES ASSUME NEW s \in SUBSET S
                   PROVE  Count[Together(s, B)]
                            = IF s = {} THEN 0
                              ELSE w[pick(s)] + Count[Together(s \ {pick(s)}, B)]
      BY Zenon
    <2>2. CASE s = {}
      <3>1. Together(s, B) = {}
        BY <2>2, Zenon DEF Together
      <3>2. QED
        BY <2>2, <3>1, CountFacts, Zenon
    <2>3. CASE s # {}
      <3>1. pick(s) \in s
        BY <2>3, Zenon
      <3> HIDE DEF pick
      <3>2. QED
        BY <2>3, <3>1, LeaveOneOut
    <2>4. QED
      BY <2>2, <2>3, Zenon
  <1>2. \A s \in SUBSET S : g[s \ {pick(s)}] = Count[Together(s \ {pick(s)}, B)]
    BY Zenon
  <1>3. g = [s \in SUBSET S |-> IF s = {} THEN 0 ELSE w[pick(s)] + g[s \ {pick(s)}]]
    BY <1>1, <1>2, Zenon
  <1>4. Adds(g, S, w)
    BY <1>3, Zenon DEF Adds
  <1>5. QED
    BY <1>4, Zenon

\* A sum over no member is 0; over some, it is the weight of one and the sum
\* over the others.
LEMMA SumStep ==
    ASSUME NEW S, NEW w, NEW g, Adds(g, S, w), NEW s \in SUBSET S
    PROVE  /\ s = {} => g[s] = 0
           /\ s # {} => \E x \in s : g[s] = w[x] + g[s \ {x}]
  <1> DEFINE x == CHOOSE y \in s : TRUE
  <1>1. g[s] = IF s = {} THEN 0 ELSE w[x] + g[s \ {x}]
    BY Zenon DEF Adds
  <1>2. s # {} => x \in s
    BY Zenon
  <1> HIDE DEF x
  <1>3. QED
    BY <1>1, <1>2, Zenon

\* Every such sum is the number of bytes, by induction on the number of
\* members that can still be taken.
LEMMA SumCounts ==
    ASSUME NEW S, NEW w, NEW B, Counted(S, w, B), Exhaustible(S), NEW g, Adds(g, S, w)
    PROVE  g[S] = Count[Together(S, B)]
  <1>1. PICK z \in [SUBSET S -> Nat] : \A s \in SUBSET S : \A x \in s : z[s \ {x}] < z[s]
    BY Zenon DEF Exhaustible
  <1> DEFINE Good(s) == g[s] = Count[Together(s, B)]
             N == {n \in Nat : \A s \in SUBSET S : z[s] < n => Good(s)}
  <1>2. 0 \in N
    BY <1>1
  <1>3. ASSUME NEW n \in Nat, n \in N PROVE n + 1 \in N
    <2>1. ASSUME NEW s \in SUBSET S, z[s] < n + 1 PROVE Good(s)
      <3>1. CASE s = {}
        <4>1. Together(s, B) = {}
          BY <3>1, Zenon DEF Together
        <4>2. g[s] = 0
          BY <3>1, SumStep, Zenon
        <4>3. QED
          BY <4>1, <4>2, CountFacts
      <3>2. CASE s # {}
        <4>1. PICK x \in s : g[s] = w[x] + g[s \ {x}]
          BY <3>2, SumStep
        <4>2. s \ {x} \in SUBSET S
          BY Zenon
        <4>3. z[s \ {x}] < n
          BY <1>1, <2>1, <4>2
        <4>4. Good(s \ {x})
          BY <1>3, <4>2, <4>3, Zenon
        <4>5. Count[Together(s, B)] = w[x] + Count[Together(s \ {x}, B)]
          BY LeaveOneOut
        <4>6. QED
          BY <4>1, <4>4, <4>5, Zenon
      <3>3. QED
        BY <3>1, <3>2
    <2>2. QED
      BY <2>1
  <1> HIDE DEF N
  <1>4. \A n \in Nat : n \in N
    BY <1>2, <1>3, Induction, Zenon
  <1>5. z[S] \in Nat /\ z[S] + 1 \in N
    BY <1>1, <1>4
  <1>6. QED
    BY <1>5 DEF N

-----------------------------------------------------------------------------
(* The bytes of live blocks, of cached blocks and of free regions.         *)

\* The bytes of a stretch of the heap.
LEMMA StretchBytes ==
    ASSUME NEW a \in Nat, NEW n \in Nat, InHeap(a, n)
    PROVE  /\ Bytes(a, n) \in SUBSET HeapBytes
           /\ Count[Bytes(a, n)] = n
  <1>1. HeapStart \in Nat /\ HeapEnd \in Nat
    BY HeapAssumption DEF HeapEnd
  <1>2. a .. (a + n - 1) \subseteq HeapStart .. (HeapEnd - 1)
    BY <1>1 DEF InHeap
  <1> DEFINE e == a + n
  <1>3. a \in HeapStart .. HeapEnd /\ e \in HeapStart .. HeapEnd /\ a <= e /\ e - a = n
    BY <1>1 DEF InHeap
  <1> HIDE DEF e
  <1>4. Count[a .. e - 1] = n
    BY <1>3, CountFacts, Zenon
  <1>5. QED
    BY <1>2, <1>4 DEF Bytes, HeapBytes, e

\* Stretches that are apart share no byte.
LEMMA ApartBytes ==
    ASSUME NEW a \in Nat, NEW n \in Nat, NEW b \in Nat, NEW m \in Nat, Apart(a, n, b, m)
    PROVE  Bytes(a, n) \cap Bytes(b, m) = {}
  BY DEF Apart, Bytes

LiveShare == [b \in live |-> Bytes(b.addr, Reserved(b))]
RegionShare ==
    [k \in DOMAIN fallback_allocator.list |->
        Bytes(fallback_allocator.list[k].start, fallback_allocator.list[k].size)]
BlockShare(i) == [a \in Kept(i) |-> Bytes(a, BLOCK_SIZES[i])]
ClassShare == [i \in Classes |-> Together(Kept(i), BlockShare(i))]

\* The sum of the live blocks' extents.
LEMMA LiveSum ==
    ASSUME IInv
    PROVE  MapThenSumSet(LAMBDA b : Extent(LayoutOf(b)), live)
             = Count[Together(live, LiveShare)]
  <1> DEFINE w == [b \in live |-> Reserved(b)]
             pick(s) == CHOOSE x \in s : TRUE
             Sum(g) == g = [s \in SUBSET live |->
                               IF s = {} THEN 0
                               ELSE Extent(LayoutOf(pick(s))) + g[s \ {pick(s)}]]
             sum == CHOOSE g : Sum(g)
  <1>1. Counted(live, w, LiveShare)
    <2>1. \A b \in live : /\ b.addr \in Nat /\ Reserved(b) \in Nat
                          /\ InHeap(b.addr, Reserved(b))
      BY HeldFacts, Zenon DEF IInv, PartsSound, Held
    <2>2. \A b \in live : /\ LiveShare[b] = Bytes(b.addr, Reserved(b))
                          /\ w[b] = Reserved(b)
      BY Zenon DEF LiveShare
    <2> HIDE DEF w
    <2>3. \A b \in live : LiveShare[b] \in SUBSET HeapBytes /\ w[b] = Count[LiveShare[b]]
      BY <2>1, <2>2, StretchBytes
    <2>4. \A b, c \in live : b # c => LiveShare[b] \cap LiveShare[c] = {}
      BY <2>1, <2>2, ApartBytes DEF IInv, PartsApart
    <2>5. QED
      BY <2>3, <2>4, Zenon DEF Counted
  <1>2. \A g : Sum(g) <=> Adds(g, live, w)
    <2>1. SUFFICES ASSUME NEW g PROVE Sum(g) <=> Adds(g, live, w)
      BY Zenon
    <2>2. \A s \in SUBSET live : s # {} => w[pick(s)] = Extent(LayoutOf(pick(s)))
      BY DEF Reserved
    <2>3. [s \in SUBSET live |-> IF s = {} THEN 0
                                 ELSE Extent(LayoutOf(pick(s))) + g[s \ {pick(s)}]]
            = [s \in SUBSET live |-> IF s = {} THEN 0 ELSE w[pick(s)] + g[s \ {pick(s)}]]
      BY <2>2
    <2>4. QED
      BY <2>3, Zenon DEF Adds
  <1>3. MapThenSumSet(LAMBDA b : Extent(LayoutOf(b)), live) = sum[live]
    BY Zenon DEF MapThenSumSet, MapThenFoldSet
  <1> HIDE DEF Sum
  <1>4. \A b \in live : w[b] # 0
    BY HeldFacts, Zenon DEF IInv, PartsSound, Held
  <1> HIDE DEF w
  <1>5. \E g : Sum(g)
    BY <1>1, <1>2, SumExists, Zenon
  <1>6. Sum(sum)
    BY <1>5, Zenon
  <1> HIDE DEF sum
  <1>7. Exhaustible(live)
    BY <1>1, <1>4, BytesRunOut, Zenon
  <1>8. QED
    BY <1>1, <1>2, <1>3, <1>6, <1>7, SumCounts, Zenon

\* The sum free_bytes of the free list makes.
LEMMA RegionSum ==
    ASSUME IInv
    PROVE  free_bytes(fallback_allocator.list)
             = Count[Together(DOMAIN fallback_allocator.list, RegionShare)]
  <1> DEFINE list == fallback_allocator.list
             D == DOMAIN list
             w == [k \in D |-> list[k].size]
             pick(s) == CHOOSE x \in s : TRUE
             Sum(g) == g = [s \in SUBSET D |->
                               IF s = {} THEN 0
                               ELSE list[pick(s)].size + g[s \ {pick(s)}]]
             sum == CHOOSE g : Sum(g)
  <1>1. Counted(D, w, RegionShare)
    <2>1. /\ Len(list) \in Nat /\ D = 1 .. Len(list)
          /\ \A k \in D : /\ list[k].start \in Nat /\ list[k].size \in Nat
                          /\ InHeap(list[k].start, list[k].size)
          /\ \A j, k \in D : j # k =>
                Apart(list[j].start, list[j].size, list[k].start, list[k].size)
      BY RegionFacts, Zenon DEF IInv
    <2>2. \A k \in D : /\ RegionShare[k] = Bytes(list[k].start, list[k].size)
                       /\ w[k] = list[k].size
      BY DEF RegionShare
    <2> HIDE DEF w, D, list
    <2>3. \A k \in D : RegionShare[k] \in SUBSET HeapBytes /\ w[k] = Count[RegionShare[k]]
      BY <2>1, <2>2, StretchBytes
    <2>4. ASSUME NEW j \in D, NEW k \in D, j # k
          PROVE  RegionShare[j] \cap RegionShare[k] = {}
      <3>1. Bytes(list[j].start, list[j].size) \cap Bytes(list[k].start, list[k].size) = {}
        BY <2>1, <2>4, ApartBytes, Zenon
      <3>2. QED
        BY <2>2, <3>1
    <2>5. QED
      BY <2>3, <2>4, Zenon DEF Counted
  <1>2. \A g : Sum(g) <=> Adds(g, D, w)
    <2>1. SUFFICES ASSUME NEW g PROVE Sum(g) <=> Adds(g, D, w)
      BY Zenon
    <2>2. \A s \in SUBSET D : s # {} => w[pick(s)] = list[pick(s)].size
      OBVIOUS
    <2>3. [s \in SUBSET D |-> IF s = {} THEN 0 ELSE list[pick(s)].size + g[s \ {pick(s)}]]
            = [s \in SUBSET D |-> IF s = {} THEN 0 ELSE w[pick(s)] + g[s \ {pick(s)}]]
      BY <2>2
    <2>4. QED
      BY <2>3, Zenon DEF Adds
  <1>3. free_bytes(list) = sum[D]
    BY DEF free_bytes, MapThenSumSet, MapThenFoldSet
  <1>4. \A k \in D : w[k] # 0
    BY RegionFacts DEF IInv
  <1> HIDE DEF w, Sum, D
  <1>5. Exhaustible(D)
    BY <1>1, <1>4, BytesRunOut
  <1>6. \E g : Sum(g)
    BY <1>1, <1>2, SumExists
  <1>7. Sum(sum)
    BY <1>6
  <1> HIDE DEF sum
  <1>8. free_bytes(list) = Count[Together(D, RegionShare)]
    BY <1>1, <1>2, <1>3, <1>5, <1>7, SumCounts, Zenon
  <1>9. QED
    BY <1>8, Zenon DEF D

\* The blocks of one class occupy its size for each node of its list.
LEMMA ClassBytes ==
    ASSUME IInv, NEW i \in Classes
    PROVE  /\ Count[ClassShare[i]] = BLOCK_SIZES[i] * Len(list_heads[i])
           /\ ClassShare[i] \in SUBSET HeapBytes
  <1> DEFINE s == list_heads[i]
             K == Kept(i)
             c == BLOCK_SIZES[i]
             B == BlockShare(i)
             w == [a \in K |-> c]
  <1>1. s \in Seq(Nat) /\ IsInjective(s)
    BY Zenon DEF IInv, PartsSound
  <1>2. Len(s) \in Nat /\ DOMAIN s = 1 .. Len(s)
    BY <1>1, SeqFacts, Zenon
  <1>3. /\ K = {s[j] : j \in 1 .. Len(s)}
        /\ \A j, k \in 1 .. Len(s) : s[j] = s[k] => j = k
    BY <1>1, <1>2, Zenon DEF Kept, Range, IsInjective
  <1>4. \A a \in K : a \in Nat /\ c \in Nat /\ InHeap(a, c)
    BY StoredFacts DEF IInv
  <1>5. \A a \in K : B[a] = Bytes(a, c) /\ w[a] = c
    BY DEF BlockShare
  <1>6. c \in Nat
    BY ClassSizes
  <1>7. \A a, d \in K : a # d => Apart(a, c, d, c)
    BY DEF IInv, PartsApart
  <1>8. ClassShare[i] = Together(K, B)
    BY DEF ClassShare
  <1> HIDE DEF s, K, c, B, w
  <1>9. Counted(K, w, B)
    <2>1. \A a \in K : B[a] \in SUBSET HeapBytes /\ w[a] = Count[B[a]]
      BY <1>4, <1>5, StretchBytes
    <2>2. ASSUME NEW a \in K, NEW d \in K, a # d PROVE B[a] \cap B[d] = {}
      <3>1. Bytes(a, c) \cap Bytes(d, c) = {}
        BY <1>4, <1>6, <1>7, <2>2, ApartBytes, Zenon
      <3>2. QED
        BY <1>5, <3>1, Zenon
    <2>3. QED
      BY <2>1, <2>2 DEF Counted
  \* One node after the other.
  <1> DEFINE P(k) == {s[j] : j \in 1 .. k}
             N == {k \in Nat : k <= Len(s) => Count[Together(P(k), B)] = c * k}
  <1>10. 0 \in N
    <2>1. Together(P(0), B) = {} /\ c * 0 = 0
      BY <1>6 DEF Together
    <2>2. QED
      BY <2>1, CountFacts, Zenon
  <1>11. ASSUME NEW k \in Nat, k \in N PROVE k + 1 \in N
    <2>1. SUFFICES ASSUME k + 1 <= Len(s) PROVE Count[Together(P(k + 1), B)] = c * (k + 1)
      OBVIOUS
    <2>2. s[k + 1] \in P(k + 1) /\ P(k + 1) \in SUBSET K
      BY <1>2, <1>3, <2>1
    <2>3. P(k + 1) \ {s[k + 1]} = P(k)
      <3>1. \A j \in 1 .. k : s[j] # s[k + 1]
        BY <1>2, <1>3, <2>1
      <3>2. 1 .. k + 1 = (1 .. k) \cup {k + 1}
        OBVIOUS
      <3>3. QED
        BY <3>1, <3>2, Zenon
    <2>4. Count[Together(P(k), B)] = c * k
      BY <1>2, <1>11, <2>1
    <2> HIDE DEF P
    <2>5. Count[Together(P(k + 1), B)] = w[s[k + 1]] + Count[Together(P(k), B)]
      BY <1>9, <2>2, <2>3, LeaveOneOut
    <2>6. w[s[k + 1]] = c
      BY <1>5, <2>2, Zenon
    <2>7. c + c * k = c * (k + 1)
      BY <1>6
    <2>8. QED
      BY <2>4, <2>5, <2>6, <2>7
  <1> HIDE DEF N
  <1>12. Len(s) \in N
    BY <1>2, <1>10, <1>11, Induction, Zenon
  <1>13. Count[Together(K, B)] = c * Len(s)
    BY <1>2, <1>3, <1>12 DEF N
  <1>14. Together(K, B) \in SUBSET HeapBytes
    BY <1>9, Zenon DEF Counted, Together
  <1>15. QED
    BY <1>8, <1>13, <1>14, Zenon DEF s, c

\* There are finitely many classes.
LEMMA ClassesRunOut == Exhaustible(Classes)
  <1> DEFINE n == Len(BLOCK_SIZES) + 1
  <1>1. n \in Nat /\ Classes \subseteq 0 .. n - 1
    BY ClassSizes
  <1> HIDE DEF n
  <1>2. PICK size : Measures(size, n)
    BY <1>1, MeasureExists
  <1> DEFINE z == [s \in SUBSET Classes |-> size[s]]
  <1>3. \A s \in SUBSET Classes : s \in SUBSET (0 .. n - 1) /\ size[s] \in Nat
    BY <1>1, <1>2 DEF Measures
  <1>4. ASSUME NEW s \in SUBSET Classes, NEW x \in s PROVE size[s \ {x}] < size[s]
    <2>1. /\ s \ {x} \in SUBSET (0 .. n - 1) /\ {x} \in SUBSET (0 .. n - 1)
          /\ (s \ {x}) \cap {x} = {} /\ s = (s \ {x}) \cup {x} /\ size[s \ {x}] \in Nat
      BY <1>3, Zenon
    <2>2. size[s] = size[s \ {x}] + size[{x}]
      <3> DEFINE r == s \ {x}
      <3>1. r \in SUBSET (0 .. n - 1) /\ r \cap {x} = {} /\ s = r \cup {x}
        BY <2>1
      <3> HIDE DEF r
      <3>2. size[r \cup {x}] = size[r] + size[{x}]
        BY <1>2, <2>1, <3>1, Zenon DEF Measures
      <3>3. QED
        BY <3>1, <3>2, Zenon DEF r
    <2>3. size[{x}] = 1
      <3> DEFINE y == x + 1
      <3>1. x \in 0 .. n /\ y \in 0 .. n /\ x <= y /\ y - x = 1 /\ {x} = x .. y - 1
        BY <1>1, <2>1
      <3> HIDE DEF y
      <3>2. size[x .. y - 1] = y - x
        BY <1>2, <3>1, Zenon DEF Measures
      <3>3. QED
        BY <3>1, <3>2, Zenon
    <2>4. QED
      BY <2>1, <2>2, <2>3
  <1>5. z \in [SUBSET Classes -> Nat]
    BY <1>3
  <1>6. \A s \in SUBSET Classes : \A x \in s : z[s \ {x}] < z[s]
    BY <1>4
  <1> HIDE DEF z
  <1>7. QED
    BY <1>5, <1>6, Zenon DEF Exhaustible

\* A byte of a cached block.
LEMMA ClassByte ==
    ASSUME NEW i \in Classes, NEW x \in ClassShare[i]
    PROVE  \E a \in Kept(i) : x \in Bytes(a, BLOCK_SIZES[i])
  <1>1. x \in Together(Kept(i), BlockShare(i))
    BY DEF ClassShare
  <1>2. PICK a \in Kept(i) : x \in BlockShare(i)[a]
    BY <1>1 DEF Together
  <1>3. QED
    BY <1>2 DEF BlockShare

\* The sum stats makes over the classes.
LEMMA ClassSum ==
    ASSUME IInv
    PROVE  MapThenSumSet(LAMBDA i : BLOCK_SIZES[i] * Len(list_heads[i]), Classes)
             = Count[Together(Classes, ClassShare)]
  <1> DEFINE w == [i \in Classes |-> BLOCK_SIZES[i] * Len(list_heads[i])]
             pick(s) == CHOOSE x \in s : TRUE
             Sum(g) == g = [s \in SUBSET Classes |->
                               IF s = {} THEN 0
                               ELSE BLOCK_SIZES[pick(s)] * Len(list_heads[pick(s)])
                                      + g[s \ {pick(s)}]]
             sum == CHOOSE g : Sum(g)
  <1>1. Counted(Classes, w, ClassShare)
    <2>1. \A i \in Classes : /\ ClassShare[i] \in SUBSET HeapBytes
                             /\ w[i] = Count[ClassShare[i]]
      BY ClassBytes, Zenon
    <2>2. ASSUME NEW i \in Classes, NEW k \in Classes, i # k, NEW x,
                 x \in ClassShare[i], x \in ClassShare[k]
          PROVE  FALSE
      <3>1. PICK a \in Kept(i) : x \in Bytes(a, BLOCK_SIZES[i])
        BY <2>2, ClassByte, Zenon
      <3>2. PICK d \in Kept(k) : x \in Bytes(d, BLOCK_SIZES[k])
        BY <2>2, ClassByte, Zenon
      <3>3. Apart(a, BLOCK_SIZES[i], d, BLOCK_SIZES[k])
        BY <2>2, Zenon DEF IInv, PartsApart
      <3>4. /\ a \in Nat /\ d \in Nat
            /\ BLOCK_SIZES[i] \in Nat /\ BLOCK_SIZES[k] \in Nat
        BY StoredFacts, Zenon DEF IInv
      <3>5. Bytes(a, BLOCK_SIZES[i]) \cap Bytes(d, BLOCK_SIZES[k]) = {}
        BY <3>3, <3>4, ApartBytes, Zenon
      <3>6. QED
        BY <3>1, <3>2, <3>5, Zenon
    <2>3. QED
      BY <2>1, <2>2, Zenon DEF Counted
  <1>2. \A g : Sum(g) <=> Adds(g, Classes, w)
    <2>1. SUFFICES ASSUME NEW g PROVE Sum(g) <=> Adds(g, Classes, w)
      BY Zenon
    <2>2. \A s \in SUBSET Classes : s # {} =>
             w[pick(s)] = BLOCK_SIZES[pick(s)] * Len(list_heads[pick(s)])
      OBVIOUS
    <2>3. [s \in SUBSET Classes |->
              IF s = {} THEN 0
              ELSE BLOCK_SIZES[pick(s)] * Len(list_heads[pick(s)]) + g[s \ {pick(s)}]]
            = [s \in SUBSET Classes |-> IF s = {} THEN 0 ELSE w[pick(s)] + g[s \ {pick(s)}]]
      BY <2>2
    <2>4. QED
      BY <2>3, Zenon DEF Adds
  <1>3. MapThenSumSet(LAMBDA i : BLOCK_SIZES[i] * Len(list_heads[i]), Classes) = sum[Classes]
    BY Zenon DEF MapThenSumSet, MapThenFoldSet
  <1> HIDE DEF w, Sum
  <1>4. \E g : Sum(g)
    BY <1>1, <1>2, SumExists, Zenon
  <1>5. Sum(sum)
    BY <1>4
  <1> HIDE DEF sum
  <1>6. QED
    BY <1>1, <1>2, <1>3, <1>5, ClassesRunOut, SumCounts

\* Three sets of bytes of the heap that share none are together no larger
\* than the heap.
LEMMA ThreeParts ==
    ASSUME NEW A \in SUBSET HeapBytes, NEW B \in SUBSET HeapBytes, NEW C \in SUBSET HeapBytes,
           A \cap B = {}, (A \cup B) \cap C = {}
    PROVE  Count[A] + Count[B] + Count[C] <= HeapSize
  <1> DEFINE D == A \cup B
             E == D \cup C
             R == HeapBytes \ E
  <1>1. /\ D \in SUBSET HeapBytes /\ E \in SUBSET HeapBytes /\ R \in SUBSET HeapBytes
        /\ D \cap C = {} /\ E \cap R = {} /\ E \cup R = HeapBytes
    BY Zenon
  <1>2. Count[D] = Count[A] + Count[B]
    BY CountFacts, Zenon
  <1> HIDE DEF D
  <1>3. Count[E] = Count[D] + Count[C]
    BY <1>1, CountFacts, Zenon
  <1> HIDE DEF E, R
  <1>4. Count[HeapBytes] = Count[E] + Count[R]
    BY <1>1, CountFacts, Zenon
  <1>5. Count[HeapBytes] = HeapSize /\ HeapSize \in Nat
    <2>1. HeapStart \in Nat /\ HeapSize \in Nat /\ HeapEnd = HeapStart + HeapSize
      BY HeapAssumption DEF HeapEnd
    <2>2. /\ HeapStart \in HeapStart .. HeapEnd /\ HeapEnd \in HeapStart .. HeapEnd
          /\ HeapStart <= HeapEnd /\ HeapEnd - HeapStart = HeapSize
      BY <2>1
    <2>3. Count[HeapStart .. HeapEnd - 1] = HeapEnd - HeapStart
      BY <2>2, CountFacts
    <2>4. QED
      BY <2>1, <2>2, <2>3 DEF HeapBytes
  <1>6. /\ Count[A] \in Nat /\ Count[B] \in Nat /\ Count[C] \in Nat
        /\ Count[R] \in Nat
    BY <1>1, CountFacts, Zenon
  <1>7. QED
    BY <1>2, <1>3, <1>4, <1>5, <1>6

\* What stats() reports as free and what the live blocks occupy never add up
\* to more than the heap: no byte of a cached block or of a free region is
\* counted twice, or while a caller holds it.
THEOREM StatsNeverExceedHeap == Spec => []StatsNeverOverreport
  <1> DEFINE F == Together(DOMAIN fallback_allocator.list, RegionShare)
             C == Together(Classes, ClassShare)
             A == Together(live, LiveShare)
  <1>1. IInv => StatsNeverOverreport
    <2>0. SUFFICES ASSUME IInv PROVE StatsNeverOverreport
      OBVIOUS
    <2>1. \A x \in F : Covers(fallback_allocator.list, x) /\ x \in HeapBytes
      <3>1. SUFFICES ASSUME NEW x \in F
                     PROVE  Covers(fallback_allocator.list, x) /\ x \in HeapBytes
        BY Zenon
      <3>2. PICK k \in DOMAIN fallback_allocator.list : x \in RegionShare[k]
        BY Zenon DEF Together
      <3> DEFINE r == fallback_allocator.list[k]
      <3>3. x \in Bytes(r.start, r.size)
        BY <3>2, Zenon DEF RegionShare
      <3>4. /\ r.start \in Nat /\ r.size \in Nat /\ InHeap(r.start, r.size)
            /\ Covers(fallback_allocator.list, x)
        BY <2>0, <3>3, RegionFacts, Zenon DEF IInv
      <3> HIDE DEF r
      <3>5. QED
        BY <3>3, <3>4, StretchBytes, Zenon
    <2>2. \A x \in C : /\ x \in HeapBytes
                       /\ \E i \in Classes : \E a \in Kept(i) : x \in Bytes(a, BLOCK_SIZES[i])
      <3>1. SUFFICES ASSUME NEW x \in C
                     PROVE  /\ x \in HeapBytes
                            /\ \E i \in Classes : \E a \in Kept(i) :
                                  x \in Bytes(a, BLOCK_SIZES[i])
        OBVIOUS
      <3>2. PICK i \in Classes : x \in ClassShare[i]
        BY Zenon DEF Together
      <3>3. x \in HeapBytes
        BY <2>0, <3>2, ClassBytes, Zenon
      <3>4. \E a \in Kept(i) : x \in Bytes(a, BLOCK_SIZES[i])
        BY <3>2, ClassByte, Zenon
      <3>5. QED
        BY <3>3, <3>4, Zenon
    <2>3. \A x \in A : x \in HeapBytes /\ \E b \in live : x \in Bytes(b.addr, Reserved(b))
      <3>1. SUFFICES ASSUME NEW x \in A
                     PROVE  /\ x \in HeapBytes
                            /\ \E b \in live : x \in Bytes(b.addr, Reserved(b))
        OBVIOUS
      <3>2. PICK b \in live : x \in LiveShare[b]
        BY Zenon DEF Together
      <3>3. x \in Bytes(b.addr, Reserved(b))
        BY <3>2, Zenon DEF LiveShare
      <3>4. b.addr \in Nat /\ Reserved(b) \in Nat /\ InHeap(b.addr, Reserved(b))
        BY <2>0, HeldFacts, Zenon DEF IInv, PartsSound, Held
      <3>5. x \in HeapBytes
        BY <3>3, <3>4, StretchBytes, Zenon
      <3>6. QED
        BY <3>3, <3>5, Zenon
    <2> HIDE DEF F, C, A
    <2>4. F \cap C = {}
      BY <2>0, <2>1, <2>2, Zenon DEF IInv, PartsApart
    <2>5. ASSUME NEW x, x \in A, x \in F \cup C PROVE FALSE
      <3>1. PICK b \in live : x \in Bytes(b.addr, Reserved(b))
        BY <2>3, <2>5, Zenon
      <3>2. x \notin F
        BY <2>0, <2>1, <3>1, Zenon DEF IInv, PartsApart
      <3>3. PICK i \in Classes : \E a \in Kept(i) : x \in Bytes(a, BLOCK_SIZES[i])
        BY <2>2, <2>5, <3>2, Zenon
      <3>4. PICK a \in Kept(i) : x \in Bytes(a, BLOCK_SIZES[i])
        BY <3>3, Zenon
      <3>5. Apart(b.addr, Reserved(b), a, BLOCK_SIZES[i])
        BY <2>0, Zenon DEF IInv, PartsApart
      <3>6. /\ b.addr \in Nat /\ Reserved(b) \in Nat
            /\ a \in Nat /\ BLOCK_SIZES[i] \in Nat
        BY <2>0, HeldFacts, StoredFacts, Zenon DEF IInv, PartsSound
      <3>7. Bytes(b.addr, Reserved(b)) \cap Bytes(a, BLOCK_SIZES[i]) = {}
        BY <3>5, <3>6, ApartBytes, Zenon
      <3>8. QED
        BY <3>1, <3>4, <3>7, Zenon
    <2>6. Count[F] + Count[C] + Count[A] <= HeapSize
      <3>1. /\ F \in SUBSET HeapBytes /\ C \in SUBSET HeapBytes /\ A \in SUBSET HeapBytes
            /\ (F \cup C) \cap A = {}
        BY <2>1, <2>2, <2>3, <2>5, Zenon
      <3>2. QED
        BY <2>4, <3>1, ThreeParts, Zenon
    <2>7. stats.heap_size = HeapSize /\ stats.free_bytes = Count[F] + Count[C]
      <3>1. /\ free_bytes(fallback_allocator.list) = Count[F]
            /\ MapThenSumSet(LAMBDA i : BLOCK_SIZES[i] * Len(list_heads[i]), Classes)
                 = Count[C]
        BY <2>0, RegionSum, ClassSum DEF F, C
      <3>2. QED
        BY <3>1 DEF stats
    <2>8. MapThenSumSet(LAMBDA b : Extent(LayoutOf(b)), live) = Count[A]
      BY <2>0, LiveSum, Zenon DEF A
    <2>9. QED
      BY <2>6, <2>7, <2>8, Zenon DEF StatsNeverOverreport
  <1>2. QED
    BY <1>1, Invariance, PTL
=============================================================================

--------------------------- MODULE AllocatorProofs ---------------------------
(***************************************************************************)
(* The allocators that manage the heap on their own, for every heap and    *)
(* every set of layouts.  The bump allocator hands no byte out twice.  The *)
(* linked-list allocator keeps its list canonical, hands no byte out twice *)
(* and loses less than two headers a call.  Both implement the allocator   *)
(* contract.                                                               *)
(***************************************************************************)
EXTENDS Bump, LinkedList, AllocatorLemmas, FiniteSetTheorems

-----------------------------------------------------------------------------
(* The bump allocator.                                                     *)

\* The inductive invariant: whatever was handed out is aligned, in the heap
\* and below the cursor.
BumpInv ==
    /\ BumpTypeOK
    /\ \A b \in handed :
           /\ b.addr % b.align = 0
           /\ HeapStart <= b.addr
           /\ b.addr + b.size <= next
    /\ NeverReused

\* The block an allocation hands out, unless it returns null, and what it
\* leaves behind.
LEMMA BumpBlock ==
    ASSUME BumpInv, NEW l \in Layouts, BumpAlloc(l), ~ UNCHANGED bumpVars
    PROVE  \E addr \in Nat :
               /\ next <= addr
               /\ addr % l.align = 0
               /\ addr + l.size <= HeapEnd
               /\ next' = addr + l.size
               /\ held' = held \cup {Block(addr, l)}
               /\ handed' = handed \cup {Block(addr, l)}
<1>1. l.size \in Nat \ {0} /\ l.align \in Nat \ {0}
  BY HeapAssumption
<1>2. next \in Nat
  BY HeapAssumption DEF BumpInv, BumpTypeOK, HeapEnd
<1>3. /\ align_up(next, l.align) \in Nat
      /\ align_up(next, l.align) >= next
      /\ align_up(next, l.align) % l.align = 0
  BY <1>1, <1>2, AlignUp
<1>4. next <= align_up(next, l.align)
  BY <1>2, <1>3
<1>5. HeapEnd \in Nat
  BY HeapAssumption DEF HeapEnd
<1>6. align_up(next, l.align) + l.size <= HeapEnd
  BY <1>1, <1>3, <1>5 DEF BumpAlloc
<1> QED
  BY <1>3, <1>4, <1>5, <1>6 DEF BumpAlloc

\* Every step preserves the inductive invariant.
LEMMA BumpStep == BumpInv /\ [BumpNext]_bumpVars => BumpInv'
<1> SUFFICES ASSUME BumpInv, [BumpNext]_bumpVars PROVE BumpInv'
  OBVIOUS
<1> USE HeapAssumption
<1>1. CASE (\E l \in Layouts : BumpAlloc(l)) /\ ~ UNCHANGED bumpVars
  <2>1. PICK l \in Layouts : BumpAlloc(l)
    BY <1>1
  <2>2. PICK addr \in Nat :
               /\ next <= addr
               /\ addr % l.align = 0
               /\ addr + l.size <= HeapEnd
               /\ next' = addr + l.size
               /\ held' = held \cup {Block(addr, l)}
               /\ handed' = handed \cup {Block(addr, l)}
    BY <1>1, <2>1, BumpBlock
  <2> DEFINE new == Block(addr, l)
  <2>3. /\ new \in [addr : Nat, size : Nat \ {0}, align : Nat \ {0}]
        /\ new.addr = addr /\ new.size = l.size /\ new.align = l.align
    BY DEF Block
  <2>4. next \in Nat /\ HeapStart \in Nat /\ HeapEnd \in Nat /\ HeapStart <= next
    BY DEF BumpInv, BumpTypeOK, HeapEnd
  <2>5. l.size \in Nat \ {0}
    OBVIOUS
  <2> HIDE DEF new
  <2>6. BumpTypeOK'
    BY <2>2, <2>3, <2>4, <2>5 DEF BumpInv, BumpTypeOK, new
  <2>7. \A b \in handed' : /\ b.addr % b.align = 0
                           /\ HeapStart <= b.addr
                           /\ b.addr + b.size <= next'
    <3>1. \A b \in handed : b.addr + b.size <= next'
      BY <2>2, <2>4, <2>5 DEF BumpInv, BumpTypeOK
    <3>2. HeapStart <= new.addr /\ new.addr + new.size <= next'
      BY <2>2, <2>3, <2>4, <2>5
    <3> QED
      BY <2>2, <2>3, <3>1, <3>2 DEF BumpInv, new
  <2>8. NeverReused'
    <3>1. \A b \in handed : /\ Apart(b.addr, b.size, new.addr, new.size)
                            /\ Apart(new.addr, new.size, b.addr, b.size)
      BY <2>2, <2>3, <2>4, <2>5 DEF BumpInv, BumpTypeOK, Apart
    <3> QED
      BY <2>2, <3>1 DEF BumpInv, NeverReused, new
  <2> QED
    BY <2>6, <2>7, <2>8 DEF BumpInv
<1>2. CASE \E b \in held : BumpDealloc(b)
  BY <1>2 DEF BumpInv, BumpTypeOK, NeverReused, BumpDealloc
<1>3. CASE UNCHANGED bumpVars
  BY <1>3 DEF BumpInv, BumpTypeOK, NeverReused, bumpVars
<1> QED
  BY <1>1, <1>2, <1>3 DEF BumpNext

\* The initial state satisfies the inductive invariant.
LEMMA BumpStart == BumpInit => BumpInv
  BY HeapAssumption DEF BumpInit, BumpInv, BumpTypeOK, NeverReused, HeapEnd

\* The inductive invariant holds in every reachable state of bump.rs.
THEOREM BumpInvariance == BumpSpec => []BumpInv
  BY BumpStart, BumpStep, PTL DEF BumpSpec

\* No byte is ever handed out twice: BumpAlloc only moves the cursor forward and
\* BumpDealloc is a no-op.
THEOREM HandedOutOnce == BumpSpec => []NeverReused
<1>1. BumpInv => NeverReused
  BY DEF BumpInv
<1> QED
  BY <1>1, BumpInvariance, PTL

\* A step of the bump allocator is a step of the contract or changes no held
\* block.
LEMMA BumpRefines == BumpInv /\ [BumpNext]_bumpVars => [BumpContract!Next]_held
<1> SUFFICES ASSUME BumpInv, [BumpNext]_bumpVars PROVE BumpContract!Next \/ held' = held
  OBVIOUS
<1>1. CASE (\E l \in Layouts : BumpAlloc(l)) /\ ~ UNCHANGED bumpVars
  <2>1. PICK l \in Layouts : BumpAlloc(l)
    BY <1>1
  <2>2. PICK addr \in Nat :
               /\ next <= addr
               /\ addr % l.align = 0
               /\ addr + l.size <= HeapEnd
               /\ next' = addr + l.size
               /\ held' = held \cup {Block(addr, l)}
               /\ handed' = handed \cup {Block(addr, l)}
    BY <1>1, <2>1, BumpBlock
  <2>3. l.size \in Nat \ {0} /\ HeapStart \in Nat /\ HeapEnd \in Nat
    BY HeapAssumption DEF HeapEnd
  <2>4. addr \in HeapStart .. HeapEnd - l.size
    BY <2>2, <2>3 DEF BumpInv, BumpTypeOK
  <2>5. \A b \in held : Apart(addr, l.size, b.addr, b.size)
    <3>1. TAKE b \in held
    <3>2. b.addr \in Nat /\ b.size \in Nat /\ b.addr + b.size <= next /\ next \in Int
      BY <2>3 DEF BumpInv, BumpTypeOK
    <3> QED
      BY <2>2, <3>2 DEF Apart
  <2>6. BumpContract!Alloc(l)
    BY <2>2, <2>4, <2>5
       DEF BumpContract!Alloc, BumpContract!HeapEnd, BumpContract!Apart, BumpContract!Block,
           HeapEnd, Apart, Block
  <2> QED
    BY <2>6 DEF BumpContract!Next
<1>2. CASE \E b \in held : BumpDealloc(b)
  BY <1>2 DEF BumpDealloc, BumpContract!Next, BumpContract!Dealloc
<1>3. CASE UNCHANGED bumpVars
  BY <1>3 DEF bumpVars
<1> QED
  BY <1>1, <1>2, <1>3 DEF BumpNext

\* The bump allocator implements the allocator contract, for every region and
\* every set of layouts.
THEOREM BumpKeepsContract == BumpSpec => BumpImplementsHeap
<1>1. BumpInit => BumpContract!Init
  BY DEF BumpInit, BumpContract!Init
<1> QED
  BY <1>1, BumpRefines, BumpInvariance, PTL DEF BumpSpec, BumpImplementsHeap, BumpContract!Spec

-----------------------------------------------------------------------------
(* The linked-list allocator.                                              *)

\* The number of bytes reserved for a block.
Reserved(b) == allocation_size(LayoutOf(b))

\* A block as alloc hands it out.
Held(b) ==
    /\ b \in [addr : Nat, size : Nat \ {0}, align : Nat \ {0}]
    /\ LayoutOf(b) \in Layouts
    /\ b.addr % NODE_ALIGN = 0 /\ b.addr % b.align = 0
    /\ InHeap(b.addr, Reserved(b))

\* The inductive invariant: the list is canonical and no assertion has failed,
\* and a block in a caller's hands shares no byte with the list or with
\* another block.
IInv ==
    /\ SoundFree(free)
    /\ IsFiniteSet(live)
    /\ \A b \in live : Held(b)
    /\ \A b, c \in live : b # c => Apart(b.addr, Reserved(b), c.addr, Reserved(c))
    /\ \A b \in live : \A x \in Bytes(b.addr, Reserved(b)) : ~ Covers(free.list, x)

\* The numbers of a block.
LEMMA HeldFacts ==
    ASSUME NEW b, Held(b)
    PROVE  /\ b.addr \in Nat /\ b.size \in Nat \ {0} /\ b.align \in Nat \ {0}
           /\ Reserved(b) \in Nat \ {0} /\ Reserved(b) >= MIN_BLOCK /\ Reserved(b) >= b.size
  <1> DEFINE l == LayoutOf(b)
  <1>1. l \in Layouts /\ l.size = b.size /\ b.addr \in Nat
    BY DEF Held, LayoutOf
  <1> HIDE DEF l
  <1>2. /\ l.size \in Nat \ {0} /\ l.align \in Nat \ {0}
        /\ allocation_size(l) \in Nat
        /\ allocation_size(l) >= l.size /\ allocation_size(l) >= 16
    BY <1>1, LayoutTypes, LayoutFacts
  <1>3. b.align \in Nat \ {0}
    BY DEF Held
  <1>4. QED
    BY <1>1, <1>2, <1>3 DEF Reserved, l, MIN_BLOCK

-----------------------------------------------------------------------------
(* Each call preserves the inductive invariant.                            *)

\* A block the list could serve is new to the callers: it was free.
LEMMA TakenIsNew ==
    ASSUME IInv, NEW l \in Layouts, NEW found, Taken(free, l, found)
    PROVE  LET new == Block(found.addr, l) IN
           /\ Held(new) /\ Reserved(new) = allocation_size(l)
           /\ new.addr = found.addr /\ new.size = l.size /\ new.align = l.align
           /\ \A b \in live : /\ Apart(new.addr, Reserved(new), b.addr, Reserved(b))
                              /\ Apart(b.addr, Reserved(b), new.addr, Reserved(new))
  <1> DEFINE new == Block(found.addr, l)
             a == found.addr
             s == allocation_size(l)
  <1>1. /\ l \in [size : Nat \ {0}, align : Nat \ {0}]
        /\ l.size \in Nat \ {0} /\ l.align \in Nat \ {0}
        /\ Compatible(l.align, NODE_ALIGN)
    BY LayoutTypes
  <1>2. /\ s \in Nat /\ s >= 16
        /\ allocation_align(l) \in Nat \ {0}
        /\ allocation_align(l) % 8 = 0 /\ allocation_align(l) % l.align = 0
    BY <1>1, LayoutFacts
  <1>3. /\ a \in Nat /\ a % allocation_align(l) = 0 /\ InHeap(a, s)
        /\ \A x \in Int : a <= x /\ x < a + s => Covers(free.list, x)
    BY DEF Taken
  <1>4. /\ new \in [addr : Nat, size : Nat \ {0}, align : Nat \ {0}]
        /\ new.addr = a /\ new.size = l.size /\ new.align = l.align
        /\ LayoutOf(new) = l
    BY <1>1, <1>3, BlockFacts
  <1> HIDE DEF new, a, s
  <1>5. Reserved(new) = s
    BY <1>4 DEF Reserved, s
  <1>6. a % 8 = 0 /\ a % l.align = 0
    BY <1>1, <1>2, <1>3, Divides
  <1>7. Held(new)
    BY <1>3, <1>4, <1>5, <1>6 DEF Held, NODE_ALIGN
  <1>8. ASSUME NEW b \in live
        PROVE  Apart(a, s, b.addr, Reserved(b)) /\ Apart(b.addr, Reserved(b), a, s)
    <2>1. b.addr \in Nat /\ Reserved(b) \in Nat \ {0}
      BY HeldFacts DEF IInv
    <2>2. \A x \in Bytes(b.addr, Reserved(b)) : ~ Covers(free.list, x)
      BY DEF IInv
    <2>3. \A x \in Bytes(a, s) : Covers(free.list, x)
      BY <1>2, <1>3 DEF Bytes
    <2>4. \A x \in Bytes(a, s) : x \notin Bytes(b.addr, Reserved(b))
      BY <2>2, <2>3
    <2>5. s \in Nat \ {0}
      BY <1>2
    <2>6. QED
      BY <1>3, <2>1, <2>4, <2>5, DisjointApart
  <1>9. QED
    BY <1>4, <1>5, <1>7, <1>8 DEF new, a, s

\* alloc answers null and changes nothing, or hands out a block the list had.
LEMMA AllocCases ==
    ASSUME IInv, NEW l \in Layouts, alloc(l)
    PROVE  \/ UNCHANGED vars
           \/ \E found : /\ Taken(free, l, found)
                         /\ free' = found.free
                         /\ live' = live \cup {Block(found.addr, l)}
  <1> DEFINE found == FreeListAlloc(free, l)
  <1>1. /\ free' = found.free
        /\ live' = IF found.addr = Null THEN live ELSE live \cup {Block(found.addr, l)}
    BY DEF alloc
  <1>2. l.size \in Nat /\ l.align \in Nat \ {0} /\ Compatible(l.align, NODE_ALIGN)
    BY LayoutTypes
  <1>3. SoundFree(free)
    BY DEF IInv
  <1>4. \/ found.addr = Null /\ found.free = free
        \/ Taken(free, l, found)
    BY <1>2, <1>3, FreeListAllocFacts
  <1> HIDE DEF found
  <1>5. CASE found.addr = Null /\ found.free = free
    BY <1>1, <1>5 DEF vars
  <1>6. CASE Taken(free, l, found)
    <2>1. found.addr # Null
      BY <1>6 DEF Taken, Null
    <2>2. QED
      BY <1>1, <1>6, <2>1
  <1>7. QED
    BY <1>4, <1>5, <1>6

\* alloc preserves the inductive invariant.
LEMMA AllocInv ==
    ASSUME IInv, NEW l \in Layouts, alloc(l)
    PROVE  IInv'
  <1>1. CASE UNCHANGED vars
    BY <1>1 DEF IInv, vars
  <1>2. CASE \E found : /\ Taken(free, l, found)
                        /\ free' = found.free
                        /\ live' = live \cup {Block(found.addr, l)}
    <2>1. PICK found : /\ Taken(free, l, found)
                       /\ free' = found.free
                       /\ live' = live \cup {Block(found.addr, l)}
      BY <1>2
    <2> DEFINE new == Block(found.addr, l)
    <2>2. /\ Held(new) /\ Reserved(new) = allocation_size(l) /\ new.addr = found.addr
          /\ \A b \in live : /\ Apart(new.addr, Reserved(new), b.addr, Reserved(b))
                             /\ Apart(b.addr, Reserved(b), new.addr, Reserved(new))
      BY <2>1, TakenIsNew
    <2>3. live' = live \cup {new}
      BY <2>1
    <2> HIDE DEF new
    <2>4. SoundFree(free')
      BY <2>1 DEF Taken
    <2>5. IsFiniteSet(live')
      BY <2>3, FS_AddElement DEF IInv
    <2>6. \A b \in live' : Held(b)
      BY <2>2, <2>3 DEF IInv
    <2>7. \A b, c \in live' : b # c => Apart(b.addr, Reserved(b), c.addr, Reserved(c))
      BY <2>2, <2>3 DEF IInv
    <2>8. \A b \in live' : \A x \in Bytes(b.addr, Reserved(b)) : ~ Covers(free'.list, x)
      <3>1. SUFFICES ASSUME NEW b \in live', NEW x \in Bytes(b.addr, Reserved(b))
                     PROVE  ~ Covers(free'.list, x)
        OBVIOUS
      <3>2. /\ b.addr \in Nat /\ Reserved(b) \in Nat
            /\ x \in Int /\ b.addr <= x /\ x < b.addr + Reserved(b)
        BY <2>6, HeldFacts DEF Bytes
      <3>3. CASE b = new
        BY <2>1, <2>2, <3>2, <3>3 DEF Taken
      <3>4. CASE b \in live
        BY <2>1, <3>2, <3>4 DEF IInv, Taken
      <3>5. QED
        BY <2>3, <3>3, <3>4
    <2>9. QED
      BY <2>4, <2>5, <2>6, <2>7, <2>8 DEF IInv
  <1>3. QED
    BY <1>1, <1>2, AllocCases

\* dealloc returns the bytes of the block to the list, and no others.
LEMMA DeallocFacts ==
    ASSUME IInv, NEW b \in live, dealloc(b)
    PROVE  /\ SoundFree(free')
           /\ \A x \in Int : Covers(free'.list, x)
                                <=> Covers(free.list, x) \/ x \in Bytes(b.addr, Reserved(b))
  <1> DEFINE a == b.addr
             s == Reserved(b)
  <1>1. a \in Nat /\ s \in Nat /\ s >= MIN_BLOCK
    BY HeldFacts DEF IInv
  <1>2. a % NODE_ALIGN = 0 /\ InHeap(a, s)
    BY DEF IInv, Held
  <1>3. \A x \in Bytes(a, s) : ~ Covers(free.list, x)
    BY DEF IInv
  <1>4. free' = add_free_region(free, a, s)
    BY DEF dealloc, FreeListDealloc, Reserved
  <1> HIDE DEF a, s
  <1>5. \A x \in Int : a <= x /\ x < a + s <=> x \in Bytes(a, s)
    BY <1>1 DEF Bytes
  <1>6. SoundFree(free)
    BY DEF IInv
  <1>7. \A x \in Int : a <= x /\ x < a + s => ~ Covers(free.list, x)
    BY <1>3, <1>5
  <1>8. /\ SoundFree(add_free_region(free, a, s))
        /\ \A x \in Int : Covers(add_free_region(free, a, s).list, x)
                             <=> Covers(free.list, x) \/ (a <= x /\ x < a + s)
    BY <1>1, <1>2, <1>6, <1>7, AddFreeRegion
  <1>9. QED
    BY <1>4, <1>5, <1>8 DEF a, s

\* dealloc preserves the inductive invariant.
LEMMA DeallocInv ==
    ASSUME IInv, NEW b \in live, dealloc(b)
    PROVE  IInv'
  <1>1. live' = live \ {b}
    BY DEF dealloc
  <1>2. SoundFree(free')
    BY DeallocFacts
  <1>3. IsFiniteSet(live')
    BY <1>1, FS_RemoveElement DEF IInv
  <1>4. /\ \A c \in live' : Held(c)
        /\ \A c, d \in live' : c # d => Apart(c.addr, Reserved(c), d.addr, Reserved(d))
    BY <1>1 DEF IInv
  <1>5. \A c \in live' : \A x \in Bytes(c.addr, Reserved(c)) : ~ Covers(free'.list, x)
    <2>1. SUFFICES ASSUME NEW c \in live', NEW x \in Bytes(c.addr, Reserved(c))
                   PROVE  ~ Covers(free'.list, x)
      OBVIOUS
    <2>2. c \in live /\ c # b
      BY <1>1
    <2>3. /\ c.addr \in Nat /\ Reserved(c) \in Nat
          /\ b.addr \in Nat /\ Reserved(b) \in Nat
      BY <2>2, HeldFacts DEF IInv
    <2>4. x \in Int /\ ~ Covers(free.list, x)
      BY <2>2, <2>3 DEF IInv, Bytes
    <2>5. x \notin Bytes(b.addr, Reserved(b))
      <3>1. Apart(b.addr, Reserved(b), c.addr, Reserved(c))
        BY <2>2 DEF IInv
      <3>2. QED
        BY <2>3, <3>1 DEF Bytes, Apart
    <2>6. QED
      BY <2>4, <2>5, DeallocFacts
  <1>6. QED
    BY <1>2, <1>3, <1>4, <1>5 DEF IInv

\* init leaves one region, or none when no header fits in the heap.
LEMMA InitInv == Init => IInv
  <1>1. SUFFICES ASSUME Init PROVE IInv
    OBVIOUS
  <1>2. QED
    BY <1>1, FreeListInitFacts, FS_EmptySet DEF Init, IInv

\* Every call preserves the inductive invariant.
LEMMA NextInv == IInv /\ [Next]_vars => IInv'
  <1>1. SUFFICES ASSUME IInv, [Next]_vars PROVE IInv'
    OBVIOUS
  <1>2. CASE \E l \in Layouts : alloc(l)
    BY <1>1, <1>2, AllocInv
  <1>3. CASE \E b \in live : dealloc(b)
    BY <1>1, <1>3, DeallocInv
  <1>4. CASE UNCHANGED vars
    BY <1>1, <1>4 DEF IInv, vars
  <1>5. QED
    BY <1>1, <1>2, <1>3, <1>4 DEF Next

\* The inductive invariant holds in every state linkedlist.rs can reach.
THEOREM Invariance == Spec => []IInv
  BY InitInv, NextInv, PTL DEF Spec

-----------------------------------------------------------------------------
(* What follows from it.                                                   *)

\* The list of linkedlist.rs stays canonical and none of the debug assertions
\* of dealloc and add_free_region fails, for every heap and every layouts.
THEOREM ListStaysCanonical == Spec => []ListIsCanonical
  <1>1. IInv => ListIsCanonical
    BY DEF IInv, SoundFree, ListIsCanonical
  <1>2. QED
    BY <1>1, Invariance, PTL

\* The bytes of the list, and those of the blocks.
BytesKnown ==
    \A x : /\ x \in FreeBytes => x \in Int /\ Covers(free.list, x)
           /\ x \in Int /\ Covers(free.list, x) => x \in FreeBytes
           /\ x \in LiveBytes <=> \E b \in live : x \in Bytes(b.addr, Reserved(b))

\* The sets of bytes are what the list covers and what the blocks reserve.
LEMMA ByteSets == IInv => BytesKnown
  <1> SUFFICES ASSUME IInv PROVE BytesKnown
    OBVIOUS
  <1> DEFINE list == free.list
             n == Len(list)
  <1>1. /\ n \in Nat /\ DOMAIN list = 1 .. n
        /\ \A i \in 1 .. n :
              /\ list[i].start \in Nat /\ list[i].size \in Nat
              /\ end_addr(list[i]) = list[i].start + list[i].size
    BY SeqNodeFacts DEF IInv, SoundFree
  <1>2. \A x : x \in FreeBytes <=> \E i \in 1 .. n : x \in Bytes(list[i].start, list[i].size)
    BY <1>1 DEF FreeBytes, Listed
  <1>3. \A x : x \in LiveBytes <=> \E b \in live : x \in Bytes(b.addr, Reserved(b))
    BY DEF LiveBytes, Reserved
  <1>4. \A x : Covers(list, x) <=> \E i \in 1 .. n : Within(list[i], x)
    BY DEF Covers
  <1> HIDE DEF list, n
  <1>5. \A i \in 1 .. n : \A x :
           /\ x \in Bytes(list[i].start, list[i].size) => x \in Int /\ Within(list[i], x)
           /\ x \in Int /\ Within(list[i], x) => x \in Bytes(list[i].start, list[i].size)
    BY <1>1 DEF Bytes, Within
  <1>6. \A x : /\ x \in FreeBytes => x \in Int /\ Covers(list, x)
               /\ x \in Int /\ Covers(list, x) => x \in FreeBytes
    BY <1>2, <1>4, <1>5
  <1>7. QED
    BY <1>3, <1>6 DEF list, BytesKnown

\* The same after a step.
LEMMA ByteSetsNext == IInv' => BytesKnown'
  BY ByteSets, PTL

\* No byte is in two blocks, or in a block and on the list, so a header is
\* never written over a caller's data.
THEOREM NothingHeldTwice == Spec => []NothingTwice
  <1>1. IInv => NothingTwice
    <2>1. SUFFICES ASSUME IInv PROVE NothingTwice
      OBVIOUS
    <2>2. FreeBytes \cap LiveBytes = {}
      BY <2>1, ByteSets DEF IInv, BytesKnown
    <2>3. \A b, c \in live :
             b # c => Apart(b.addr, allocation_size(LayoutOf(b)),
                            c.addr, allocation_size(LayoutOf(c)))
      BY <2>1 DEF IInv, Reserved
    <2>4. QED
      BY <2>2, <2>3 DEF NothingTwice
  <1>2. QED
    BY <1>1, Invariance, PTL

\* Two stretches that are each shorter than a header.
LEMMA TwoSlivers ==
    ASSUME NEW lo \in Nat, NEW hi \in Nat, NEW S,
           \A x \in S : \/ x \in lo .. lo + MIN_BLOCK - 2
                        \/ x \in hi .. hi + MIN_BLOCK - 2
    PROVE  Cardinality(S) < 2 * MIN_BLOCK
  <1> DEFINE A == lo .. lo + MIN_BLOCK - 2
             B == hi .. hi + MIN_BLOCK - 2
  <1>1. IsFiniteSet(A) /\ Cardinality(A) = 15
    BY FS_Interval DEF MIN_BLOCK
  <1>2. IsFiniteSet(B) /\ Cardinality(B) = 15
    BY FS_Interval DEF MIN_BLOCK
  <1>3. S \in SUBSET (A \cup B)
    OBVIOUS
  <1> HIDE DEF A, B
  <1>4. /\ IsFiniteSet(A \cup B)
        /\ Cardinality(A \cup B) = Cardinality(A) + Cardinality(B) - Cardinality(A \cap B)
    BY <1>1, <1>2, FS_Union
  <1>5. Cardinality(A \cap B) \in Nat
    BY <1>1, FS_Intersection, FS_CardinalityType
  <1>6. /\ Cardinality(S) <= Cardinality(A \cup B)
        /\ IsFiniteSet(S)
    BY <1>3, <1>4, FS_Subset
  <1>7. Cardinality(S) \in Nat
    BY <1>6, FS_CardinalityType
  <1>8. QED
    BY <1>1, <1>2, <1>4, <1>5, <1>6, <1>7 DEF MIN_BLOCK

\* What one call may lose.
Loss ==
    /\ Cardinality(live') < Cardinality(live) => LeakedBytes' \subseteq LeakedBytes
    /\ Cardinality(LeakedBytes' \ LeakedBytes) < 2 * MIN_BLOCK

\* A call that loses no byte.
LEMMA NoLoss ==
    ASSUME LeakedBytes' \subseteq LeakedBytes
    PROVE  Loss
  <1>1. LeakedBytes' \ LeakedBytes = {}
    OBVIOUS
  <1>2. QED
    BY <1>1, FS_EmptySet DEF Loss, MIN_BLOCK

\* alloc loses the leftovers too small for a header.
LEMMA AllocLoss ==
    ASSUME IInv, IInv', NEW l \in Layouts, alloc(l)
    PROVE  Loss
  <1>1. CASE UNCHANGED vars
    <2>1. LeakedBytes' = LeakedBytes
      BY <1>1 DEF vars, LeakedBytes, FreeBytes, LiveBytes, Listed
    <2>2. QED
      BY <2>1, NoLoss
  <1>2. CASE \E found : /\ Taken(free, l, found)
                        /\ free' = found.free
                        /\ live' = live \cup {Block(found.addr, l)}
    <2>1. PICK found : /\ Taken(free, l, found)
                       /\ free' = found.free
                       /\ live' = live \cup {Block(found.addr, l)}
      BY <1>2
    <2> DEFINE new == Block(found.addr, l)
               s == allocation_size(l)
    <2>2. Reserved(new) = s /\ new.addr = found.addr /\ Held(new)
      BY <2>1, TakenIsNew
    <2>3. found.addr \in Nat /\ s \in Nat
      BY <2>2, HeldFacts
    <2>4. PICK lo \in Nat, hi \in Nat : \A x \in Int :
             Covers(free.list, x) =>
                \/ Covers(free'.list, x)
                \/ found.addr <= x /\ x < found.addr + s
                \/ lo <= x /\ x < lo + MIN_BLOCK - 1
                \/ hi <= x /\ x < hi + MIN_BLOCK - 1
      BY <2>1 DEF Taken
    <2>5. live' = live \cup {new}
      BY <2>1
    <2> HIDE DEF new, s
    <2>6. \A x \in LeakedBytes' \ LeakedBytes :
             x \in lo .. lo + MIN_BLOCK - 2 \/ x \in hi .. hi + MIN_BLOCK - 2
      <3>1. SUFFICES ASSUME NEW x \in LeakedBytes', x \notin LeakedBytes
                     PROVE  \/ x \in lo .. lo + MIN_BLOCK - 2
                            \/ x \in hi .. hi + MIN_BLOCK - 2
        OBVIOUS
      <3>2. /\ x \in HeapStart .. HeapEnd - 1
            /\ x \notin FreeBytes' /\ x \notin LiveBytes'
            /\ x \in FreeBytes \/ x \in LiveBytes
        BY <3>1 DEF LeakedBytes
      <3>3. x \in Int
        BY <3>2, HeapAssumption DEF HeapEnd
      <3>4. ~ Covers(free'.list, x)
        BY <3>2, <3>3, ByteSetsNext DEF BytesKnown
      <3>5. \A b \in live' : x \notin Bytes(b.addr, Reserved(b))
        BY <3>2, ByteSetsNext DEF BytesKnown
      <3>6. Covers(free.list, x)
        BY <2>5, <3>2, <3>5, ByteSets DEF BytesKnown
      <3>7. ~ (found.addr <= x /\ x < found.addr + s)
        <4>1. x \notin Bytes(found.addr, s)
          BY <2>2, <2>5, <3>5
        <4>2. QED
          BY <2>3, <3>3, <4>1 DEF Bytes
      <3>8. \/ lo <= x /\ x < lo + MIN_BLOCK - 1
            \/ hi <= x /\ x < hi + MIN_BLOCK - 1
        BY <2>4, <3>3, <3>4, <3>6, <3>7
      <3>9. QED
        BY <3>3, <3>8 DEF MIN_BLOCK
    <2>7. Cardinality(LeakedBytes' \ LeakedBytes) < 2 * MIN_BLOCK
      BY <2>6, TwoSlivers
    <2>8. ~ (Cardinality(live') < Cardinality(live))
      <3>1. IsFiniteSet(live)
        BY DEF IInv
      <3>2. Cardinality(live) \in Nat
        BY <3>1, FS_CardinalityType
      <3>3. Cardinality(live') = IF new \in live THEN Cardinality(live) ELSE Cardinality(live) + 1
        BY <2>5, <3>1, FS_AddElement
      <3>4. QED
        BY <3>2, <3>3
    <2>9. QED
      BY <2>7, <2>8 DEF Loss
  <1>3. QED
    BY <1>1, <1>2, AllocCases

\* dealloc loses nothing.
LEMMA DeallocLoss ==
    ASSUME IInv, IInv', NEW b \in live, dealloc(b)
    PROVE  Loss
  <1>1. ASSUME NEW x \in LeakedBytes' PROVE x \in LeakedBytes
    <2>1. /\ x \in HeapStart .. HeapEnd - 1
          /\ x \notin FreeBytes' /\ x \notin LiveBytes'
      BY <1>1 DEF LeakedBytes
    <2>2. x \in Int
      BY <2>1, HeapAssumption DEF HeapEnd
    <2>3. ~ Covers(free'.list, x)
      BY <2>1, <2>2, ByteSetsNext DEF BytesKnown
    <2>4. ~ Covers(free.list, x) /\ x \notin Bytes(b.addr, Reserved(b))
      BY <2>2, <2>3, DeallocFacts
    <2>5. \A c \in live' : x \notin Bytes(c.addr, Reserved(c))
      BY <2>1, ByteSetsNext DEF BytesKnown
    <2>6. \A c \in live : c = b \/ c \in live'
      BY DEF dealloc
    <2>7. \A c \in live : x \notin Bytes(c.addr, Reserved(c))
      BY <2>4, <2>5, <2>6
    <2>8. x \notin FreeBytes /\ x \notin LiveBytes
      BY <2>4, <2>7, ByteSets DEF BytesKnown
    <2>9. QED
      BY <2>1, <2>8 DEF LeakedBytes
  <1>2. QED
    BY <1>1, NoLoss

\* A call loses less than two headers of the heap, and dealloc nothing: the
\* leftovers find_region drops are the only bytes linkedlist.rs ever forgets.
THEOREM LossIsBounded == Spec => LeakPerCall
  <1>1. IInv /\ IInv' /\ [Next]_vars => [Loss]_vars
    <2>1. SUFFICES ASSUME IInv, IInv', Next PROVE Loss
      OBVIOUS
    <2>2. CASE \E l \in Layouts : alloc(l)
      BY <2>1, <2>2, AllocLoss
    <2>3. CASE \E b \in live : dealloc(b)
      BY <2>1, <2>3, DeallocLoss
    <2>4. QED
      BY <2>1, <2>2, <2>3 DEF Next
  <1>2. Spec => [][Loss]_vars
    BY <1>1, Invariance, PTL DEF Spec
  <1>3. QED
    BY <1>2 DEF LeakPerCall, Loss

-----------------------------------------------------------------------------
(* The allocator contract.                                                 *)

\* A call is one the contract allows, or changes no block in a caller's hands.
LEMMA StepRefines == IInv /\ [Next]_vars => [Contract!Next]_live
  <1>1. SUFFICES ASSUME IInv, [Next]_vars PROVE Contract!Next \/ live' = live
    OBVIOUS
  <1>2. ASSUME NEW l \in Layouts, alloc(l) PROVE Contract!Next \/ live' = live
    <2>1. CASE UNCHANGED vars
      BY <2>1 DEF vars
    <2>2. CASE \E found : /\ Taken(free, l, found)
                          /\ free' = found.free
                          /\ live' = live \cup {Block(found.addr, l)}
      <3>1. PICK found : /\ Taken(free, l, found)
                         /\ live' = live \cup {Block(found.addr, l)}
        BY <2>2
      <3> DEFINE a == found.addr
                 new == Block(a, l)
      <3>2. /\ Held(new)
            /\ new.addr = a /\ new.size = l.size /\ new.align = l.align
            /\ \A b \in live : Apart(new.addr, Reserved(new), b.addr, Reserved(b))
        BY <1>1, <3>1, TakenIsNew
      <3> HIDE DEF new
      <3>3. /\ a \in Nat /\ l.size \in Nat \ {0}
            /\ Reserved(new) \in Nat /\ Reserved(new) >= l.size
        BY <3>2, HeldFacts
      <3>4. a % l.align = 0 /\ InHeap(a, Reserved(new))
        BY <3>2 DEF Held
      <3>5. a \in HeapStart .. HeapEnd - l.size
        <4>1. HeapStart \in Nat /\ HeapEnd \in Nat
          BY HeapAssumption DEF HeapEnd
        <4>2. QED
          BY <3>3, <3>4, <4>1 DEF InHeap
      <3>6. \A b \in live : Apart(a, l.size, b.addr, b.size)
        <4>1. SUFFICES ASSUME NEW b \in live PROVE Apart(a, l.size, b.addr, b.size)
          OBVIOUS
        <4>2. /\ b.addr \in Nat /\ b.size \in Nat
              /\ Reserved(b) \in Nat /\ Reserved(b) >= b.size
          BY <1>1, HeldFacts DEF IInv
        <4>3. Apart(a, Reserved(new), b.addr, Reserved(b))
          BY <3>2
        <4>4. QED
          BY <3>3, <4>2, <4>3 DEF Apart
      <3>7. Contract!Alloc(l)
        BY <3>1, <3>4, <3>5, <3>6
           DEF Contract!Alloc, Contract!HeapEnd, Contract!Apart, Contract!Block,
               HeapEnd, Apart, Block
      <3>8. QED
        BY <3>7 DEF Contract!Next
    <2>3. QED
      BY <1>1, <1>2, <2>1, <2>2, AllocCases
  <1>3. CASE \E b \in live : dealloc(b)
    BY <1>3 DEF dealloc, Contract!Next, Contract!Dealloc
  <1>4. CASE UNCHANGED vars
    BY <1>4 DEF vars
  <1>5. QED
    BY <1>1, <1>2, <1>3, <1>4 DEF Next

\* The linked-list allocator implements the allocator contract, for every heap
\* and every set of layouts.
THEOREM LinkedListImplementsHeap == Spec => ImplementsHeap
  <1>1. Init => Contract!Init
    BY DEF Init, Contract!Init
  <1>2. QED
    BY <1>1, StepRefines, Invariance, PTL DEF Spec, ImplementsHeap, Contract!Spec
=============================================================================

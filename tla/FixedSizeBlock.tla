--------------------------- MODULE FixedSizeBlock ----------------------------
(***************************************************************************)
(* The global allocator, FixedSizeBlockAllocator                           *)
(* (src/allocator/fixed_size_block.rs): one list of cached blocks per  *)
(* size class in front of the free list.  Freed blocks of a class stay in  *)
(* the class; only the class too small for a header, and layouts above     *)
(* every class, go back to the fallback.                                   *)
(***************************************************************************)
EXTENDS FreeList

CONSTANT BLOCK_SIZES   \* the class sizes, ascending powers of two

ASSUME ClassAssumption ==
    /\ BLOCK_SIZES \in Seq(Nat \ {0})
    /\ \A i \in 1 .. Len(BLOCK_SIZES) - 1 : BLOCK_SIZES[i] < BLOCK_SIZES[i + 1]
    /\ \A i \in 1 .. Len(BLOCK_SIZES) :
          /\ Compatible(BLOCK_SIZES[i], NODE_ALIGN)
          /\ \A l \in Layouts : Compatible(l.align, BLOCK_SIZES[i])

VARIABLES
    list_heads,          \* per class, the cached blocks from the head on
    fallback_allocator,  \* the free list
    live                 \* the blocks callers hold

vars == <<list_heads, fallback_allocator, live>>

Classes == DOMAIN BLOCK_SIZES

\* A plausible slip: choose the class by size alone.
IndexBySize(l) == First(BLOCK_SIZES, LAMBDA s : s >= l.size)

\* The smallest class that holds the layout, 0 when none does.
list_index(l) ==
    First(BLOCK_SIZES, LAMBDA s : s >= Larger(l.size, l.align))

\* A plausible slip: ask the fallback for the caller's layout, not the class's.
CallersLayout(l) == l

\* The layout the fallback is asked for when no cached block serves l.
BlockLayout(l) ==
    IF list_index(l) = 0 THEN l
    ELSE [size |-> BLOCK_SIZES[list_index(l)], align |-> BLOCK_SIZES[list_index(l)]]

\* Whether a freed block is cached: a header must fit in its class.
Caches(l) ==
    /\ list_index(l) # 0
    /\ BLOCK_SIZES[list_index(l)] >= MIN_BLOCK
    /\ BLOCK_SIZES[list_index(l)] >= NODE_ALIGN

Init ==
    /\ list_heads = [i \in Classes |-> <<>>]
    /\ fallback_allocator = FreeListInit
    /\ live = {}

Cached(l) == list_index(l) # 0 /\ list_heads[list_index(l)] # <<>>

\* A plausible slip: the list is not advanced past the block it hands out.
AllocKeepingHead(l) ==
    /\ Cached(l)
    /\ live' = live \cup {Block(Head(list_heads[list_index(l)]), l)}
    /\ UNCHANGED <<list_heads, fallback_allocator>>

AllocCached(l) ==
    /\ Cached(l)
    /\ list_heads' = [list_heads EXCEPT ![list_index(l)] = Tail(@)]
    /\ live' = live \cup {Block(Head(list_heads[list_index(l)]), l)}
    /\ UNCHANGED fallback_allocator

AllocFallback(l) ==
    LET found == FreeListAlloc(fallback_allocator, BlockLayout(l))
    IN  /\ ~Cached(l)
        /\ fallback_allocator' = found.free
        /\ live' = IF found.addr = Null THEN live
                   ELSE live \cup {Block(found.addr, l)}
        /\ UNCHANGED list_heads

DeallocCached(b) ==
    /\ Caches(LayoutOf(b))
    /\ list_heads' = [list_heads EXCEPT ![list_index(LayoutOf(b))] = <<b.addr>> \o @]
    /\ live' = live \ {b}
    /\ UNCHANGED fallback_allocator

DeallocFallback(b) ==
    /\ ~Caches(LayoutOf(b))
    /\ fallback_allocator' = FreeListDealloc(fallback_allocator, b.addr, LayoutOf(b))
    /\ live' = live \ {b}
    /\ UNCHANGED list_heads

Next ==
    \/ \E l \in Layouts : AllocCached(l) \/ AllocFallback(l)
    \/ \E b \in live : DeallocCached(b) \/ DeallocFallback(b)

Spec == Init /\ [][Next]_vars

\* A plausible slip: count one block too many per class.
StatsOffByOne ==
    [heap_size  |-> HeapSize,
     free_bytes |-> free_bytes(fallback_allocator.list)
                    + MapThenSumSet(LAMBDA i : BLOCK_SIZES[i] * (Len(list_heads[i]) + 1), Classes)]

stats ==
    [heap_size  |-> HeapSize,
     free_bytes |-> free_bytes(fallback_allocator.list)
                    + MapThenSumSet(LAMBDA i : BLOCK_SIZES[i] * Len(list_heads[i]), Classes)]
-----------------------------------------------------------------------------
\* The bytes the fallback set aside for a block with this layout.
Extent(l) == allocation_size(BlockLayout(l))

\* Every stretch of memory someone knows of, with what it is: a live block, a
\* cached block or a free region.
Stretches ==
    {<<"live", b.addr, Extent(LayoutOf(b))>> : b \in live}
    \cup (UNION {{<<"cached", list_heads[i][j], BLOCK_SIZES[i]>> : j \in DOMAIN list_heads[i]} :
                     i \in Classes})
    \cup {<<"free", fallback_allocator.list[k].start, fallback_allocator.list[k].size>> :
              k \in DOMAIN fallback_allocator.list}

\* A byte belongs to one live block, one cached block or one free region at
\* most, and no address is cached twice, however blocks move between the two
\* layers: dealloc picks the class alloc picked, and the 8-byte class is
\* returned with the extent the fallback gave it.  A cached block is aligned
\* to its class, whichever layout it served before, so it can serve any layout
\* that maps to the class (list_index takes the larger of size and alignment
\* for this).
LayersShareNothing ==
    /\ \A s, t \in Stretches : s # t => Apart(s[2], s[3], t[2], t[3])
    /\ \A s \in Stretches : InHeap(s[2], s[3])
    /\ \A i \in Classes : /\ IsInjective(list_heads[i])
                         /\ \A j \in DOMAIN list_heads[i] :
                               list_heads[i][j] % BLOCK_SIZES[i] = 0

\* The bytes the fallback knows to be free.
FallbackBytes ==
    UNION {Bytes(fallback_allocator.list[k].start, fallback_allocator.list[k].size) :
              k \in DOMAIN fallback_allocator.list}

\* alloc would return null.
Refused(l) ==
    ~ Cached(l) /\ FreeListAlloc(fallback_allocator, BlockLayout(l)).addr = Null

\* A request is refused only when its class has no cached block and the bytes
\* outside the classes have no aligned stretch for it: first fit over the list
\* misses no room, because freed neighbours have been joined.  What the other
\* classes cache does not count, as it never goes back.
RefusedOnlyWithoutRoom ==
    \A l \in Layouts : Refused(l) =>
        \A addr \in HeapStart .. HeapEnd - 1 :
            addr % allocation_align(BlockLayout(l)) = 0
                => ~ (Bytes(addr, Extent(l)) \subseteq FallbackBytes)

\* The fallback's list stays canonical and none of its debug assertions
\* fails under the mixed traffic of the classes.
FallbackSound ==
    fallback_allocator.ok /\ Canonical(fallback_allocator.list)

\* The free bytes stats() reports and the bytes live blocks occupy together
\* never exceed the heap: a byte is never counted as free while in use, and
\* never twice.
StatsNeverOverreport ==
    stats.free_bytes + MapThenSumSet(LAMBDA b : Extent(LayoutOf(b)), live)
        <= stats.heap_size

\* Every call is one the allocator contract allows.
Contract == INSTANCE Heap
ImplementsHeap == Contract!Spec
=============================================================================

----------------------------- MODULE LinkedList ------------------------------
(***************************************************************************)
(* LinkedListAllocator (src/allocator/linkedlist.rs) under callers     *)
(* that keep the contract: they free what they hold, once, with the layout *)
(* they asked for.  The spin lock around it makes each call one step.      *)
(***************************************************************************)
EXTENDS FreeList

VARIABLES
    free,   \* the free list, and whether every debug assertion has held
    live    \* the blocks callers hold

vars == <<free, live>>

Init == free = FreeListInit /\ live = {}

alloc(l) ==
    LET found == FreeListAlloc(free, l)
    IN  /\ free' = found.free
        /\ live' = IF found.addr = Null THEN live
                   ELSE live \cup {Block(found.addr, l)}

dealloc(b) ==
    /\ free' = FreeListDealloc(free, b.addr, LayoutOf(b))
    /\ live' = live \ {b}

Next ==
    \/ \E l \in Layouts : alloc(l)
    \/ \E b \in live : dealloc(b)

Spec == Init /\ [][Next]_vars
-----------------------------------------------------------------------------
Listed == {free.list[i] : i \in DOMAIN free.list}
FreeBytes == UNION {Bytes(r.start, r.size) : r \in Listed}
LiveBytes == UNION {Bytes(b.addr, allocation_size(LayoutOf(b))) : b \in live}

\* Bytes no list and no caller knows of: what find_region dropped, and the
\* padding init dropped.
LeakedBytes == (HeapStart .. HeapEnd - 1) \ (FreeBytes \cup LiveBytes)

\* After any history of calls the list is in address order, each region can
\* hold its header, and no two regions touch: one pass of coalesce is enough
\* wherever the freed block lands (add_free_region, coalesce).  No debug_assert
\* of dealloc or add_free_region has failed on the way.
ListIsCanonical == free.ok /\ Canonical(free.list)

\* The regions alloc reserved for live blocks share no byte with each other
\* or with the free list, so writing a header cannot hit a caller's data and
\* no two callers share memory; the rounding done by alloc and by dealloc
\* agree.
NothingTwice ==
    /\ FreeBytes \cap LiveBytes = {}
    /\ \A b, c \in live :
           b # c => Apart(b.addr, allocation_size(LayoutOf(b)),
                          c.addr, allocation_size(LayoutOf(c)))

\* dealloc loses nothing and alloc loses less than a header at either end of
\* the block it cuts out (find_region's two leftovers).
LeakPerCall ==
    [][/\ Cardinality(live') < Cardinality(live) => LeakedBytes' \subseteq LeakedBytes
       /\ Cardinality(LeakedBytes' \ LeakedBytes) < 2 * MIN_BLOCK]_vars

\* Every call is one the allocator contract allows.
Contract == INSTANCE Heap
ImplementsHeap == Contract!Spec

\* "fragmentation is bounded by the threshold below rather than by allocation
\* history": with every block returned, fewer bytes than the threshold are
\* missing from the list.
LossBelowThreshold ==
    live = {} => HeapSize - free_bytes(free.list) < MIN_BLOCK
=============================================================================

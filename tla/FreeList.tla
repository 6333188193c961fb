------------------------------ MODULE FreeList -------------------------------
(***************************************************************************)
(* The address-ordered free list of src/allocator/linkedlist.rs, as    *)
(* operators on a sequence of regions: the nodes in the order of their     *)
(* next links.  LinkedList drives it on its own, FixedSizeBlock as the     *)
(* fallback behind its size classes.                                       *)
(***************************************************************************)
EXTENDS HeapLayout, Sequences, FiniteSetsExt

MIN_BLOCK == 16    \* size_of::<ListNode>()
NODE_ALIGN == 8    \* align_of::<ListNode>()

\* Alignments are powers of two (core::alloc::Layout); what counts is that of
\* two of them the smaller divides the larger.
Compatible(a, b) == (a <= b => b % a = 0) /\ (b <= a => a % b = 0)

ASSUME AlignAssumption == \A l \in Layouts : Compatible(l.align, NODE_ALIGN)

Larger(a, b) == IF a > b THEN a ELSE b

\* A plausible slip: forget that a freed block must hold a header.
UnpaddedSize(l) == align_up(l.size, NODE_ALIGN)

allocation_size(l) == align_up(Larger(l.size, MIN_BLOCK), NODE_ALIGN)

\* A plausible slip: serve every layout at the alignment of a header.
NodeAlign(l) == NODE_ALIGN

allocation_align(l) == Larger(l.align, NODE_ALIGN)

Region(start, size) == [start |-> start, size |-> size]
end_addr(r) == r.start + r.size

\* Where a walk along the list stops: at the first entry for which Stop holds,
\* 0 when there is none.
First(list, Stop(_)) ==
    LET stops == {i \in 1 .. Len(list) : Stop(list[i])}
    IN  IF stops # {} THEN Min(stops) ELSE 0

\* The list with r spliced in before its i-th node, and with that node unlinked.
Splice(list, i, r) == SubSeq(list, 1, i - 1) \o <<r>> \o SubSeq(list, i, Len(list))
Unlink(list, i) == SubSeq(list, 1, i - 1) \o SubSeq(list, i + 1, Len(list))

\* One step of coalesce's walk: r, the next node, is merged into the node the
\* walk stands on when it begins where that one ends.
Merge(walked, r) ==
    IF walked # <<>> /\ end_addr(walked[Len(walked)]) = r.start
    THEN [walked EXCEPT ![Len(walked)].size = @ + r.size]
    ELSE Append(walked, r)

\* A plausible slip: go on to the next slot after a merge, so that a block
\* that bridges two others is joined with the first one only.
MergeOnce(list) ==
    LET i == First([j \in 1 .. Len(list) - 1 |-> end_addr(list[j]) = list[j + 1].start],
                   LAMBDA adjacent : adjacent)
    IN  IF i = 0 THEN list
        ELSE Unlink([list EXCEPT ![i].size = @ + list[i + 1].size], i + 1)

coalesce(list) ==
    LET walk[k \in 0 .. Len(list)] ==
            IF k = 0 THEN <<>> ELSE Merge(walk[k - 1], list[k])
    IN  walk[Len(list)]

\* The slot the walk stops at: before the first node that is not below addr.
Slot(list, addr) ==
    LET i == First(list, LAMBDA r : r.start >= addr)
    IN  IF i = 0 THEN Len(list) + 1 ELSE i

\* The debug assertions on a region that is about to be listed.
Listable(list, addr, size) ==
    /\ size >= MIN_BLOCK
    /\ align_up(addr, NODE_ALIGN) = addr
    /\ InHeap(addr, size)
    /\ \A i \in 1 .. Slot(list, addr) - 1 : addr >= end_addr(list[i])

\* free is the list with ok, whether every assertion has held so far.
add_free_region(free, addr, size) ==
    [list |-> coalesce(Splice(free.list, Slot(free.list, addr), Region(addr, size))),
     ok |-> free.ok /\ Listable(free.list, addr, size)]

\* A plausible slip: compare sizes and forget the padding in front.
FitBySize(list, size, align) == First(list, LAMBDA r : r.size >= size)

\* The first region that can hold the block, 0 when there is none.
Fit(list, size, align) ==
    First(list, LAMBDA r : align_up(r.start, align) + size <= end_addr(r))

\* A leftover too small for a header is dropped.
PutBack(free, addr, size) ==
    IF size >= MIN_BLOCK THEN add_free_region(free, addr, size) ELSE free

\* The address, and the list once its i-th region has served the block.
find_region(free, i, size, align) ==
    LET r     == free.list[i]
        addr  == align_up(r.start, align)
        rest  == [free EXCEPT !.list = Unlink(@, i)]
        front == PutBack(rest, r.start, addr - r.start)
    IN  [addr |-> addr,
         free |-> PutBack(front, addr + size, end_addr(r) - (addr + size))]

\* A block for the layout, or the address Null and the list as it was.
Null == -1
FreeListAlloc(free, l) ==
    LET size == allocation_size(l)
        align == allocation_align(l)
        i == Fit(free.list, size, align)
    IN  IF i = 0 THEN [addr |-> Null, free |-> free]
        ELSE find_region(free, i, size, align)

\* A plausible slip: return the size asked for, not the size reserved.
DeallocUnrounded(free, addr, l) == add_free_region(free, addr, l.size)

FreeListDealloc(free, addr, l) == add_free_region(free, addr, allocation_size(l))

\* init: the whole range is one region, less the leading padding.
FreeListInit ==
    LET start == align_up(HeapStart, NODE_ALIGN)
    IN  PutBack([list |-> <<>>, ok |-> TRUE], start, HeapEnd - start)

free_bytes(list) == MapThenSumSet(LAMBDA i : list[i].size, DOMAIN list)

\* Every node is a region a header fits in, in address order, and no region
\* touches the next.
Canonical(list) ==
    /\ \A i \in DOMAIN list :
           /\ list[i].size >= MIN_BLOCK
           /\ list[i].start % NODE_ALIGN = 0
           /\ InHeap(list[i].start, list[i].size)
    /\ \A i \in 1 .. Len(list) - 1 : end_addr(list[i]) < list[i + 1].start
=============================================================================

------------------------------- MODULE Heap ----------------------------------
(***************************************************************************)
(* What an allocator promises its callers (the GlobalAlloc contract): a    *)
(* block that is not null is inside the heap, aligned as asked, and shares *)
(* no byte with a block that is still live.  Which address it is, and      *)
(* whether a request is refused, is left open.                             *)
(***************************************************************************)
EXTENDS HeapLayout

VARIABLE live

Init == live = {}

Alloc(l) ==
    \E addr \in HeapStart .. HeapEnd - l.size :
        /\ addr % l.align = 0
        /\ \A b \in live : Apart(addr, l.size, b.addr, b.size)
        /\ live' = live \cup {Block(addr, l)}

Dealloc(b) == live' = live \ {b}

Next ==
    \/ \E l \in Layouts : Alloc(l)
    \/ \E b \in live : Dealloc(b)

Spec == Init /\ [][Next]_live
=============================================================================

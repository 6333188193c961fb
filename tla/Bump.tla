-------------------------------- MODULE Bump ---------------------------------
(***************************************************************************)
(* BumpAllocator (src/allocator/bump.rs): a cursor that only advances.     *)
(* heap_start and heap_end never change after init and are constants here. *)
(***************************************************************************)
EXTENDS HeapLayout

VARIABLES
    next,     \* the cursor
    held,     \* the blocks callers hold
    handed    \* every block ever handed out, returned or not

bumpVars == <<next, held, handed>>

BumpInit == next = HeapStart /\ held = {} /\ handed = {}

\* A plausible slip: leave the cursor where the unaligned block would end.
BumpUnaligned(l) ==
    LET alloc_start == align_up(next, l.align)
        alloc_end == alloc_start + l.size
    IN  /\ alloc_end <= HeapEnd
        /\ next' = next + l.size
        /\ held' = held \cup {Block(alloc_start, l)}
        /\ handed' = handed \cup {Block(alloc_start, l)}

\* A request past the end gets null and changes nothing.
BumpAlloc(l) ==
    LET alloc_start == align_up(next, l.align)
        alloc_end == alloc_start + l.size
    IN  IF alloc_end > HeapEnd
        THEN UNCHANGED bumpVars
        ELSE /\ next' = alloc_end
             /\ held' = held \cup {Block(alloc_start, l)}
             /\ handed' = handed \cup {Block(alloc_start, l)}

\* A plausible slip: take the cursor back to the returned block.
BumpRewinding(b) ==
    /\ next' = b.addr
    /\ held' = held \ {b}
    /\ UNCHANGED handed

BumpDealloc(b) ==
    /\ held' = held \ {b}
    /\ UNCHANGED <<next, handed>>

BumpNext ==
    \/ \E l \in Layouts : BumpAlloc(l)
    \/ \E b \in held : BumpDealloc(b)

BumpSpec == BumpInit /\ [][BumpNext]_bumpVars
-----------------------------------------------------------------------------
\* Type invariant: the cursor is in the heap and every block is the heap's.
BumpTypeOK ==
    /\ next \in HeapStart .. HeapEnd
    /\ handed \subseteq [addr : Nat, size : Nat \ {0}, align : Nat \ {0}]
    /\ held \subseteq handed

\* No byte is handed out twice, not even one that was returned in between:
\* dealloc is a no-op and the cursor passes every block with its padding.
NeverReused ==
    \A b, c \in handed : b # c => Apart(b.addr, b.size, c.addr, c.size)

\* Every call is one the allocator contract allows.
BumpContract == INSTANCE Heap WITH live <- held
BumpImplementsHeap == BumpContract!Spec
=============================================================================

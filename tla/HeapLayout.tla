----------------------------- MODULE HeapLayout ------------------------------
(***************************************************************************)
(* What every allocator of src/allocator shares: the heap's bounds, the *)
(* layouts callers ask for, and align_up.  Addresses and sizes are bytes.  *)
(***************************************************************************)
EXTENDS Integers, FiniteSets

CONSTANTS
    HeapStart,   \* heap_start given to init
    HeapSize,    \* heap_size given to init
    Layouts      \* the layouts in use: [size |-> ..., align |-> ...]

ASSUME HeapAssumption ==
    /\ HeapStart \in Nat /\ HeapSize \in Nat
    /\ Layouts \subseteq [size : Nat \ {0}, align : Nat \ {0}]

HeapEnd == HeapStart + HeapSize

\* For a power of two, masking the low bits off is rounding down.
align_up(addr, align) == ((addr + align - 1) \div align) * align

Bytes(addr, size) == addr .. (addr + size - 1)

InHeap(addr, size) == HeapStart <= addr /\ addr + size <= HeapEnd

Apart(a, asize, b, bsize) == a + asize <= b \/ b + bsize <= a

\* A block in a caller's hands: its address and the layout it asked for.
Block(addr, l) == [addr |-> addr, size |-> l.size, align |-> l.align]

LayoutOf(b) == [size |-> b.size, align |-> b.align]
=============================================================================

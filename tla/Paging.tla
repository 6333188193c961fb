-------------------------------- MODULE Paging -------------------------------
(***************************************************************************)
(* The page tables the boot thread builds from the frames of Frames:       *)
(* create_example_mapping (src/memory.rs), init_heap                       *)
(* (src/allocator/mod.rs) and, as often as it is called,                   *)
(* create_process_from_program (src/userland.rs), in the order of          *)
(* kernel_main (src/main.rs) or test_kernel_main (src/lib.rs).             *)
(*                                                                         *)
(* Every step takes at most one frame.  A page is <<area, index>>: page 0  *)
(* is the area "low", the heap "heap", and USER_CODE_BASE and              *)
(* USER_STACK_BASE are the two pages of "user".  The pages of an area      *)
(* share their TABLES tables and areas share none, as their addresses say. *)
(***************************************************************************)
EXTENDS Frames, UserPages, Integers

CONSTANTS
    HEAP_PAGES,  \* HEAP_SIZE in pages
    Vga,         \* the frame of 0xb8000
    MaxCreates   \* bound: calls of create_process_from_program

ASSUME PagingAssumption ==
    /\ HEAP_PAGES \in Nat \ {0} /\ MaxCreates \in Nat /\ Vga \in Nat
    /\ \A m \in Maps : \A i \in 1 .. Len(m) :
          m[i].usable => Vga \notin m[i].start .. m[i].end - 1

VARIABLES
    at,          \* the area whose pages are being mapped, "up" or "panic"
    index,       \* its page that is being mapped
    leaf,        \* the frame that page is to have, once allocated
    depth,       \* area -> page-table levels that exist
    tableFrames, \* frames made page tables since boot
    entries,     \* leaf entries: records of a page and its frame
    heap_ready,  \* ALLOCATOR.init has run
    creates,     \* calls of create_process_from_program
    before       \* history: the user pages when the last of them began

pageVars == <<at, index, leaf, depth, tableFrames, entries, heap_ready, creates, before>>
pagingVars == <<frameVars, pageVars>>

NoFrame == -1

\* How many pages each area has.
PAGES == [low |-> 1, heap |-> HEAP_PAGES, user |-> 2]

Mapped(page) == \E e \in entries : e.page = page

\* What UserPages knows of the state.
UserPagesNow ==
    [frames |-> Cardinality(UsableFrames) - Len(handed),
     tables |-> depth["user"],
     code   |-> Mapped(<<"user", 1>>),
     stack  |-> Mapped(<<"user", 2>>)]

\* The frame a page of the area starts with: the example page has one.
LeafFor(area) == IF area = "low" THEN Vga ELSE NoFrame

\* kernel_main begins with the example page, the test kernel with the heap.
\* How much of page 0's walk exists is the bootloader's affair.
PagingInit ==
    /\ FrameInit
    /\ at \in {"low", "heap"} /\ index = 1 /\ leaf = LeafFor(at)
    /\ depth \in [{"low", "heap", "user"} -> 0 .. TABLES]
    /\ depth["heap"] = 0 /\ depth["user"] = 0
    /\ tableFrames = {} /\ entries = {}
    /\ heap_ready = FALSE
    /\ creates = 0 /\ before = UserPagesNow

-----------------------------------------------------------------------------
Mapping == at \in {"low", "heap", "user"}

\* A plausible slip: what went wrong with one user page is forgotten and the
\* next one is mapped.
FailIgnored ==
    /\ IF at = "user" /\ index = 1 THEN index' = 2 /\ UNCHANGED at
       ELSE at' = (IF at = "user" THEN "up" ELSE "panic") /\ UNCHANGED index
    /\ leaf' = NoFrame
    /\ UNCHANGED <<depth, tableFrames, entries, heap_ready, creates, before>>

\* A failure ends the call: kernel_main's expect panics, and
\* create_process_from_program returns Err, keeping what it has taken.
Fail ==
    /\ at' = IF at = "user" THEN "up" ELSE "panic"
    /\ leaf' = NoFrame
    /\ UNCHANGED <<index, depth, tableFrames, entries, heap_ready, creates, before>>

\* allocate_frame for the page itself.
AllocateLeaf ==
    /\ Mapping /\ leaf = NoFrame
    /\ NextFrame
    /\ IF last'
       THEN /\ leaf' = handed'[Len(handed')]
            /\ UNCHANGED <<at, index, depth, tableFrames, entries, heap_ready, creates, before>>
       ELSE Fail

\* A plausible slip: the table is built in the frame meant for the page.
CreateTableInLeaf ==
    /\ Mapping /\ leaf # NoFrame /\ depth[at] < TABLES
    /\ depth' = [depth EXCEPT ![at] = @ + 1]
    /\ tableFrames' = tableFrames \cup {leaf}
    /\ UNCHANGED <<frameVars, at, index, leaf, entries, heap_ready, creates, before>>

\* map_to: the next missing table on the way down.
CreateTable ==
    /\ Mapping /\ leaf # NoFrame /\ depth[at] < TABLES
    /\ NextFrame
    /\ IF last'
       THEN /\ depth' = [depth EXCEPT ![at] = @ + 1]
            /\ tableFrames' = tableFrames \cup {handed'[Len(handed')]}
            /\ UNCHANGED <<at, index, leaf, entries, heap_ready, creates, before>>
       ELSE Fail

\* A plausible slip: the last page of a range is left out.
LastPageExclusive(area) == IF area = "heap" THEN PAGES[area] - 1 ELSE PAGES[area]

\* Page::range_inclusive covers the last page, too.
LastPage(area) == PAGES[area]

\* The next page of the area, or what comes after it: the heap after the
\* example page, and ALLOCATOR.init after the heap's pages.
PageDone ==
    /\ IF index < LastPage(at)
       THEN index' = index + 1 /\ UNCHANGED <<at, heap_ready>>
       ELSE /\ at' = IF at = "low" THEN "heap" ELSE "up"
            /\ index' = 1
            /\ heap_ready' = (heap_ready \/ at = "heap")
    /\ leaf' = NoFrame

\* map_to: the leaf entry, unless it is in use.
SetEntry ==
    /\ Mapping /\ leaf # NoFrame /\ depth[at] = TABLES
    /\ IF Mapped(<<at, index>>)
       THEN Fail
       ELSE /\ entries' = entries \cup {[page |-> <<at, index>>, frame |-> leaf]}
            /\ PageDone
            /\ UNCHANGED <<depth, tableFrames, creates, before>>
    /\ UNCHANGED frameVars

\* A call of create_process_from_program begins.
BeginCreate ==
    /\ at = "up" /\ creates < MaxCreates
    /\ at' = "user" /\ index' = 1 /\ leaf' = LeafFor("user")
    /\ creates' = creates + 1
    /\ before' = UserPagesNow
    /\ UNCHANGED <<frameVars, depth, tableFrames, entries, heap_ready>>

\* A panic halts; past the bound the model stops.
Stopped ==
    /\ at = "panic" \/ (at = "up" /\ creates = MaxCreates)
    /\ UNCHANGED pagingVars

PagingNext ==
    \/ AllocateLeaf
    \/ CreateTable
    \/ SetEntry
    \/ BeginCreate
    \/ Stopped

PagingSpec == PagingInit /\ [][PagingNext]_pagingVars
-----------------------------------------------------------------------------
\* No frame serves twice: those behind the pages, those made page tables and
\* the one about to be mapped are all different, and the frame allocator gave
\* them all out but the VGA buffer's.  A page's data is never a page table.
NoFrameServesTwice ==
    /\ \A d, e \in entries : d.frame = e.frame \/ d.page = e.page => d = e
    /\ \A e \in entries : e.frame \notin tableFrames /\ e.frame # leaf
    /\ leaf \notin tableFrames
    /\ \A f \in tableFrames \cup {leaf} \cup {e.frame : e \in entries} :
          f \in {NoFrame, Vga} \/ \E k \in 1 .. Len(handed) : handed[k] = f

\* The allocator is handed the heap only when all of it is mapped, and after
\* boot it stays so: init_heap ends early on any failure, and kernel_main then
\* panics instead of using the heap.
HeapReadyIsMapped ==
    /\ heap_ready => \A i \in 1 .. HEAP_PAGES : Mapped(<<"heap", i>>)
    /\ at \in {"up", "user"} => heap_ready

\* However the frames run out, each call of create_process_from_program leaves
\* the page tables and the frames as UserPages counts them in one step; what a
\* failed call took stays taken.
CreateAsCounted ==
    at = "up" /\ creates > 0 => UserPagesNow = AfterCreate(before)
=============================================================================

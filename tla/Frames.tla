-------------------------------- MODULE Frames -------------------------------
(***************************************************************************)
(* MonotonicFrameAllocator of src/memory.rs: a cursor over the usable      *)
(* regions of the bootloader's memory map.  Addresses are frame numbers,   *)
(* in which the map's ranges are exact.                                    *)
(***************************************************************************)
EXTENDS Naturals, Sequences, FiniteSets, FiniteSetsExt

CONSTANT Maps  \* memory maps: sequences of regions, ascending and disjoint

Region == [usable : BOOLEAN, start : Nat, end : Nat]

Sorted(m) == \A i, j \in 1 .. Len(m) : i < j => m[i].end <= m[j].start

ASSUME FramesAssumption ==
    \A m \in Maps : /\ m \in Seq(Region)
                    /\ \A i \in 1 .. Len(m) : m[i].start <= m[i].end
                    /\ Sorted(m)

VARIABLES
    map,     \* the memory map, fixed at boot
    region,  \* cursor: ordinal of the usable region being filled
    offset,  \* cursor: next candidate frame in it
    handed,  \* history: the frames handed out, in order
    last     \* history: whether the last call returned a frame

frameVars == <<map, region, offset, handed, last>>

FrameInit ==
    /\ map \in Maps
    /\ region = 0
    /\ offset = 0
    /\ handed = <<>>
    /\ last = TRUE

-----------------------------------------------------------------------------

\* How many usable regions come before the one at index i.
UsableOrdinal(i) == Cardinality({j \in 1 .. i - 1 : map[j].usable})

\* The index of the usable region with ordinal r, if there is one.
Selected(r) == {i \in 1 .. Len(map) : map[i].usable /\ UsableOrdinal(i) = r}

\* A plausible slip: the end of a range is taken to be inclusive.
FrameCountInclusive(i) == map[i].end - map[i].start + 1

\* The end of a range is exclusive.
FrameCount(i) == map[i].end - map[i].start

\* A plausible slip: the offset is not reset when the region is exhausted.
OffsetKept(r) == offset

\* Where the search begins in the region with ordinal r.
OffsetIn(r) == IF r = region THEN offset ELSE 0

\* Ordinals from the cursor on whose region still has a frame.
Candidates ==
    {r \in region .. Len(map) :
        \E i \in Selected(r) : OffsetIn(r) < FrameCount(i)}

\* next_frame: the first region with a frame left; the cursor is stored only
\* when one is found.
NextFrame ==
    IF Candidates # {}
    THEN LET r == Min(Candidates) IN
         \E i \in Selected(r) :
            /\ handed' = Append(handed, map[i].start + OffsetIn(r))
            /\ region' = r
            /\ offset' = OffsetIn(r) + 1
            /\ last' = TRUE
            /\ UNCHANGED map
    ELSE last' = FALSE /\ UNCHANGED <<map, region, offset, handed>>

FrameSpec == FrameInit /\ [][NextFrame]_frameVars
-----------------------------------------------------------------------------
\* The frames of the map that may be handed out.
UsableFrames ==
    UNION {map[i].start .. map[i].end - 1 : i \in {j \in 1 .. Len(map) : map[j].usable}}

\* "frames are handed out in ascending address order": every frame is usable
\* and lies above the ones before it, so none is handed out twice, whatever
\* empty, reserved or exhausted regions the cursor passes.
AscendingAndUsable ==
    /\ \A k \in 1 .. Len(handed) : handed[k] \in UsableFrames
    /\ \A j, k \in 1 .. Len(handed) : j < k => handed[j] < handed[k]

\* None is returned only "once the usable frames are exhausted": by then every
\* one has been handed out.
NoneOnlyWhenExhausted ==
    ~ last => \A f \in UsableFrames : \E k \in 1 .. Len(handed) : handed[k] = f
=============================================================================

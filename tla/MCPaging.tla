------------------------------- MODULE MCPaging ------------------------------
(***************************************************************************)
(* Every memory map of up to MaxRegions adjacent regions of the given      *)
(* sizes, usable or not, that begins at frame 1; the VGA frame is 0.       *)
(***************************************************************************)
EXTENDS Paging

CONSTANTS MaxRegions, RegionSizes

Sum(sizes, n) == MapThenSumSet(LAMBDA k : sizes[k], 1 .. n)

MCMaps ==
    UNION {{[i \in 1 .. n |-> [usable |-> kinds[i],
                               start |-> 1 + Sum(sizes, i - 1),
                               end |-> 1 + Sum(sizes, i)]] :
               kinds \in [1 .. n -> BOOLEAN], sizes \in [1 .. n -> RegionSizes]} :
           n \in 0 .. MaxRegions}
=============================================================================

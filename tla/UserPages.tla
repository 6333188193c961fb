------------------------------ MODULE UserPages ------------------------------
(***************************************************************************)
(* What one call of create_process_from_program (src/userland.rs) does to  *)
(* the page tables and the frames left, in one step: for Userland, where   *)
(* only the outcome matters.  Paging has the call frame by frame.          *)
(*                                                                         *)
(* A record m has the frames left, the user page-table levels that exist   *)
(* and whether the code and the stack page are mapped.                     *)
(***************************************************************************)
EXTENDS Naturals

\* The page-table levels below the root, created with the first user page.
TABLES == 3

\* Whether each mapping succeeds.  map_to fails on a page that is mapped
\* already and when a page-table frame is missing.
CodeMaps(m) == ~ m.code /\ m.frames >= 1 + (TABLES - m.tables)
StackMaps(m) == CodeMaps(m) /\ m.frames >= 2 + (TABLES - m.tables)

\* An allocated frame is never given back, whichever step failed after it.
FramesLeft(m) ==
    IF m.frames = 0 THEN 0
    ELSE IF m.code THEN m.frames - 1
    ELSE IF StackMaps(m) THEN m.frames - 2 - (TABLES - m.tables)
    ELSE 0

TablesLeft(m) ==
    IF m.frames = 0 \/ m.code THEN m.tables
    ELSE IF CodeMaps(m) THEN TABLES
    ELSE m.tables + m.frames - 1

AfterCreate(m) ==
    [frames |-> FramesLeft(m),
     tables |-> TablesLeft(m),
     code   |-> m.code \/ CodeMaps(m),
     stack  |-> m.stack \/ StackMaps(m)]
=============================================================================

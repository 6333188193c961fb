------------------------------ MODULE MCOutput -------------------------------
(***************************************************************************)
(* Two calls of the main flow and two interrupts, over a screen of two     *)
(* rows and two columns.                                                   *)
(***************************************************************************)
EXTENDS Output

MCPrintable == {Space}
MCOther == {"tab"}
MCColors == {"gray", "brown"}
=============================================================================

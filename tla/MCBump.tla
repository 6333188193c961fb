------------------------------- MODULE MCBump --------------------------------
(***************************************************************************)
(* An instance of Bump: a region that starts at an odd address.            *)
(***************************************************************************)
EXTENDS Bump

Layout(size, align) == [size |-> size, align |-> align]

MCLayouts == {Layout(1, 1), Layout(3, 2), Layout(4, 4)}
=============================================================================

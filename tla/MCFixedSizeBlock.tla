-------------------------- MODULE MCFixedSizeBlock ---------------------------
(***************************************************************************)
(* An instance of FixedSizeBlock: the three smallest classes, and layouts  *)
(* for the class without room for a header, for a class reached by size    *)
(* and by alignment, and above every class.                                *)
(***************************************************************************)
EXTENDS FixedSizeBlock

Layout(size, align) == [size |-> size, align |-> align]

MCLayouts == {Layout(3, 1), Layout(16, 8), Layout(17, 8), Layout(4, 32), Layout(40, 8)}

MCBlockSizes == <<8, 16, 32>>
=============================================================================

---------------------------- MODULE MCLinkedList -----------------------------
(***************************************************************************)
(* An instance of LinkedList: a heap that starts off a header boundary and *)
(* layouts below, at and above a header, one of them over-aligned.         *)
(***************************************************************************)
EXTENDS LinkedList

Layout(size, align) == [size |-> size, align |-> align]

MCLayouts == {Layout(3, 1), Layout(17, 8), Layout(32, 8), Layout(16, 32)}
=============================================================================

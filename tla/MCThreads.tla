------------------------------ MODULE MCThreads ------------------------------
(***************************************************************************)
(* A small instance of Threads: the kernel and two processes.  MaxThreads  *)
(* and StackSlots are given in the configurations.                         *)
(***************************************************************************)
EXTENDS ThreadsRefinement

MCProcesses == {KERNEL, 1, 2}

=============================================================================

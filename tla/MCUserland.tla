----------------------------- MODULE MCUserland ------------------------------
(***************************************************************************)
(* Instances of Userland: the kernel and up to two processes.              *)
(***************************************************************************)
EXTENDS Userland

MCProcesses == 0 .. 2
=============================================================================

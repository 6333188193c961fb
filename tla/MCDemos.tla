------------------------------- MODULE MCDemos -------------------------------
(***************************************************************************)
(* Demos with the kernel and up to two processes.                          *)
(***************************************************************************)
EXTENDS Demos

MCProcesses == 0 .. 2
=============================================================================

----------------------------- MODULE RoundRobin ------------------------------
(***************************************************************************)
(* What the thread scheduler promises its callers, without boxes, contexts *)
(* or locks: one control flow runs, the others wait in a queue, and the    *)
(* processor is handed to the first of the queue each time the running one *)
(* passes it on or leaves.                                                 *)
(***************************************************************************)
EXTENDS Naturals, Sequences

CONSTANT Boot    \* the control flow that runs first

VARIABLES running, queue, born

vars == <<running, queue, born>>

Init ==
    /\ running = Boot
    /\ queue = <<>>
    /\ born = 0

\* A new control flow joins at the back of the queue.
Create ==
    /\ born' = born + 1
    /\ queue' = Append(queue, born + 1)
    /\ UNCHANGED running

\* The running one goes to the back of the queue, the first one runs.
Pass ==
    /\ queue # <<>>
    /\ running' = Head(queue)
    /\ queue' = Append(Tail(queue), running)
    /\ UNCHANGED born

\* The running one is gone for good, the first one runs.
Leave ==
    /\ queue # <<>>
    /\ running' = Head(queue)
    /\ queue' = Tail(queue)
    /\ UNCHANGED born

Next == Create \/ Pass \/ Leave

Spec == Init /\ [][Next]_vars

=============================================================================

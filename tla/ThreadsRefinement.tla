-------------------------- MODULE ThreadsRefinement --------------------------
(***************************************************************************)
(* Threads implements RoundRobin.  The running control flow is the one     *)
(* whose stack the CPU is on, not the one `current` names, so the abstract *)
(* hand-over happens at switch_context; until then the queue is read as    *)
(* if the choice made under the lock had not been made yet.                *)
(***************************************************************************)
EXTENDS Threads

\* The queue as the still-running thread left it when it entered the lock.
PendingQueue ==
    IF op = "yield" THEN <<current>> \o SubSeq(ready, 1, Len(ready) - 1)
    ELSE <<current>> \o ready

AbstractQueue == IF pc = "switch" THEN PendingQueue ELSE ready

RR == INSTANCE RoundRobin WITH
        Boot <- BOOTSTRAP_ID,
        running <- stack,
        queue <- AbstractQueue,
        born <- spawned

\* Every behaviour of spawn, yield_now, exit_thread and switch_context is,
\* seen from the stacks the CPU executes on, a round-robin hand-over: nothing
\* between the choice under the lock and the switch can be observed.
ImplementsRoundRobin == RR!Spec

=============================================================================

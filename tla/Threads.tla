------------------------------- MODULE Threads -------------------------------
(***************************************************************************)
(* The cooperative kernel-thread scheduler of src/thread.rs, with the      *)
(* thread counters of src/scheduler.rs.                                    *)
(*                                                                         *)
(* One CPU runs one thread at a time.  A call of yield_now or exit_thread  *)
(* is four steps: take the parked box out of the reaper, drop it, choose   *)
(* the next thread under the scheduler lock, and switch stacks after the   *)
(* lock is released.  Between the last two `current` already names the     *)
(* next thread while the CPU is still on the stack of the previous one,    *)
(* which is why the stack the CPU is on is a variable of its own.          *)
(***************************************************************************)
EXTENDS Integers, Sequences, FiniteSets, Functions

CONSTANTS
    Processes,   \* process tags a thread can carry, ProcessId::KERNEL included
    MaxThreads,  \* bound: how many ThreadIds are ever handed out
    StackSlots   \* how many 16 KiB stacks the kernel heap has room for

\* ProcessId::KERNEL, and the reserved id of the boot control flow.
KERNEL == 0
BOOTSTRAP_ID == 0

ASSUME ThreadsAssumption ==
    /\ MaxThreads \in Nat
    /\ StackSlots \in Nat
    /\ KERNEL \in Processes

ThreadId == 1 .. MaxThreads
Runner == ThreadId \cup {BOOTSTRAP_ID}

\* No box in a slot; as a saved rsp, a value that is no suspended frame.
None == -1

VARIABLES
    threads,   \* keys of the map of boxed threads
    process,   \* the process tag of every thread built so far
    ready,     \* the ready queue
    current,   \* the id the scheduler believes is running
    context,   \* the stack each saved rsp points into, None when not resumable
    reaper,    \* the box of the last thread that exited
    toDrop,    \* the box drain_reaper has taken and not dropped yet
    stack,     \* the stack the CPU is executing on
    pc,        \* where the running thread is
    op,        \* the scheduler call it is in
    prev,      \* whose Context the pending switch saves into
    nextId,    \* ThreadId::new's counter
    alive,     \* SCHEDULER.threads_alive
    spawned,   \* SCHEDULER.threads_spawned
    exited     \* history: the runners that have left through exit_thread

vars == <<threads, process, ready, current, context, reaper, toDrop, stack,
          pc, op, prev, nextId, alive, spawned, exited>>

\* The boxes that still own a stack; a thread outside has had it freed.
Boxes == threads \cup ({reaper, toDrop} \ {None})

\* Stacks that may be executed on: the boot stack and every owned one.
Allocated == Boxes \cup {BOOTSTRAP_ID}

\* A panic prints and halts for ever; one label per assertion of the code.
Panics == {"oom", "no_next", "missing", "reaper_busy"}

Init ==
    /\ threads = {}
    /\ process = [t \in ThreadId |-> KERNEL]
    /\ ready = <<>>
    /\ current = BOOTSTRAP_ID
    /\ context = [t \in Runner |-> None]
    /\ reaper = None
    /\ toDrop = None
    /\ stack = BOOTSTRAP_ID
    /\ pc = "run"
    /\ op = "yield"
    /\ prev = BOOTSTRAP_ID
    /\ nextId = 1
    /\ alive = 0
    /\ spawned = 0
    /\ exited = {}

-----------------------------------------------------------------------------

\* spawn: build the boxed thread, insert it, queue it, count it.  The stack
\* comes from the heap; when no room is left the allocation error panics.
Spawn(p) ==
    /\ pc = "run"
    /\ nextId <= MaxThreads
    /\ IF Cardinality(Boxes) < StackSlots
       THEN /\ threads' = threads \cup {nextId}
            /\ process' = [process EXCEPT ![nextId] = p]
            /\ context' = [context EXCEPT ![nextId] = nextId]
            /\ ready' = Append(ready, nextId)
            /\ nextId' = nextId + 1
            /\ alive' = alive + 1
            /\ spawned' = spawned + 1
            /\ pc' = pc
       ELSE /\ pc' = "oom"
            /\ UNCHANGED <<threads, process, context, ready, nextId, alive, spawned>>
    /\ UNCHANGED <<current, reaper, toDrop, stack, op, prev, exited>>

\* A plausible slip: the call does not empty the reaper slot.
DrainNothing(c) ==
    /\ pc = "run"
    /\ op' = c
    /\ pc' = "drop"
    /\ UNCHANGED <<threads, process, ready, current, context, reaper, toDrop, stack,
                   prev, nextId, alive, spawned, exited>>

\* A call of yield_now (c = "yield") or exit_thread (c = "exit") begins by
\* taking the parked box out of the reaper slot under the lock.
DrainReaper(c) ==
    /\ pc = "run"
    /\ op' = c
    /\ toDrop' = reaper
    /\ reaper' = None
    /\ pc' = "drop"
    /\ UNCHANGED <<threads, process, ready, current, context, stack, prev, nextId,
                   alive, spawned, exited>>

\* A plausible slip: count an exit on every call.
DropUnconditionally ==
    /\ pc = "drop"
    /\ alive' = alive - 1
    /\ toDrop' = None
    /\ pc' = "select"
    /\ UNCHANGED <<threads, process, ready, current, context, reaper, stack, op,
                   prev, nextId, spawned, exited>>

\* The rest of drain_reaper, outside the lock: count the exit, free the box.
DropReaped ==
    /\ pc = "drop"
    /\ alive' = IF toDrop # None THEN alive - 1 ELSE alive
    /\ toDrop' = None
    /\ pc' = "select"
    /\ UNCHANGED <<threads, process, ready, current, context, reaper, stack, op,
                   prev, nextId, spawned, exited>>

\* The id can be looked up: the boot thread has no entry in the map.
Tracked(t) == t = BOOTSTRAP_ID \/ t \in threads

\* A plausible slip: push the yielding thread at the front.
RequeueFront(q, t) == <<t>> \o q

\* A plausible slip: the boot thread is not queued again.
RequeueUnlessBoot(q, t) == IF t = BOOTSTRAP_ID THEN q ELSE Append(q, t)

\* The queue once the yielding thread t is back in it.
Requeue(q, t) == Append(q, t)

\* yield_now under the lock: take the front of the queue, make it current
\* and queue the caller at the back; with an empty queue just return.
YieldSelect ==
    /\ pc = "select"
    /\ op = "yield"
    /\ IF ready = <<>>
       THEN /\ pc' = "run"
            /\ UNCHANGED <<ready, current, prev>>
       ELSE /\ prev' = current
            /\ current' = Head(ready)
            /\ ready' = Requeue(Tail(ready), current)
            /\ pc' = IF Tracked(current) /\ Tracked(Head(ready))
                     THEN "switch" ELSE "missing"
    /\ UNCHANGED <<threads, process, context, reaper, toDrop, stack, op, nextId,
                   alive, spawned, exited>>

\* A plausible slip: the box is dropped at once instead of parked.
ParkNothing(t) == reaper

\* The reaper slot once the exiting thread t has parked its own box there.
Park(t) == IF t \in threads THEN t ELSE reaper

\* exit_thread under the lock: park the caller's box (the boot thread has
\* none), then take the front of the queue, which must not be empty.
ExitSelect ==
    /\ pc = "select"
    /\ op = "exit"
    /\ threads' = threads \ {current}
    /\ reaper' = Park(current)
    /\ exited' = exited \cup {current}
    /\ prev' = current
    /\ current' = IF ready = <<>> THEN current ELSE Head(ready)
    /\ ready' = IF ready = <<>> THEN ready ELSE Tail(ready)
    /\ pc' = IF current \in threads /\ reaper # None THEN "reaper_busy"
             ELSE IF ready = <<>> THEN "no_next"
             ELSE IF current' = BOOTSTRAP_ID \/ current' \in threads' THEN "switch"
             ELSE "missing"
    /\ UNCHANGED <<process, context, toDrop, stack, op, nextId, alive, spawned>>

\* switch_context, after the lock is released: a yielding thread's rsp goes
\* into its Context, an exiting one's into a scratch slot; the CPU moves to
\* the stack the next thread's rsp points into and uses that frame up.
SwitchContext ==
    /\ pc = "switch"
    /\ stack' = context[current]
    /\ context' = [t \in Runner |->
                     IF t = current THEN None
                     ELSE IF t = prev /\ op = "yield" THEN stack
                     ELSE context[t]]
    /\ pc' = "run"
    /\ UNCHANGED <<threads, process, ready, current, reaper, toDrop, op, prev,
                   nextId, alive, spawned, exited>>

\* The panic handler ends in hlt_loop.
HltLoop ==
    /\ pc \in Panics
    /\ UNCHANGED vars

Next ==
    \/ \E p \in Processes : Spawn(p)
    \/ \E c \in {"yield", "exit"} : DrainReaper(c)
    \/ DropReaped
    \/ YieldSelect
    \/ ExitSelect
    \/ SwitchContext
    \/ HltLoop

Spec == Init /\ [][Next]_vars

\* The cooperative contract: the running thread keeps calling into the
\* scheduler, and a call that has begun runs to its end (nothing blocks).
\* A thread may spawn as it likes in between.
SchedulerCall ==
    \/ \E c \in {"yield", "exit"} : DrainReaper(c)
    \/ DropReaped
    \/ YieldSelect
    \/ ExitSelect
    \/ SwitchContext

FairSpec == Spec /\ WF_vars(SchedulerCall)

-----------------------------------------------------------------------------

\* Type invariant: ids in range, saved frames and stacks of known threads.
TypeOK ==
    /\ threads \subseteq ThreadId
    /\ process \in [ThreadId -> Processes]
    /\ ready \in Seq(Runner)
    /\ current \in Runner
    /\ context \in [Runner -> Runner \cup {None}]
    /\ reaper \in ThreadId \cup {None}
    /\ toDrop \in ThreadId \cup {None}
    /\ stack \in Runner
    /\ pc \in {"run", "drop", "select", "switch"} \cup Panics
    /\ op \in {"yield", "exit"}
    /\ prev \in Runner
    /\ nextId \in 1 .. MaxThreads + 1
    /\ alive \in Nat
    /\ spawned \in Nat
    /\ exited \subseteq Runner

\* Every control flow that has started and has not left.
Runnable == (1 .. nextId - 1 \cup {BOOTSTRAP_ID}) \ exited

\* No thread is lost or queued twice by any sequence of spawn, yield_now and
\* exit_thread: the ready queue holds exactly the runnable threads other than
\* the current one, each once, and the current one is itself runnable until
\* exit_thread has found nobody to switch to.
NoThreadLost ==
    /\ Range(ready) = Runnable \ {current}
    /\ IsInjective(ready)
    /\ pc # "no_next" => current \in Runnable

\* The saved rsp of t points into the stack t owns, and that stack is allocated
\* (the comment on KernelThread::_stack).
Resumable(t) == context[t] = t /\ t \in Allocated

\* No stack is freed while it is in use: neither the one the CPU is on (an
\* exiting thread runs on its own until the switch) nor one a queued or
\* just-chosen thread will resume on.  Only the yielding thread, between
\* queueing itself and the switch, has no frame saved yet.
StacksOutliveUse ==
    /\ stack \in Allocated
    /\ \A t \in Range(ready) :
          Resumable(t) \/ (pc = "switch" /\ op = "yield" /\ t = prev /\ t = stack)
    /\ pc = "switch" => Resumable(current)

\* The only panics of the scheduler that can be reached are an exit_thread by
\* the very last control flow, the boot thread included, and a spawn that runs
\* out of stacks.  As spawn does not drain the reaper, it may do so one stack
\* early, and never more than one; the "missing from map" and "reaper slot
\* should have been drained" assertions never fire.
OnlyLastExitPanics ==
    /\ pc \notin {"missing", "reaper_busy"}
    /\ pc = "no_next" => Runnable = {}
    /\ pc = "oom" => Cardinality(threads) >= StackSlots - 1

\* threads_alive counts exactly the boxes that own a stack (so its fetch_sub
\* never wraps), though exits are counted later and by another thread.
CountersExact ==
    /\ alive = Cardinality(Boxes)
    /\ spawned = nextId - 1

\* A plausible slip: the tag of the thread that was switched out.
TagOfPrevious == IF prev \in threads THEN process[prev] ELSE KERNEL

\* current_process: the tag looked up through `current`.
CurrentProcess ==
    IF current = BOOTSTRAP_ID THEN KERNEL
    ELSE IF current \in threads THEN process[current] ELSE KERNEL

\* Outside the scheduler the bookkeeping names the thread whose stack the CPU
\* is really on, so a system call or a fault handler that asks for
\* current_process gets the tag of the thread that trapped.
TagIsTheRunners ==
    pc = "run" => /\ stack = current
                  /\ CurrentProcess = IF stack = BOOTSTRAP_ID THEN KERNEL
                                      ELSE process[stack]

\* A step leaves every queued thread in its place, or makes the first one
\* current and moves each other one place up.
KeepsOrder ==
    \A i \in 1 .. Len(ready) :
        IF current' = current THEN ready'[i] = ready[i]
        ELSE IF i = 1 THEN current' = ready[1]
        ELSE ready'[i - 1] = ready[i]

\* First in, first out: no spawn, yield or exit lets a thread overtake one
\* that was queued before it.
NoOvertaking == [][KeepsOrder]_vars

\* A queued thread eventually gets the CPU's stack (round robin), if every
\* thread keeps yielding or exiting and the kernel does not panic.
QueuedThreadRuns ==
    \A t \in Runner : (t \in Range(ready)) ~> (stack = t \/ pc \in Panics)

\* The stack of an exited thread is eventually given back to the heap.
ExitedStackReclaimed ==
    \A t \in ThreadId : (t \in exited) ~> (t \notin Boxes \/ pc \in Panics)

=============================================================================

------------------------------ MODULE Executor -------------------------------
(***************************************************************************)
(* The cooperative executor of src/task/executor.rs: the task map, the     *)
(* bounded ready queue that wakers push to, the polling loop and the idle  *)
(* sleep.  It runs on the boot thread; an interrupt handler may run, whole *)
(* and uninterrupted, between any two of its steps while interrupts are    *)
(* enabled.  What one poll does belongs to the task: this module has the   *)
(* tasks that only compute and wake themselves, AsyncInput composes it     *)
(* with the keyboard task and the keyboard interrupt.                      *)
(***************************************************************************)
EXTENDS Integers, Sequences, FiniteSets, Functions

CONSTANTS
    AppTasks,            \* tasks that use no interrupt source
    Kbd,                 \* the print_keypresses task
    TASK_QUEUE_CAPACITY

ASSUME ExecutorAssumption ==
    /\ Kbd \notin AppTasks
    /\ TASK_QUEUE_CAPACITY \in Nat \ {0}

Tasks == AppTasks \cup {Kbd}

VARIABLES
    tasks,          \* keys of the task map
    task_queue,     \* the shared ready queue
    waker_cache,    \* tasks with a cached waker
    started_tasks,  \* tasks that have been polled
    polled,         \* the task id popped last
    pc,             \* where the executor is
    IF_,            \* the CPU's interrupt flag
    tasks_alive, tasks_spawned, tasks_completed   \* counters of SCHEDULER

execVars == <<tasks, task_queue, waker_cache, started_tasks, polled, pc, IF_,
              tasks_alive, tasks_spawned, tasks_completed>>
counters == <<tasks_alive, tasks_spawned, tasks_completed>>

\* kernel_main may come here with interrupts off: the switch away from a user
\* thread leaves them as its trap set them.
ExecInit ==
    /\ tasks = {}
    /\ task_queue = <<>>
    /\ waker_cache = {}
    /\ started_tasks = {}
    /\ polled = Kbd
    /\ pc = "boot"
    /\ IF_ \in BOOLEAN
    /\ tasks_alive = 0
    /\ tasks_spawned = 0
    /\ tasks_completed = 0

\* TaskWaker::wake_task pushes the id; a full queue panics.  Wakes are not
\* merged: an id can be queued any number of times.
PushTask(t) ==
    task_queue' = IF Len(task_queue) < TASK_QUEUE_CAPACITY
                  THEN Append(task_queue, t) ELSE task_queue
QueueFull == Len(task_queue) >= TASK_QUEUE_CAPACITY

note_task_spawned ==
    /\ tasks_alive' = tasks_alive + 1
    /\ tasks_spawned' = tasks_spawned + 1

note_task_completed ==
    /\ tasks_alive' = tasks_alive - 1
    /\ tasks_completed' = tasks_completed + 1

\* spawn, called before the loop runs (run borrows the executor for ever).
Spawn(t) ==
    /\ pc = "boot"
    /\ t \notin tasks
    /\ tasks' = tasks \cup {t}
    /\ PushTask(t)
    /\ pc' = IF QueueFull THEN "panic" ELSE pc
    /\ IF QueueFull THEN UNCHANGED <<tasks_alive, tasks_spawned>>
                    ELSE note_task_spawned
    /\ UNCHANGED <<waker_cache, started_tasks, polled, IF_, tasks_completed>>

\* run enters the loop.
Run ==
    /\ pc = "boot"
    /\ pc' = "pop"
    /\ UNCHANGED <<tasks, task_queue, waker_cache, started_tasks, polled, IF_, counters>>

\* A plausible slip: serve the newest wake first.
PopNewest ==
    /\ pc = "pop"
    /\ IF task_queue = <<>>
       THEN pc' = "idle" /\ UNCHANGED <<task_queue, polled, waker_cache, started_tasks>>
       ELSE LET t == task_queue[Len(task_queue)]
            IN  /\ task_queue' = SubSeq(task_queue, 1, Len(task_queue) - 1)
                /\ polled' = t
                /\ waker_cache' = waker_cache \cup ({t} \cap tasks)
                /\ started_tasks' = started_tasks \cup ({t} \cap tasks)
                /\ pc' = IF t \in tasks THEN "poll" ELSE "pop"
    /\ UNCHANGED <<tasks, IF_, counters>>

\* A plausible slip: build a waker per poll and cache none.
PopUncached ==
    /\ pc = "pop"
    /\ IF task_queue = <<>>
       THEN pc' = "idle" /\ UNCHANGED <<task_queue, polled, started_tasks>>
       ELSE /\ task_queue' = Tail(task_queue)
            /\ polled' = Head(task_queue)
            /\ started_tasks' = started_tasks \cup ({Head(task_queue)} \cap tasks)
            /\ pc' = IF Head(task_queue) \in tasks THEN "poll" ELSE "pop"
    /\ UNCHANGED <<tasks, waker_cache, IF_, counters>>

\* One turn of run_ready_tasks up to the poll.  An id whose task is gone is
\* skipped; with an empty queue the loop goes to sleep_if_idle.
PopTask ==
    /\ pc = "pop"
    /\ IF task_queue = <<>>
       THEN /\ pc' = "idle"
            /\ UNCHANGED <<task_queue, polled, waker_cache, started_tasks>>
       ELSE /\ task_queue' = Tail(task_queue)
            /\ polled' = Head(task_queue)
            /\ IF Head(task_queue) \in tasks
               THEN /\ waker_cache' = waker_cache \cup {Head(task_queue)}
                    /\ started_tasks' = started_tasks \cup {Head(task_queue)}
                    /\ pc' = "poll"
               ELSE /\ pc' = "pop"
                    /\ UNCHANGED <<waker_cache, started_tasks>>
    /\ UNCHANGED <<tasks, IF_, counters>>

\* A computing task wakes itself through its waker during a poll.
SelfWake ==
    /\ pc = "poll"
    /\ polled \in AppTasks
    /\ PushTask(polled)
    /\ pc' = IF QueueFull THEN "panic" ELSE "woken"
    /\ UNCHANGED <<tasks, waker_cache, started_tasks, polled, IF_, counters>>

\* A poll returns Pending: the task stays and waits for a wake.
PollPending ==
    /\ pc \in {"poll", "woken"}
    /\ polled \in AppTasks
    /\ pc' = "pop"
    /\ UNCHANGED <<tasks, task_queue, waker_cache, started_tasks, polled, IF_, counters>>

\* A plausible slip: leave the waker of a finished task cached.
PollReadyKeepsWaker ==
    /\ pc \in {"poll", "woken"}
    /\ polled \in AppTasks
    /\ tasks' = tasks \ {polled}
    /\ started_tasks' = started_tasks \ {polled}
    /\ note_task_completed
    /\ pc' = "pop"
    /\ UNCHANGED <<task_queue, waker_cache, polled, IF_, tasks_spawned>>

\* A poll returns Ready: task, waker and start mark go, the end is counted.
PollReady ==
    /\ pc \in {"poll", "woken"}
    /\ polled \in AppTasks
    /\ tasks' = tasks \ {polled}
    /\ waker_cache' = waker_cache \ {polled}
    /\ started_tasks' = started_tasks \ {polled}
    /\ note_task_completed
    /\ pc' = "pop"
    /\ UNCHANGED <<task_queue, polled, IF_, tasks_spawned>>

\* A plausible slip: look at the queue with interrupts still on.
SleepStaysEnabled ==
    /\ pc = "idle"
    /\ pc' = "check"
    /\ UNCHANGED <<tasks, task_queue, waker_cache, started_tasks, polled, IF_, counters>>

\* sleep_if_idle begins: interrupts off.
SleepDisable ==
    /\ pc = "idle"
    /\ IF_' = FALSE
    /\ pc' = "check"
    /\ UNCHANGED <<tasks, task_queue, waker_cache, started_tasks, polled, counters>>

\* The queue is looked at again: with work in it, interrupts come back on and
\* the loop goes round.
SleepCheck ==
    /\ pc = "check"
    /\ IF task_queue = <<>>
       THEN pc' = "sleep" /\ UNCHANGED IF_
       ELSE pc' = "pop" /\ IF_' = TRUE
    /\ UNCHANGED <<tasks, task_queue, waker_cache, started_tasks, polled, counters>>

\* enable_and_hlt: no interrupt is taken between the sti and the hlt.
EnableAndHlt ==
    /\ pc = "sleep"
    /\ IF_' = TRUE
    /\ pc' = "hlt"
    /\ UNCHANGED <<tasks, task_queue, waker_cache, started_tasks, polled, counters>>

\* The instruction after an interrupt: a halted CPU leaves the hlt.
Resume == IF pc = "hlt" THEN "pop" ELSE pc

\* The timer interrupt only counts a tick, but it ends a hlt.
TimerInterrupt ==
    /\ IF_
    /\ pc # "panic"
    /\ pc' = Resume
    /\ UNCHANGED <<tasks, task_queue, waker_cache, started_tasks, polled, IF_, counters>>

ExecNext ==
    \/ \E t \in Tasks : Spawn(t)
    \/ Run
    \/ PopTask
    \/ SelfWake
    \/ PollPending
    \/ PollReady
    \/ SleepDisable
    \/ SleepCheck
    \/ EnableAndHlt

-----------------------------------------------------------------------------

\* The executor's part of the type invariant.
ExecTypeOK ==
    /\ tasks \subseteq Tasks
    /\ task_queue \in Seq(Tasks)
    /\ Len(task_queue) <= TASK_QUEUE_CAPACITY
    /\ waker_cache \subseteq Tasks
    /\ started_tasks \subseteq Tasks
    /\ polled \in Tasks
    /\ pc \in {"boot", "pop", "poll", "woken", "idle", "check", "sleep", "hlt",
             "panic"}
    /\ IF_ \in BOOLEAN
    /\ tasks_alive \in Nat
    /\ tasks_spawned \in Nat
    /\ tasks_completed \in Nat

\* sleep_if_idle closes the window between the emptiness check and the hlt: a
\* handler that would queue a task in between cannot run, so the CPU is never
\* halted with a task queued, nor with interrupts off.
NeverHaltsWithWork == pc = "hlt" => task_queue = <<>> /\ IF_

\* The bookkeeping of run_ready_tasks agrees with itself: a finished task
\* leaves no cached waker and no start mark behind, a polled one has both,
\* and the counters agree with the map unless spawn panicked half-way.
BookkeepingAgrees ==
    /\ waker_cache = started_tasks
    /\ waker_cache \subseteq tasks
    /\ pc \in {"poll", "woken"} => polled \in waker_cache
    /\ pc # "panic" => /\ tasks_alive = Cardinality(tasks)
                       /\ tasks_spawned = tasks_alive + tasks_completed

=============================================================================

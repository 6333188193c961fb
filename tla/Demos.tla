-------------------------------- MODULE Demos --------------------------------
(***************************************************************************)
(* The boot thread's own program on top of Userland: kernel_main           *)
(* (src/main.rs) up to the executor, through threading_demo and            *)
(* userland_demo (src/demos.rs).  The threads it starts may yield and exit *)
(* and the user program may trap and fault in any order.  A "free" boot is *)
(* that of another kernel_main, whose boot thread does as it likes.        *)
(***************************************************************************)
EXTENDS Userland

VARIABLE step  \* where the boot thread is

demoVars == <<allVars, step>>

DemoInit == UserInit /\ step \in {"spawn_a", "free"}

-----------------------------------------------------------------------------
OnBoot == InKernel /\ current = BOOTSTRAP_ID

\* threading_demo spawns its two workers.
SpawnWorker ==
    /\ OnBoot /\ step \in {"spawn_a", "spawn_b"}
    /\ KernelSpawn
    /\ step' = IF step = "spawn_a" THEN "spawn_b" ELSE "drive"

ready_count == Len(ready)

\* A plausible slip: the loop waits for the queue to be shorter than empty.
LoopGoesOnAlways == ready_count >= 0

\* while thread::ready_count() > 0
LoopGoesOn == ready_count > 0

Drive ==
    /\ OnBoot /\ step \in {"drive", "drive_user"} /\ LoopGoesOn
    /\ KernelCalls("yield")
    /\ UNCHANGED step

\* A plausible slip: the reaper is left as the loop leaves it.
AfterDriveDone == IF step = "drive" THEN "create" ELSE "end"

AfterDrive == IF step = "drive" THEN "create" ELSE "drain"

DriveEnds ==
    /\ OnBoot /\ step \in {"drive", "drive_user"} /\ ~ LoopGoesOn
    /\ step' = AfterDrive
    /\ UNCHANGED allVars

\* userland_demo returns at once when the process cannot be created.
CreateDemoProcess ==
    /\ OnBoot /\ step = "create"
    /\ CreateProcess
    /\ step' = IF nextPid' # nextPid THEN "spawn_user" ELSE "skipped"

SpawnDemoThread ==
    /\ OnBoot /\ step = "spawn_user"
    /\ SpawnUserThread(nextPid - 1)
    /\ step' = "drive_user"

\* "One more yield to drain the reaper".
Drain ==
    /\ OnBoot /\ step = "drain"
    /\ KernelCalls("yield")
    /\ step' = "end"

\* The executor's loop, which leaves the scheduler alone.
Finished == OnBoot /\ step \in {"end", "skipped"}

InExecutor == Finished /\ UNCHANGED demoVars

\* The threads that were started, and the scheduler.
WorkerCalls(t, c) ==
    /\ step # "free" /\ t = current
    /\ KernelCalls(c)
    /\ UNCHANGED step

\* What USER_DEMO writes is in its code page and the crash demos write nothing,
\* so SysWriteFaults is not a step of theirs; nor is SysReturnLost, with one
\* user thread (were its frame lost, the model would deadlock here).
UserStep ==
    /\ step # "free"
    /\ UserThreadEntry \/ SysYield \/ TrapAndReturn \/ SysReturn
    /\ UNCHANGED step

UserEnds == step # "free" /\ (SysExit \/ RingThreeFault) /\ UNCHANGED step

SystemStep == step # "free" /\ (SchedulerStep \/ Halted) /\ UNCHANGED step

FreeStep == step = "free" /\ UserNext /\ UNCHANGED step

DemoNext ==
    \/ SpawnWorker
    \/ Drive
    \/ DriveEnds
    \/ CreateDemoProcess
    \/ SpawnDemoThread
    \/ Drain
    \/ InExecutor
    \/ \E t \in ThreadId, c \in {"yield", "exit"} : WorkerCalls(t, c)
    \/ UserStep
    \/ UserEnds
    \/ SystemStep
    \/ FreeStep

\* The CPU goes on, worker_a and worker_b exit in the end, and so does the
\* user program: USER_DEMO calls sys_exit, the crash demos fault.
DemoFairness ==
    /\ WF_demoVars(DemoNext)
    /\ SF_demoVars(UserEnds)
    /\ \A t \in ThreadId : SF_demoVars(WorkerCalls(t, "exit"))

DemoSpec == DemoInit /\ [][DemoNext]_demoVars /\ DemoFairness
-----------------------------------------------------------------------------
\* "Once both have exited, the bootstrap thread ... regains the CPU": behind
\* the first loop both workers have exited, and behind the last yield of
\* userland_demo no thread, no process and no stack is left, whatever order
\* the threads yielded, exited or faulted in.
DemosLeaveNothing ==
    /\ step \notin {"free", "spawn_a", "spawn_b", "drive"} => {1, 2} \subseteq exited
    /\ Finished => threads = {} /\ ready = <<>> /\ registry = {} /\ procAlive = 0
    /\ Finished /\ step = "end" => Boxes = {} /\ alive = 0

\* kernel_main reaches the executor without a panic: the loops of both demos
\* end once the threads they drive have exited.
DemosEnd == step = "spawn_a" ~> Finished
=============================================================================

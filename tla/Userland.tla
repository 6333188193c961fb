------------------------------ MODULE Userland -------------------------------
(***************************************************************************)
(* User processes on the kernel threads of Threads: creation, entry to     *)
(* ring 3, system calls and faults (src/userland.rs, src/syscall.rs,       *)
(* src/interrupts.rs), the request boundary and the process registry they  *)
(* go through (src/kernel), and the process counters of src/scheduler.rs.  *)
(*                                                                         *)
(* In Threads `stack` is the thread whose control flow the CPU is in.  In  *)
(* a trap from ring 3 its frames are not on its own stack but on the one   *)
(* entry stack src/gdt.rs puts into the TSS; `trapped` says of which       *)
(* threads that is so, and `entryFrame` whose frame is on it.              *)
(***************************************************************************)
EXTENDS Threads, UserPages

CONSTANTS
    MaxFrames,  \* bound: free physical frames at boot
    MaxHosts    \* bound: threads spawned per process

\* Process tags are pids here; pid 0 is the kernel's.
ASSUME UserlandAssumption ==
    /\ MaxFrames \in Nat /\ MaxHosts \in Nat
    /\ Processes = 0 .. Cardinality(Processes) - 1

VARIABLES
    registry,     \* keys of the process map
    nextPid,      \* ProcessId::new's counter
    procAlive,    \* SCHEDULER.processes_alive
    frames,       \* physical frames left
    tables,       \* user page-table levels that exist
    codeMapped,   \* USER_CODE_BASE is mapped
    stackMapped,  \* USER_STACK_BASE is mapped
    ring,         \* the privilege level the CPU is at
    IF_,          \* the CPU's interrupt flag
    entered,      \* user threads that have been to ring 3
    trapped,      \* threads inside a trap from ring 3
    entryFrame,   \* whose trap frame the entry stack holds
    fatal         \* what has ended the kernel in this layer

procVars == <<registry, nextPid, procAlive>>
mapVars == <<frames, tables, codeMapped, stackMapped>>
cpuVars == <<ring, IF_, entered, trapped, entryFrame>>
userVars == <<procVars, mapVars, cpuVars, fatal>>
allVars == <<vars, userVars>>

UserInit ==
    /\ Init
    /\ registry = {} /\ nextPid = 1 /\ procAlive = 0
    /\ frames \in 0 .. MaxFrames /\ tables = 0
    /\ codeMapped = FALSE /\ stackMapped = FALSE
    /\ ring = 0 /\ IF_ = TRUE
    /\ entered = {} /\ trapped = {} /\ entryFrame = None
    /\ fatal = "none"

-----------------------------------------------------------------------------
(* Kernel::call and the process service.                                   *)

\* Caller::Kernel; a user caller is its pid.
KernelCaller == None

\* Which requests a caller may make: creating processes and threads is the
\* kernel's, and a user may name no process but its own.
Allowed(caller, request, pid) ==
    \/ caller = KernelCaller
    \/ request \in {"ProcessExit", "ProcessSnapshot"} /\ caller = pid

note_process_spawned == procAlive' = procAlive + 1

note_process_exited == procAlive' = procAlive - 1

\* A plausible slip: the exit is not counted.
ProcessExitUncounted(caller, pid) ==
    /\ registry' = registry \ {pid}
    /\ UNCHANGED <<procAlive, nextPid>>

\* ProcessExit: a registered process is removed and counted; else nothing.
ProcessExit(caller, pid) ==
    /\ IF Allowed(caller, "ProcessExit", pid) /\ pid \in registry
       THEN registry' = registry \ {pid} /\ note_process_exited
       ELSE UNCHANGED <<registry, procAlive>>
    /\ UNCHANGED nextPid

ProcessCreate(caller) ==
    IF Allowed(caller, "ProcessCreate", nextPid)
    THEN /\ registry' = registry \cup {nextPid}
         /\ nextPid' = nextPid + 1
         /\ note_process_spawned
    ELSE UNCHANGED procVars

-----------------------------------------------------------------------------
(* Kernel code: the boot thread and threads tagged with the kernel.        *)

Tag(t) == IF t = BOOTSTRAP_ID THEN KERNEL ELSE process[t]

InKernel == pc = "run" /\ ring = 0 /\ Tag(current) = KERNEL /\ fatal = "none"

KernelSpawn == InKernel /\ Spawn(KERNEL) /\ UNCHANGED userVars

KernelCalls(c) == InKernel /\ DrainReaper(c) /\ UNCHANGED userVars

SchedulerStep ==
    /\ DropReaped \/ YieldSelect \/ ExitSelect \/ SwitchContext
    /\ UNCHANGED userVars

Pages ==
    [frames |-> frames, tables |-> tables, code |-> codeMapped, stack |-> stackMapped]

\* The pages once create_process_from_program has returned.
PagesBecome(m) ==
    /\ frames' = m.frames
    /\ tables' = m.tables
    /\ codeMapped' = m.code
    /\ stackMapped' = m.stack

\* A plausible slip: the process is registered before its pages are mapped.
CreateRegistersFirst ==
    /\ InKernel /\ current = BOOTSTRAP_ID
    /\ nextPid \in Processes
    /\ PagesBecome(AfterCreate(Pages))
    /\ ProcessCreate(KernelCaller)
    /\ UNCHANGED <<vars, cpuVars, fatal>>

\* create_process_from_program, called by the boot thread, which owns the
\* mapper: code page, stack page, registration, and an early return on any
\* failure.
CreateProcess ==
    /\ InKernel /\ current = BOOTSTRAP_ID
    /\ nextPid \in Processes
    /\ PagesBecome(AfterCreate(Pages))
    /\ IF StackMaps(Pages) THEN ProcessCreate(KernelCaller) ELSE UNCHANGED procVars
    /\ UNCHANGED <<vars, cpuVars, fatal>>

Hosts(pid) == {t \in 1 .. nextId - 1 : process[t] = pid}

\* spawn_user_thread: the pid travels as the thread's tag.
SpawnUserThread(pid) ==
    /\ InKernel /\ current = BOOTSTRAP_ID
    /\ pid \in 1 .. nextPid - 1
    /\ Cardinality(Hosts(pid)) < MaxHosts
    /\ Spawn(pid)
    /\ UNCHANGED userVars

-----------------------------------------------------------------------------
(* User threads.                                                           *)

InUserThread == pc = "run" /\ Tag(current) # KERNEL /\ fatal = "none"

\* user_thread_entry: look the process up, iretq with interrupts on.
UserThreadEntry ==
    /\ InUserThread /\ ring = 0 /\ current \notin entered
    /\ IF /\ Allowed(CurrentProcess, "ProcessSnapshot", CurrentProcess)
          /\ CurrentProcess \in registry
       THEN /\ ring' = 3 /\ IF_' = TRUE /\ entered' = entered \cup {current}
            /\ UNCHANGED fatal
       ELSE fatal' = "lookup" /\ UNCHANGED <<ring, IF_, entered>>
    /\ UNCHANGED <<vars, procVars, mapVars, trapped, entryFrame>>

\* From ring 3 through an interrupt gate: to ring 0 on the entry stack, with
\* interrupts off.
Trap ==
    /\ InUserThread /\ ring = 3
    /\ ring' = 0 /\ IF_' = FALSE
    /\ trapped' = trapped \cup {current}
    /\ entryFrame' = current
    /\ UNCHANGED entered

SysYield ==
    /\ Trap
    /\ DrainReaper("yield")
    /\ UNCHANGED <<procVars, mapVars, fatal>>

\* A plausible slip: the process is ended but the thread goes on.
SysExitReturns ==
    /\ Trap
    /\ ProcessExit(CurrentProcess, CurrentProcess)
    /\ DrainReaper("yield")
    /\ UNCHANGED <<mapVars, fatal>>

\* A plausible slip: the thread leaves without the scheduler's first step.
SysExitSkipsDrain ==
    /\ Trap
    /\ ProcessExit(CurrentProcess, CurrentProcess)
    /\ op' = "exit" /\ pc' = "select"
    /\ UNCHANGED <<threads, process, ready, current, context, reaper, toDrop, stack,
                   prev, nextId, alive, spawned, exited, mapVars, fatal>>

\* sys_exit ends the process and then the thread.
SysExit ==
    /\ Trap
    /\ ProcessExit(CurrentProcess, CurrentProcess)
    /\ DrainReaper("exit")
    /\ UNCHANGED <<mapVars, fatal>>

\* The process of the current thread ends, and the thread with it; without a
\* process the kernel panics.
kill_faulting_process ==
    IF CurrentProcess = KERNEL
    THEN fatal' = "context" /\ UNCHANGED <<vars, procVars>>
    ELSE /\ ProcessExit(CurrentProcess, CurrentProcess)
         /\ DrainReaper("exit")
         /\ UNCHANGED fatal

\* A general protection or page fault in ring 3.
RingThreeFault ==
    /\ Trap
    /\ kill_faulting_process
    /\ UNCHANGED mapVars

\* sys_read, an unknown number, a sys_write that is refused or whose bytes can
\* be read, or an interrupt in ring 3: in and out again without a switch, over
\* the entry stack.
TrapAndReturn ==
    /\ InUserThread /\ ring = 3
    /\ entryFrame' = current
    /\ UNCHANGED <<vars, procVars, mapVars, ring, IF_, entered, trapped, fatal>>

\* user_bytes checks the bounds of the user window, and not all of the window
\* is mapped: a sys_write it lets through can page-fault while the kernel reads
\* the bytes.  That fault is in ring 0, where page_fault_handler panics.
SysWriteFaults ==
    /\ Trap
    /\ fatal' = "page_fault"
    /\ UNCHANGED <<vars, procVars, mapVars>>

\* A sys_yield comes back: the thread's frame on the entry stack is popped.
SysReturn ==
    /\ InUserThread /\ ring = 0 /\ current \in trapped
    /\ entryFrame = current
    /\ ring' = 3 /\ IF_' = TRUE
    /\ trapped' = trapped \ {current}
    /\ UNCHANGED <<vars, procVars, mapVars, entered, entryFrame, fatal>>

\* It comes back to the frames of another thread, which trapped meanwhile and
\* wrote over its own.  What runs then is not defined by the code, and the
\* model ends.
SysReturnLost ==
    /\ InUserThread /\ ring = 0 /\ current \in trapped
    /\ entryFrame # current
    /\ fatal' = "frame"
    /\ UNCHANGED <<vars, procVars, mapVars, cpuVars>>

Halted ==
    /\ fatal # "none" \/ pc \in Panics
    /\ UNCHANGED allVars

UserNext ==
    \/ KernelSpawn
    \/ \E c \in {"yield", "exit"} : KernelCalls(c)
    \/ SchedulerStep
    \/ CreateProcess
    \/ \E pid \in Processes : SpawnUserThread(pid)
    \/ UserThreadEntry
    \/ SysYield
    \/ SysExit
    \/ RingThreeFault
    \/ TrapAndReturn
    \/ SysWriteFaults
    \/ SysReturn
    \/ SysReturnLost
    \/ Halted

UserSpec == UserInit /\ [][UserNext]_allVars
-----------------------------------------------------------------------------
\* System calls, faults and entry to ring 3 use the thread scheduler only
\* through its operations: whatever holds of Threads holds here.
ImplementsThreads == Spec

\* The thread is on its way out through exit_thread, or gone.
Leaving(t) ==
    t \in exited \/ (stack = t /\ op = "exit" /\ pc \in {"drop", "select"})

\* A process is registered exactly until one of its threads leaves, whether by
\* sys_exit or by a fault, and processes_alive counts the registered ones: the
\* tag a trap looks up is that of the thread that trapped.
RegisteredUntilHostLeaves ==
    /\ registry = {pid \in 1 .. nextPid - 1 : \A t \in Hosts(pid) : ~ Leaving(t)}
    /\ procAlive = Cardinality(registry)

\* A process is registered only once both its pages are mapped, however often
\* creation failed on the way before; and as nothing unmaps them, creation
\* succeeds once per boot, with any number of attempts and frames.
RegisteredIsMapped ==
    /\ registry # {} => codeMapped /\ stackMapped
    /\ nextPid > 1 => nextPid = 2 /\ stackMapped

\* A thread in ring 3 belongs to a registered process and can be interrupted,
\* so the timer and the fault handlers find a process to act on, however many
\* threads its process has: one that yielded while another ended the process
\* never comes back to ring 3 on its own frame (for a return to another thread's
\* see SysReturnLost and EntryFrameIntact).  No fault of ring 3 finds the
\* thread without a process; and user_thread_entry panics over a missing pid
\* only if another thread of the process has left before.
RingThreeHasProcess ==
    /\ ring = 3 => /\ CurrentProcess \in registry
                   /\ stack = current
                   /\ IF_
    /\ fatal # "context"
    /\ fatal = "lookup" => \E t \in Hosts(CurrentProcess) \ {current} : t \in exited

\* "calls syscall_dispatch ..., restores the regs, and iretqs" (syscall.rs): a
\* thread inside a trap still has its own frame on the entry stack.
EntryFrameIntact == \A t \in trapped \ exited : entryFrame = t

\* "IRQs are in their normal (enabled) state so the new thread runs
\* preemptibly" (thread.rs, yield_now): kernel code that has been switched to
\* runs with interrupts on.
SwitchedInWithInterruptsOn == InKernel => IF_

=============================================================================

--------------------------- MODULE UserlandProofs ----------------------------
(***************************************************************************)
(* System calls, faults and process creation implement Threads: whatever   *)
(* user code does, the thread scheduler takes only its own steps, so its   *)
(* theorems hold of the kernel with user processes too.  On top of them,   *)
(* the registry follows the threads, and the demos leave nothing behind.   *)
(***************************************************************************)
EXTENDS Demos, ThreadsProofs

\* Every step of Userland is a step of Threads or leaves the scheduler alone:
\* a trap does what it does through drain_reaper, yield_now and exit_thread.
LEMMA UserStepIsThreadStep == UserNext => Next \/ UNCHANGED vars
<1> SUFFICES ASSUME UserNext PROVE Next \/ UNCHANGED vars
  BY Zenon
<1>1. CASE KernelSpawn
  BY <1>1, ThreadsAssumption, Zenon DEF KernelSpawn, Next
<1>2. ASSUME NEW c \in {"yield", "exit"}, KernelCalls(c) PROVE Next
  BY <1>2, Zenon DEF KernelCalls, Next
<1>3. CASE SchedulerStep
  BY <1>3, Zenon DEF SchedulerStep, Next
<1>4. CASE CreateProcess
  BY <1>4, Zenon DEF CreateProcess
<1>5. ASSUME NEW pid \in Processes, SpawnUserThread(pid) PROVE Next
  BY <1>5, Zenon DEF SpawnUserThread, Next
<1>6. CASE UserThreadEntry
  BY <1>6, Zenon DEF UserThreadEntry
<1>7. CASE SysYield
  BY <1>7, Zenon DEF SysYield, Next
<1>8. CASE SysExit
  BY <1>8, Zenon DEF SysExit, Next
<1>9. CASE RingThreeFault
  BY <1>9, Zenon DEF RingThreeFault, kill_faulting_process, Next
<1>10. CASE TrapAndReturn
  BY <1>10, Zenon DEF TrapAndReturn
<1>11. CASE SysReturn
  BY <1>11, Zenon DEF SysReturn
<1>12. CASE SysWriteFaults
  BY <1>12, Zenon DEF SysWriteFaults
<1>13. CASE SysReturnLost
  BY <1>13, Zenon DEF SysReturnLost
<1>14. CASE Halted
  BY <1>14 DEF Halted, allVars
<1> QED
  BY <1>1, <1>2, <1>3, <1>4, <1>5, <1>6, <1>7, <1>8, <1>9, <1>10, <1>11, <1>12, <1>13, <1>14,
     Zenon
  DEF UserNext

\* Userland implements Threads, for every number of threads, processes, stacks
\* and frames and any number of threads per process.
THEOREM UserlandImplementsThreads == UserSpec => ImplementsThreads
<1>1. UserInit => Init
  BY DEF UserInit
<1>2. [UserNext]_allVars => [Next]_vars
  BY UserStepIsThreadStep DEF allVars
<1> QED
  BY <1>1, <1>2, PTL DEF UserSpec, ImplementsThreads, Spec

\* No stack is freed in use, whatever processes do: an exit or a fault in ring
\* 3 leaves through exit_thread like any other thread.
THEOREM StackSafetyWithUsers == UserSpec => []StacksOutliveUse
  BY UserlandImplementsThreads, StackSafety, PTL DEF ImplementsThreads

\* The process a system call or a fault looks up through current_process is
\* that of the thread the CPU is on, so the right one is ended.
THEOREM TagCorrectWithUsers == UserSpec => []TagIsTheRunners
  BY UserlandImplementsThreads, TagCorrect, PTL DEF ImplementsThreads

-----------------------------------------------------------------------------

\* Pids: a registered process and a thread's tag are numbers handed out before;
\* creation has succeeded once at most, and then both pages are mapped.
PidInv ==
    /\ nextPid \in Nat \ {0}
    /\ nextPid - 1 \in Processes
    /\ registry \subseteq 1 .. nextPid - 1
    /\ \A t \in 1 .. nextId - 1 : process[t] \in 0 .. nextPid - 1
    /\ nextPid > 1 => nextPid = 2 /\ codeMapped /\ stackMapped

\* Only a user thread outside the scheduler is in ring 3, with interrupts on.
RingInv ==
    /\ ring \in {0, 3}
    /\ ring = 3 => pc = "run" /\ Tag(current) # KERNEL /\ IF_

UInv == IInv /\ PidInv /\ RingInv /\ RegisteredUntilHostLeaves

\* Outside the scheduler the looked-up tag is that of the current thread.
LEMMA LookedUpTag ==
    ASSUME IInv, pc = "run"
    PROVE  /\ stack = current /\ current \in Runnable /\ current \notin exited
           /\ CurrentProcess = Tag(current)
           /\ current # BOOTSTRAP_ID => current \in 1 .. nextId - 1
  <1>1. stack = current /\ current \in Runnable
    BY DEF IInv, StackInv, NoThreadLost
  <1>2. current \notin exited /\ (current # BOOTSTRAP_ID => current \in 1 .. nextId - 1)
    BY <1>1, Zenon DEF Runnable
  <1>3. CurrentProcess = Tag(current)
    BY <1>1, InvConsequences, Zenon DEF TagIsTheRunners, Tag
  <1>4. QED
    BY <1>1, <1>2, <1>3, Zenon

\* The invariant of Threads holds on: every step is one of Threads or none.
LEMMA ThreadsInvStep ==
    ASSUME IInv, UserNext
    PROVE  IInv'
  BY UserStepIsThreadStep, NextInv, Zenon

\* What a spawn with tag p does to the tags.
LEMMA SpawnTags ==
    ASSUME IInv, NEW p \in Processes, Spawn(p)
    PROVE  \/ /\ nextId' = nextId + 1 /\ nextId \notin exited
              /\ 1 .. nextId' - 1 = (1 .. nextId - 1) \cup {nextId}
              /\ nextId \notin 1 .. nextId - 1
              /\ process'[nextId] = p
              /\ \A t \in 1 .. nextId - 1 : process'[t] = process[t]
              /\ pc' = "run"
           \/ nextId' = nextId /\ process' = process /\ pc' = "oom"
  <1>1. CASE Cardinality(Boxes) < StackSlots
    <2>1. nextId \in 1 .. MaxThreads /\ nextId' = nextId + 1 /\ pc' = "run"
      BY <1>1 DEF Spawn, IInv, TypeOK
    <2>2. nextId \notin exited
      BY <2>1 DEF IInv, BoxInv, BOOTSTRAP_ID
    <2>3. process' = [process EXCEPT ![nextId] = p] /\ DOMAIN process = 1 .. MaxThreads
      BY <1>1, Zenon DEF Spawn, IInv, TypeOK, ThreadId
    <2>4. /\ process'[nextId] = p
          /\ \A t \in 1 .. nextId - 1 : process'[t] = process[t]
      BY <2>1, <2>3, ThreadsAssumption
    <2>5. 1 .. nextId' - 1 = (1 .. nextId - 1) \cup {nextId} /\ nextId \notin 1 .. nextId - 1
      BY <2>1, ThreadsAssumption
    <2>6. QED
      BY <2>1, <2>2, <2>4, <2>5, Zenon
  <1>2. CASE ~ (Cardinality(Boxes) < StackSlots)
    BY <1>2, Zenon DEF Spawn
  <1>3. QED
    BY <1>1, <1>2, Zenon

\* Pids and tags stay in range; a second creation finds the code page mapped.
LEMMA PidStep ==
    ASSUME UInv, UserNext
    PROVE  PidInv'
  <1>0. /\ nextPid \in Nat \ {0} /\ nextPid - 1 \in Processes
        /\ registry \subseteq 1 .. nextPid - 1
        /\ \A t \in 1 .. nextId - 1 : process[t] \in 0 .. nextPid - 1
        /\ nextPid > 1 => nextPid = 2 /\ codeMapped /\ stackMapped
        /\ nextId \in Nat
    BY DEF UInv, PidInv, IInv, TypeOK
  <1>1. ASSUME NEW p \in Processes, p \in 0 .. nextPid - 1, Spawn(p), UNCHANGED userVars
        PROVE  PidInv'
    <2>1. UNCHANGED <<nextPid, registry, codeMapped, stackMapped>>
      BY <1>1, Zenon DEF userVars, procVars, mapVars
    <2>2. \A t \in 1 .. nextId' - 1 : process'[t] \in 0 .. nextPid - 1
      BY <1>0, <1>1, SpawnTags, Zenon DEF UInv
    <2>3. QED
      BY <1>0, <2>1, <2>2, Zenon DEF PidInv
  <1>2. CASE KernelSpawn
    <2>1. KERNEL \in Processes /\ KERNEL \in 0 .. nextPid - 1
      BY <1>0, ThreadsAssumption DEF KERNEL
    <2>2. QED
      BY <1>1, <1>2, <2>1, Zenon DEF KernelSpawn
  <1>3. ASSUME NEW pid \in Processes, SpawnUserThread(pid) PROVE PidInv'
    <2>1. pid \in 0 .. nextPid - 1
      BY <1>0, <1>3 DEF SpawnUserThread
    <2>2. QED
      BY <1>1, <1>3, <2>1, Zenon DEF SpawnUserThread
  <1>4. CASE CreateProcess
    <2>1. /\ codeMapped' = (codeMapped \/ CodeMaps(Pages))
          /\ stackMapped' = (stackMapped \/ StackMaps(Pages))
          /\ UNCHANGED <<nextId, process>>
      BY <1>4, Zenon DEF CreateProcess, PagesBecome, AfterCreate, Pages, vars
    <2>2. CASE StackMaps(Pages)
      <3>1. ~ codeMapped /\ CodeMaps(Pages)
        BY <2>2, Zenon DEF StackMaps, CodeMaps, Pages
      <3>2. nextPid = 1
        BY <1>0, <3>1
      <3>3. registry' = registry \cup {nextPid} /\ nextPid' = nextPid + 1
        BY <1>4, <2>2, Zenon DEF CreateProcess, ProcessCreate, Allowed
      <3>4. codeMapped' /\ stackMapped'
        BY <2>1, <2>2, <3>1, Zenon
      <3>5. registry' \subseteq 1 .. nextPid' - 1 /\ nextPid' = 2
        BY <1>0, <3>2, <3>3
      <3>6. \A t \in 1 .. nextId' - 1 : process'[t] \in 0 .. nextPid' - 1
        BY <1>0, <2>1, <3>2, <3>5
      <3>7. nextPid' - 1 \in Processes
        BY <1>4, <3>2, <3>5 DEF CreateProcess
      <3>8. QED
        BY <3>4, <3>5, <3>6, <3>7 DEF PidInv
    <2>3. CASE ~ StackMaps(Pages)
      <3>1. UNCHANGED <<registry, nextPid>>
        BY <1>4, <2>3, Zenon DEF CreateProcess, procVars
      <3>2. QED
        BY <1>0, <2>1, <3>1, Zenon DEF PidInv
    <2>4. QED
      BY <2>2, <2>3, Zenon
  <1>5. ASSUME UNCHANGED <<nextPid, codeMapped, stackMapped, nextId, process>>,
               registry' \subseteq registry
        PROVE  PidInv'
    BY <1>0, <1>5, Zenon DEF PidInv
  <1>6. ASSUME NEW c \in {"yield", "exit"}, KernelCalls(c) PROVE PidInv'
    BY <1>5, <1>6, Zenon DEF KernelCalls, DrainReaper, userVars, procVars, mapVars
  <1>7. CASE SchedulerStep
    BY <1>5, <1>7, Zenon DEF SchedulerStep, DropReaped, YieldSelect, ExitSelect, SwitchContext,
                      userVars, procVars, mapVars
  <1>8. CASE UserThreadEntry
    BY <1>5, <1>8, Zenon DEF UserThreadEntry, vars, procVars, mapVars
  <1>9. CASE SysYield
    BY <1>5, <1>9, Zenon DEF SysYield, DrainReaper, procVars, mapVars
  <1>10. CASE SysExit
    BY <1>5, <1>10, Zenon DEF SysExit, DrainReaper, ProcessExit, mapVars
  <1>11. CASE RingThreeFault
    BY <1>5, <1>11, Zenon DEF RingThreeFault, kill_faulting_process, DrainReaper, ProcessExit,
                       vars, procVars, mapVars
  <1>12. CASE TrapAndReturn
    BY <1>5, <1>12, Zenon DEF TrapAndReturn, vars, procVars, mapVars
  <1>13. CASE SysReturn
    BY <1>5, <1>13, Zenon DEF SysReturn, vars, procVars, mapVars
  <1>14. CASE SysWriteFaults
    BY <1>5, <1>14, Zenon DEF SysWriteFaults, vars, procVars, mapVars
  <1>15. CASE SysReturnLost
    BY <1>5, <1>15, Zenon DEF SysReturnLost, vars, procVars, mapVars
  <1>16. CASE Halted
    BY <1>5, <1>16, Zenon DEF Halted, allVars, vars, userVars, procVars, mapVars
  <1>17. QED
    BY <1>2, <1>3, <1>4, <1>6, <1>7, <1>8, <1>9, <1>10, <1>11, <1>12, <1>13, <1>14, <1>15,
       <1>16, ZenonT(30)
    DEF UserNext

\* The CPU enters ring 3 only in a user thread and leaves it with every trap.
LEMMA RingStep ==
    ASSUME UInv, UserNext
    PROVE  RingInv'
  <1>0. /\ ring \in {0, 3}
        /\ ring = 3 => pc = "run" /\ Tag(current) # KERNEL /\ IF_
    BY Zenon DEF UInv, RingInv
  <1>1. ASSUME ring' = 0 PROVE RingInv'
    BY <1>1 DEF RingInv
  <1>2. CASE KernelSpawn
    BY <1>1, <1>2, Zenon DEF KernelSpawn, InKernel, userVars, cpuVars
  <1>3. ASSUME NEW c \in {"yield", "exit"}, KernelCalls(c) PROVE RingInv'
    BY <1>1, <1>3, Zenon DEF KernelCalls, InKernel, userVars, cpuVars
  <1>4. CASE SchedulerStep
    BY <1>0, <1>1, <1>4, Zenon DEF SchedulerStep, DropReaped, YieldSelect, ExitSelect, SwitchContext,
                            userVars, cpuVars
  <1>5. CASE CreateProcess
    BY <1>1, <1>5, Zenon DEF CreateProcess, InKernel, cpuVars
  <1>6. ASSUME NEW pid \in Processes, SpawnUserThread(pid) PROVE RingInv'
    BY <1>1, <1>6, Zenon DEF SpawnUserThread, InKernel, userVars, cpuVars
  <1>7. CASE UserThreadEntry
    BY <1>0, <1>7, Zenon DEF UserThreadEntry, InUserThread, RingInv, Tag, vars
  <1>8. CASE SysYield
    BY <1>1, <1>8, Zenon DEF SysYield, Trap
  <1>9. CASE SysExit
    BY <1>1, <1>9, Zenon DEF SysExit, Trap
  <1>10. CASE RingThreeFault
    BY <1>1, <1>10, Zenon DEF RingThreeFault, Trap
  <1>11. CASE TrapAndReturn
    BY <1>0, <1>11, Zenon DEF TrapAndReturn, RingInv, Tag, vars
  <1>12. CASE SysReturn
    BY <1>0, <1>12, Zenon DEF SysReturn, InUserThread, RingInv, Tag, vars
  <1>13. CASE SysWriteFaults
    BY <1>1, <1>13, Zenon DEF SysWriteFaults, Trap
  <1>14. CASE SysReturnLost
    BY <1>1, <1>14, Zenon DEF SysReturnLost, cpuVars
  <1>15. CASE Halted
    BY <1>0, <1>15, Zenon DEF Halted, allVars, vars, userVars, cpuVars, RingInv, Tag
  <1>16. QED
    BY <1>2, <1>3, <1>4, <1>5, <1>6, <1>7, <1>8, <1>9, <1>10, <1>11, <1>12, <1>13, <1>14,
       <1>15, ZenonT(30)
    DEF UserNext

\* The pids that RegisteredUntilHostLeaves says are registered.
Staying == {pid \in 1 .. nextPid - 1 : \A t \in Hosts(pid) : ~ Leaving(t)}

\* Finitely many processes are registered.
LEMMA RegistryFinite ==
    ASSUME PidInv
    PROVE  IsFiniteSet(registry) /\ nextPid \notin registry
  <1>1. /\ nextPid - 1 \in Int /\ 1 \in Int
        /\ registry \in SUBSET (1 .. nextPid - 1)
        /\ nextPid \notin 1 .. nextPid - 1
    BY DEF PidInv
  <1>2. IsFiniteSet(1 .. nextPid - 1)
    BY <1>1, FS_Interval, Zenon
  <1>3. QED
    BY <1>1, <1>2, FS_Subset, Zenon

\* registry and its count after a step in which p, if any, is the process
\* whose thread leaves.
LEMMA RegistryLoses ==
    ASSUME UInv, NEW p, Staying' = Staying \ {p}, ProcessExit(p, p)
    PROVE  RegisteredUntilHostLeaves'
  <1>1. registry = Staying /\ procAlive = Cardinality(registry)
    BY Zenon DEF UInv, RegisteredUntilHostLeaves, Staying
  <1>2. IsFiniteSet(registry)
    BY RegistryFinite, Zenon DEF UInv
  <1>3. /\ registry' = registry \ {p}
        /\ procAlive' = IF p \in registry THEN procAlive - 1 ELSE procAlive
    BY DEF ProcessExit, Allowed, note_process_exited
  <1>4. procAlive' = Cardinality(registry')
    BY <1>1, <1>2, <1>3, FS_RemoveElement, Zenon
  <1>5. QED
    BY <1>1, <1>3, <1>4, Zenon DEF RegisteredUntilHostLeaves, Staying

\* Nothing about processes changes.
LEMMA RegistryKeeps ==
    ASSUME UInv, Staying' = Staying, UNCHANGED <<registry, procAlive>>
    PROVE  RegisteredUntilHostLeaves'
  BY Zenon DEF UInv, RegisteredUntilHostLeaves, Staying

\* A user thread that leaves takes its process along, and no other one.
LEMMA LeavingEndsProcess ==
    ASSUME UInv, Trap, ProcessExit(CurrentProcess, CurrentProcess), DrainReaper("exit")
    PROVE  RegisteredUntilHostLeaves'
  <1> DEFINE p == CurrentProcess
  <1>1. pc = "run" /\ Tag(current) # KERNEL
    BY Zenon DEF Trap, InUserThread
  <1>2. /\ stack = current /\ current \notin exited /\ p = Tag(current)
        /\ current # BOOTSTRAP_ID => current \in 1 .. nextId - 1
    BY <1>1, LookedUpTag, Zenon DEF UInv
  <1>3. current \in 1 .. nextId - 1 /\ process[current] = p
    BY <1>1, <1>2, Zenon DEF Tag
  <1>4. UNCHANGED <<nextPid, nextId, process, exited, stack>>
    BY Zenon DEF DrainReaper, ProcessExit
  <1>5. \A q : Hosts(q)' = Hosts(q)
    BY <1>4, Zenon DEF Hosts
  <1>6. \A t : Leaving(t) <=> t \in exited
    BY <1>1, Zenon DEF Leaving
  <1>7. \A t : Leaving(t)' <=> t \in exited \/ t = current
    BY <1>2, <1>4, Zenon DEF Leaving, DrainReaper
  <1>8. current \in Hosts(p) /\ \A q : q # p => current \notin Hosts(q)
    BY <1>3, Zenon DEF Hosts
  <1> HIDE DEF p
  <1>9. Staying' = Staying \ {p}
    <2>1. Staying' = {q \in 1 .. nextPid - 1 : \A t \in Hosts(q) : t \notin exited /\ t # current}
      BY <1>4, <1>5, <1>7, Zenon DEF Staying
    <2>2. Staying = {q \in 1 .. nextPid - 1 : \A t \in Hosts(q) : t \notin exited}
      BY <1>6, Zenon DEF Staying
    <2>3. QED
      BY <1>8, <2>1, <2>2, Zenon
  <1>10. QED
    BY <1>9, RegistryLoses, Zenon DEF p

\* The registry follows the threads through every step.
LEMMA RegistryStep ==
    ASSUME UInv, UserNext
    PROVE  RegisteredUntilHostLeaves'
  <1>1. IInv /\ PidInv /\ nextPid \in Nat \ {0}
    BY Zenon DEF UInv, PidInv
  <1>2. ASSUME NEW p \in Processes, p \in 0 .. nextPid - 1, Spawn(p), UNCHANGED userVars
        PROVE  RegisteredUntilHostLeaves'
    <2>1. UNCHANGED <<registry, procAlive, nextPid, exited>>
      BY <1>2, Zenon DEF userVars, procVars, Spawn
    <2>2. \A t : Leaving(t) <=> t \in exited
      BY <1>2, Zenon DEF Leaving, Spawn
    <2>3. \A t : Leaving(t)' <=> t \in exited
      BY <1>2, <2>1, Zenon DEF Leaving, Spawn
    <2>4. \A q : Hosts(q)' \ {nextId} = Hosts(q) \ {nextId}
      BY <1>1, <1>2, SpawnTags, Zenon DEF Hosts
    <2>5. nextId \notin exited
      BY <1>1, <1>2, ThreadsAssumption DEF IInv, BoxInv, TypeOK, BOOTSTRAP_ID, Spawn
    <2>6. Staying' = {q \in 1 .. nextPid - 1 : \A t \in Hosts(q)' : t \notin exited}
      BY <2>1, <2>3, Zenon DEF Staying
    <2>7. Staying = {q \in 1 .. nextPid - 1 : \A t \in Hosts(q) : t \notin exited}
      BY <2>2, Zenon DEF Staying
    <2>8. Staying' = Staying
      BY <2>4, <2>5, <2>6, <2>7, Zenon
    <2>9. QED
      BY <2>1, <2>8, RegistryKeeps, Zenon
  <1>3. CASE KernelSpawn
    <2>1. KERNEL \in Processes /\ KERNEL \in 0 .. nextPid - 1
      BY <1>1, ThreadsAssumption DEF KERNEL
    <2>2. QED
      BY <1>2, <1>3, <2>1 DEF KernelSpawn
  <1>4. ASSUME NEW pid \in Processes, SpawnUserThread(pid) PROVE RegisteredUntilHostLeaves'
    <2>1. pid \in 0 .. nextPid - 1
      BY <1>1, <1>4 DEF SpawnUserThread
    <2>2. QED
      BY <1>2, <1>4, <2>1 DEF SpawnUserThread
  <1>5. ASSUME UNCHANGED <<registry, procAlive, nextPid, nextId, process>>,
               \A t \in 1 .. nextId - 1 :
                  process[t] # KERNEL => (Leaving(t)' <=> Leaving(t))
        PROVE  RegisteredUntilHostLeaves'
    <2>1. \A q : Hosts(q)' = Hosts(q)
      BY <1>5, Zenon DEF Hosts
    <2>2. \A q \in 1 .. nextPid - 1 : \A t \in Hosts(q) : Leaving(t)' <=> Leaving(t)
      BY <1>1, <1>5 DEF Hosts, KERNEL
    <2>3. Staying' = Staying
      BY <1>5, <2>1, <2>2, Zenon DEF Staying
    <2>4. QED
      BY <1>5, <2>3, RegistryKeeps, Zenon
  <1>6. ASSUME NEW c \in {"yield", "exit"}, KernelCalls(c) PROVE RegisteredUntilHostLeaves'
    <2>1. pc = "run" /\ Tag(current) = KERNEL
      BY <1>6, Zenon DEF KernelCalls, InKernel
    <2>2. stack = current
      BY <1>1, <2>1, LookedUpTag, Zenon
    <2>3. UNCHANGED <<registry, procAlive, nextPid, nextId, process, exited, stack>>
      BY <1>6, Zenon DEF KernelCalls, DrainReaper, userVars, procVars
    <2>4. \A t \in 1 .. nextId - 1 : process[t] # KERNEL => t # stack
      BY <1>1, <2>1, <2>2 DEF Tag, IInv, TypeOK, BOOTSTRAP_ID
    <2>5. QED
      BY <1>5, <2>1, <2>3, <2>4, Zenon DEF Leaving
  <1>7. CASE SchedulerStep
    <2>1. UNCHANGED <<registry, procAlive, nextPid, nextId, process>>
      BY <1>7, Zenon DEF SchedulerStep, DropReaped, YieldSelect, ExitSelect, SwitchContext,
                  userVars, procVars
    <2>2. CASE DropReaped
      BY <1>5, <2>1, <2>2, Zenon DEF DropReaped, Leaving
    <2>3. CASE YieldSelect
      BY <1>5, <2>1, <2>3, Zenon DEF YieldSelect, Leaving
    <2>4. CASE ExitSelect
      <3>1. stack = current
        BY <1>1, <2>4, Zenon DEF ExitSelect, IInv, StackInv
      <3>2. QED
        BY <1>5, <2>1, <2>4, <3>1, Zenon DEF ExitSelect, Leaving
    <2>5. CASE SwitchContext
      BY <1>5, <2>1, <2>5, Zenon DEF SwitchContext, Leaving
    <2>6. QED
      BY <1>7, <2>2, <2>3, <2>4, <2>5, Zenon DEF SchedulerStep
  <1>8. CASE CreateProcess
    <2>1. UNCHANGED <<nextId, process, exited, stack, op, pc>>
      BY <1>8, Zenon DEF CreateProcess, vars
    <2>2. CASE ~ StackMaps(Pages)
      BY <1>5, <1>8, <2>1, <2>2, Zenon DEF CreateProcess, procVars, Leaving
    <2>3. CASE StackMaps(Pages)
      <3>1. /\ registry' = registry \cup {nextPid} /\ nextPid' = nextPid + 1
            /\ procAlive' = procAlive + 1
        BY <1>8, <2>3, Zenon DEF CreateProcess, ProcessCreate, Allowed, note_process_spawned
      <3>2. \A q : Hosts(q)' = Hosts(q)
        BY <2>1, Zenon DEF Hosts
      <3>3. \A t : Leaving(t)' <=> Leaving(t)
        BY <2>1, Zenon DEF Leaving
      <3>4. Hosts(nextPid) = {}
        BY <1>1 DEF Hosts, PidInv
      <3>5. 1 .. nextPid' - 1 = (1 .. nextPid - 1) \cup {nextPid} /\ nextPid \notin 1 .. nextPid - 1
        BY <1>1, <3>1
      <3>6. Staying' = Staying \cup {nextPid}
        BY <3>2, <3>3, <3>4, <3>5, Zenon DEF Staying
      <3>7. registry = Staying /\ procAlive = Cardinality(registry)
        BY Zenon DEF UInv, RegisteredUntilHostLeaves, Staying
      <3>8. IsFiniteSet(registry) /\ nextPid \notin registry
        BY <1>1, RegistryFinite, Zenon
      <3>9. Cardinality(registry') = procAlive'
        BY <3>1, <3>7, <3>8, FS_AddElement, Zenon
      <3>10. QED
        BY <3>1, <3>6, <3>7, <3>9, Zenon DEF RegisteredUntilHostLeaves, Staying
    <2>4. QED
      BY <2>2, <2>3, Zenon
  <1>9. CASE UserThreadEntry
    BY <1>5, <1>9, Zenon DEF UserThreadEntry, vars, procVars, Leaving
  <1>10. CASE SysYield
    BY <1>5, <1>10, Zenon DEF SysYield, Trap, InUserThread, DrainReaper, procVars, Leaving
  <1>11. CASE SysExit
    BY <1>11, LeavingEndsProcess, Zenon DEF SysExit
  <1>12. CASE RingThreeFault
    <2>1. CurrentProcess # KERNEL
      BY <1>1, <1>12, LookedUpTag, Zenon DEF RingThreeFault, Trap, InUserThread
    <2>2. QED
      BY <1>12, <2>1, LeavingEndsProcess, Zenon DEF RingThreeFault, kill_faulting_process
  <1>13. CASE TrapAndReturn
    BY <1>5, <1>13, Zenon DEF TrapAndReturn, vars, procVars, Leaving
  <1>14. CASE SysReturn
    BY <1>5, <1>14, Zenon DEF SysReturn, vars, procVars, Leaving
  <1>15. CASE SysWriteFaults
    BY <1>5, <1>15, Zenon DEF SysWriteFaults, vars, procVars, Leaving
  <1>16. CASE SysReturnLost
    BY <1>5, <1>16, Zenon DEF SysReturnLost, vars, procVars, Leaving
  <1>17. CASE Halted
    BY <1>5, <1>17, Zenon DEF Halted, allVars, vars, userVars, procVars, Leaving
  <1>18. QED
    BY <1>3, <1>4, <1>6, <1>7, <1>8, <1>9, <1>10, <1>11, <1>12, <1>13, <1>14, <1>15, <1>16,
       <1>17, ZenonT(30)
    DEF UserNext

\* Every step of Userland keeps the invariant.
LEMMA UInvStep == UInv /\ [UserNext]_allVars => UInv'
  <1> SUFFICES ASSUME UInv, [UserNext]_allVars PROVE UInv'
    BY Zenon
  <1>1. CASE UserNext
    <2>1. IInv'
      BY <1>1, ThreadsInvStep, Zenon DEF UInv
    <2>2. QED
      BY <1>1, <2>1, PidStep, RingStep, RegistryStep, Zenon DEF UInv
  <1>2. CASE UNCHANGED allVars
    <2>1. UNCHANGED vars /\ UNCHANGED userVars
      BY <1>2, Zenon DEF allVars
    <2>2. IInv'
      BY <2>1, NextInv, Zenon DEF UInv
    <2>3. PidInv'
      BY <2>1, Zenon DEF UInv, PidInv, vars, userVars, procVars, mapVars
    <2>4. RingInv'
      BY <2>1, Zenon DEF UInv, RingInv, Tag, vars, userVars, cpuVars
    <2>5. RegisteredUntilHostLeaves'
      BY <2>1 DEF UInv, RegisteredUntilHostLeaves, Hosts, Leaving, vars, userVars, procVars
    <2>6. QED
      BY <2>2, <2>3, <2>4, <2>5, Zenon DEF UInv
  <1>3. QED
    BY <1>1, <1>2, Zenon

\* Booting establishes it.
LEMMA UserInitInv == UserInit => UInv
  <1> SUFFICES ASSUME UserInit PROVE UInv
    OBVIOUS
  <1>1. IInv
    BY InitInv, Zenon DEF UserInit
  <1>2. PidInv /\ RingInv
    BY ThreadsAssumption DEF UserInit, Init, PidInv, RingInv, KERNEL
  <1>3. registry = {} /\ procAlive = 0 /\ nextPid = 1
    BY Zenon DEF UserInit
  <1>4. RegisteredUntilHostLeaves
    BY <1>3, FS_EmptySet DEF RegisteredUntilHostLeaves
  <1>5. QED
    BY <1>1, <1>2, <1>4, Zenon DEF UInv

\* The inductive invariant behind the theorems about processes.
THEOREM UserInvariance == UserSpec => []UInv
  BY UserInitInv, UInvStep, PTL DEF UserSpec

\* A process is registered until one of its threads leaves, and counted, for any
\* number of processes, threads and threads per process.
THEOREM RegistryFollowsThreads == UserSpec => []RegisteredUntilHostLeaves
  <1>1. UInv => RegisteredUntilHostLeaves
    BY Zenon DEF UInv
  <1>2. QED
    BY <1>1, UserInvariance, PTL

\* A registered process has both its pages, whatever number of frames there
\* was and however often its creation failed before.
THEOREM RegisteredHasPages == UserSpec => []RegisteredIsMapped
  <1>1. UInv => RegisteredIsMapped
    <2> SUFFICES ASSUME UInv PROVE RegisteredIsMapped
      OBVIOUS
    <2>1. ASSUME NEW pid \in registry PROVE nextPid > 1
      <3>1. nextPid \in Nat /\ pid \in 1 .. nextPid - 1
        BY DEF UInv, PidInv
      <3>2. QED
        BY <3>1
    <2>2. QED
      BY <2>1, Zenon DEF UInv, PidInv, RegisteredIsMapped
  <1>2. QED
    BY <1>1, UserInvariance, PTL

-----------------------------------------------------------------------------

\* Who may go to ring 3.  A thread inside a trap with its frame on the entry
\* stack is of a registered process or on its way out: whoever ends a process
\* does so in a trap, which takes the entry stack from every other thread.  And
\* what is known of a kernel that has stopped.
SeatInv ==
    /\ trapped \subseteq 1 .. nextId - 1
    /\ \A t \in trapped : entryFrame = t => Leaving(t) \/ process[t] \in registry
    /\ ring = 3 => CurrentProcess \in registry
    /\ fatal # "none" => pc = "run"
    /\ fatal # "context"
    /\ fatal = "lookup" => \E t \in Hosts(CurrentProcess) \ {current} : t \in exited

\* A user thread outside the scheduler, and the process it looks up.
LEMMA UserThread ==
    ASSUME UInv, InUserThread
    PROVE  /\ pc = "run" /\ fatal = "none" /\ stack = current
           /\ current \in 1 .. nextId - 1 /\ current \notin exited
           /\ CurrentProcess = process[current] /\ CurrentProcess # KERNEL
           /\ CurrentProcess \in 1 .. nextPid - 1
           /\ \A t : Leaving(t) <=> t \in exited
  <1>1. pc = "run" /\ Tag(current) # KERNEL /\ fatal = "none"
    BY Zenon DEF InUserThread
  <1>2. /\ stack = current /\ current \notin exited /\ CurrentProcess = Tag(current)
        /\ current # BOOTSTRAP_ID => current \in 1 .. nextId - 1
    BY <1>1, LookedUpTag, Zenon DEF UInv
  <1>3. current \in 1 .. nextId - 1 /\ CurrentProcess = process[current]
    BY <1>1, <1>2, Zenon DEF Tag
  <1>4. CurrentProcess \in 1 .. nextPid - 1
    BY <1>1, <1>2, <1>3 DEF UInv, PidInv, KERNEL
  <1>5. QED
    BY <1>1, <1>2, <1>3, <1>4, Zenon DEF Leaving

\* Every step keeps it.
LEMMA SeatStep ==
    ASSUME UInv, SeatInv, UserNext
    PROVE  SeatInv'
  <1>1. ASSUME fatal' = "none", ring' # 3, UNCHANGED <<trapped, entryFrame>>,
               registry \subseteq registry',
               \A t \in 1 .. nextId - 1 : /\ t \in 1 .. nextId' - 1
                                          /\ process'[t] = process[t]
                                          /\ Leaving(t) => Leaving(t)'
        PROVE  SeatInv'
    BY <1>1, Zenon DEF SeatInv
  <1>2. ASSUME NEW p \in Processes, InKernel, Spawn(p), UNCHANGED userVars PROVE SeatInv'
    <2>1. /\ UNCHANGED <<fatal, ring, trapped, entryFrame, registry, exited>>
          /\ fatal = "none" /\ ring = 0 /\ pc = "run"
      BY <1>2, Zenon DEF InKernel, userVars, cpuVars, procVars, Spawn
    <2>2. \A t \in 1 .. nextId - 1 : t \in 1 .. nextId' - 1 /\ process'[t] = process[t]
      BY <1>2, SpawnTags, Zenon DEF UInv
    <2>3. \A t : Leaving(t) => Leaving(t)'
      BY <2>1, Zenon DEF Leaving
    <2>4. QED
      BY <1>1, <2>1, <2>2, <2>3
  <1>3. CASE KernelSpawn
    BY <1>2, <1>3, ThreadsAssumption, Zenon DEF KernelSpawn
  <1>4. ASSUME NEW pid \in Processes, SpawnUserThread(pid) PROVE SeatInv'
    BY <1>2, <1>4, Zenon DEF SpawnUserThread
  <1>5. ASSUME NEW c \in {"yield", "exit"}, KernelCalls(c) PROVE SeatInv'
    <2>1. /\ UNCHANGED <<fatal, ring, trapped, entryFrame, registry, nextId, process, exited>>
          /\ fatal = "none" /\ ring = 0 /\ pc = "run"
      BY <1>5, Zenon DEF KernelCalls, InKernel, DrainReaper, userVars, cpuVars, procVars
    <2>2. \A t : Leaving(t) => Leaving(t)'
      BY <2>1, Zenon DEF Leaving
    <2>3. QED
      BY <1>1, <2>1, <2>2
  <1>6. CASE SchedulerStep
    <2>1. /\ UNCHANGED <<fatal, ring, trapped, entryFrame, registry, nextId, process>>
          /\ pc \in {"drop", "select", "switch"}
      BY <1>6, Zenon DEF SchedulerStep, DropReaped, YieldSelect, ExitSelect, SwitchContext,
                  userVars, cpuVars, procVars
    <2>2. fatal = "none" /\ ring # 3
      BY <2>1, Zenon DEF SeatInv, UInv, RingInv
    <2>3. \A t : Leaving(t) => Leaving(t)'
      <3>1. CASE DropReaped
        BY <3>1, Zenon DEF DropReaped, Leaving
      <3>2. CASE YieldSelect
        BY <3>2, Zenon DEF YieldSelect, Leaving
      <3>3. CASE ExitSelect
        <4>1. stack = current
          BY <3>3, Zenon DEF ExitSelect, UInv, IInv, StackInv
        <4>2. QED
          BY <3>3, <4>1, Zenon DEF ExitSelect, Leaving
      <3>4. CASE SwitchContext
        BY <3>4, Zenon DEF SwitchContext, Leaving
      <3>5. QED
        BY <1>6, <3>1, <3>2, <3>3, <3>4, Zenon DEF SchedulerStep
    <2>4. QED
      BY <1>1, <2>1, <2>2, <2>3, Zenon
  <1>7. CASE CreateProcess
    <2>1. /\ UNCHANGED <<fatal, ring, trapped, entryFrame, nextId, process, exited, stack, op, pc>>
          /\ fatal = "none" /\ ring = 0
      BY <1>7, Zenon DEF CreateProcess, InKernel, vars, cpuVars
    <2>2. registry \subseteq registry'
      BY <1>7, Zenon DEF CreateProcess, ProcessCreate, procVars
    <2>3. \A t : Leaving(t) => Leaving(t)'
      BY <2>1, Zenon DEF Leaving
    <2>4. QED
      BY <1>1, <2>1, <2>2, <2>3
  <1>8. CASE UserThreadEntry
    <2>1. /\ pc = "run" /\ fatal = "none" /\ current \notin exited
          /\ CurrentProcess \in 1 .. nextPid - 1 /\ \A t : Leaving(t) <=> t \in exited
      BY <1>8, UserThread, Zenon DEF UserThreadEntry
    <2>2. /\ UNCHANGED <<pc, current, threads, process, nextId, exited, stack, op, registry,
                         trapped, entryFrame>>
          /\ fatal' \in {"none", "lookup"}
          /\ ring' = 3 => CurrentProcess \in registry
          /\ fatal' = "lookup" => CurrentProcess \notin registry
      <3>1. UNCHANGED <<pc, current, threads, process, nextId, exited, stack, op, registry,
                        trapped, entryFrame>>
        BY <1>8, Zenon DEF UserThreadEntry, vars, procVars
      <3>2. Allowed(CurrentProcess, "ProcessSnapshot", CurrentProcess)
        BY Zenon DEF Allowed
      <3>3. \/ CurrentProcess \in registry /\ fatal' = fatal
            \/ CurrentProcess \notin registry /\ fatal' = "lookup" /\ ring' = 0
        BY <1>8, <3>2, Zenon DEF UserThreadEntry
      <3>4. QED
        BY <2>1, <3>1, <3>3
    <2>3. /\ CurrentProcess' = CurrentProcess /\ Hosts(CurrentProcess)' = Hosts(CurrentProcess)
          /\ \A t : Leaving(t)' <=> Leaving(t)
      BY <2>2, Zenon DEF CurrentProcess, Hosts, Leaving
    <2>4. ASSUME CurrentProcess \notin registry
          PROVE  \E t \in Hosts(CurrentProcess) \ {current} : t \in exited
      <3>1. PICK t \in Hosts(CurrentProcess) : Leaving(t)
        BY <2>1, <2>4, Zenon DEF UInv, RegisteredUntilHostLeaves
      <3>2. QED
        BY <2>1, <3>1, Zenon
    <2>5. QED
      BY <2>1, <2>2, <2>3, <2>4, Zenon DEF SeatInv
  <1>9. ASSUME InUserThread, UNCHANGED <<nextId, process>>, entryFrame' = current,
               trapped' \subseteq trapped \cup {current},
               fatal' \in {"none", "page_fault"}, fatal' # "none" => pc' = "run",
               \A t : t = current => Leaving(t)' \/ process[t] \in registry',
               ring' = 3 => CurrentProcess' \in registry'
        PROVE  SeatInv'
    <2>1. current \in 1 .. nextId - 1
      BY <1>9, UserThread, Zenon
    <2>2. /\ trapped' \subseteq 1 .. nextId' - 1
          /\ fatal' # "context" /\ fatal' # "lookup"
      BY <1>9, <2>1, Zenon DEF SeatInv
    <2>3. QED
      BY <1>9, <2>2, Zenon DEF SeatInv
  <1>10. ASSUME Trap \/ TrapAndReturn
         PROVE  /\ InUserThread /\ process[current] \in registry /\ stack = current
                /\ CurrentProcess \in registry /\ CurrentProcess # KERNEL
                /\ pc = "run" /\ fatal = "none"
    BY <1>10, UserThread, Zenon DEF Trap, TrapAndReturn, SeatInv
  <1>11. CASE SysYield
    <2>1. /\ Trap /\ UNCHANGED <<nextId, process, registry, fatal>>
          /\ trapped' = trapped \cup {current} /\ entryFrame' = current /\ ring' = 0
      BY <1>11, Zenon DEF SysYield, Trap, DrainReaper, procVars
    <2>2. QED
      BY <1>9, <1>10, <2>1
  <1>12. ASSUME Trap, DrainReaper("exit"), fatal' = fatal PROVE SeatInv'
    <2>1. /\ op' = "exit" /\ pc' = "drop" /\ UNCHANGED <<nextId, process, stack>>
          /\ trapped' = trapped \cup {current} /\ entryFrame' = current /\ ring' = 0
      BY <1>12, Zenon DEF Trap, DrainReaper
    <2>2. \A t : t = current => Leaving(t)'
      BY <1>10, <1>12, <2>1, Zenon DEF Leaving
    <2>3. QED
      BY <1>9, <1>10, <1>12, <2>1, <2>2
  <1>13. CASE SysExit
    BY <1>12, <1>13, Zenon DEF SysExit
  <1>14. CASE RingThreeFault
    BY <1>10, <1>12, <1>14, Zenon DEF RingThreeFault, kill_faulting_process
  <1>15. CASE TrapAndReturn
    <2>1. CurrentProcess' = CurrentProcess
      BY <1>15, Zenon DEF TrapAndReturn, vars, CurrentProcess
    <2>2. /\ UNCHANGED <<nextId, process, registry, trapped, fatal>> /\ entryFrame' = current
      BY <1>15, Zenon DEF TrapAndReturn, vars, procVars
    <2>3. QED
      BY <1>9, <1>10, <1>15, <2>1, <2>2, Zenon
  <1>16. CASE SysWriteFaults
    <2>1. /\ Trap /\ UNCHANGED <<pc, nextId, process, registry>> /\ fatal' = "page_fault"
          /\ trapped' = trapped \cup {current} /\ entryFrame' = current /\ ring' = 0
      BY <1>16, Zenon DEF SysWriteFaults, Trap, vars, procVars
    <2>2. /\ InUserThread /\ pc' = "run" /\ process[current] \in registry'
      BY <1>10, <2>1, Zenon
    <2>3. \A t : t = current => Leaving(t)' \/ process[t] \in registry'
      BY <2>2, Zenon
    <2>4. ring' # 3 /\ fatal' \in {"none", "page_fault"}
      BY <2>1
    <2>5. QED
      BY <1>9, <2>1, <2>2, <2>3, <2>4, Zenon
  <1>17. ASSUME UNCHANGED <<vars, registry, entryFrame>>, trapped' \subseteq trapped
         PROVE  /\ trapped' \subseteq 1 .. nextId' - 1
                /\ \A t \in trapped' : entryFrame' = t => Leaving(t)' \/ process'[t] \in registry'
                /\ CurrentProcess' = CurrentProcess /\ current' = current /\ pc' = pc
                /\ exited' = exited /\ Hosts(CurrentProcess)' = Hosts(CurrentProcess)
    <2>1. UNCHANGED <<pc, current, threads, process, nextId, exited, stack, op>>
      BY <1>17, Zenon DEF vars
    <2>2. /\ CurrentProcess' = CurrentProcess /\ Hosts(CurrentProcess)' = Hosts(CurrentProcess)
          /\ \A t : Leaving(t)' <=> Leaving(t)
      BY <2>1, Zenon DEF CurrentProcess, Hosts, Leaving
    <2>3. QED
      BY <1>17, <2>1, <2>2, Zenon DEF SeatInv
  <1>18. CASE SysReturn
    <2>1. /\ UNCHANGED <<vars, registry, entryFrame, fatal>> /\ trapped' \subseteq trapped
          /\ current \in trapped /\ entryFrame = current /\ InUserThread
      BY <1>18, Zenon DEF SysReturn, procVars
    <2>2. /\ current \notin exited /\ CurrentProcess = process[current] /\ fatal = "none"
          /\ \A t : Leaving(t) <=> t \in exited
      BY <2>1, UserThread, Zenon
    <2>3. CurrentProcess \in registry
      BY <2>1, <2>2, Zenon DEF SeatInv
    <2>4. QED
      BY <1>17, <2>1, <2>2, <2>3, Zenon DEF SeatInv
  <1>19. CASE SysReturnLost
    <2>1. /\ UNCHANGED <<vars, registry, entryFrame, trapped, ring>> /\ fatal' = "frame"
          /\ InUserThread /\ ring = 0
      BY <1>19, Zenon DEF SysReturnLost, procVars, cpuVars
    <2>2. pc = "run"
      BY <2>1, UserThread, Zenon
    <2>3. QED
      BY <1>17, <2>1, <2>2, Zenon DEF SeatInv
  <1>20. CASE Halted
    <2>1. UNCHANGED <<vars, registry, entryFrame, trapped, ring, fatal>>
      BY <1>20, Zenon DEF Halted, allVars, userVars, procVars, cpuVars
    <2>2. QED
      BY <1>17, <2>1, Zenon DEF SeatInv
  <1>21. QED
    BY <1>3, <1>4, <1>5, <1>6, <1>7, <1>8, <1>11, <1>13, <1>14, <1>15, <1>16, <1>18, <1>19,
       <1>20, ZenonT(30)
    DEF UserNext

\* However many threads a process has, one in ring 3 has its process registered
\* and interrupts on, no fault in ring 3 is without a process, and a pid is
\* missing in user_thread_entry only when another thread of it left before.
THEOREM RingThreeIsSound == UserSpec => []RingThreeHasProcess
  <1>1. UserInit => SeatInv
    BY DEF UserInit, SeatInv
  <1>2. UInv /\ SeatInv /\ [UserNext]_allVars => SeatInv'
    <2> SUFFICES ASSUME UInv, SeatInv, [UserNext]_allVars PROVE SeatInv'
      BY Zenon
    <2>1. CASE UserNext
      BY <2>1, SeatStep, Zenon
    <2>2. CASE UNCHANGED allVars
      <3>1. UNCHANGED <<pc, current, threads, process, nextId, exited, stack, op, registry,
                        trapped, entryFrame, ring, fatal>>
        BY <2>2, Zenon DEF allVars, vars, userVars, procVars, cpuVars
      <3>2. QED
        BY <3>1 DEF SeatInv, CurrentProcess, Hosts, Leaving
    <2>3. QED
      BY <2>1, <2>2, Zenon
  <1>3. UInv /\ SeatInv => RingThreeHasProcess
    <2> SUFFICES ASSUME UInv, SeatInv PROVE RingThreeHasProcess
      BY Zenon
    <2>1. ASSUME ring = 3 PROVE CurrentProcess \in registry /\ stack = current /\ IF_
      <3>1. pc = "run" /\ IF_
        BY <2>1, Zenon DEF UInv, RingInv
      <3>2. QED
        BY <2>1, <3>1, LookedUpTag, Zenon DEF UInv, SeatInv
    <2>2. QED
      BY <2>1, Zenon DEF SeatInv, RingThreeHasProcess
  <1>4. QED
    BY <1>1, <1>2, <1>3, UserInvariance, PTL DEF UserSpec

-----------------------------------------------------------------------------

\* The boot program and the threads it starts only do what Userland allows.
LEMMA DemoStepIsUserStep ==
    ASSUME UInv, DemoNext
    PROVE  UserNext \/ UNCHANGED allVars
  <1>1. CASE SpawnWorker
    BY <1>1, Zenon DEF SpawnWorker, UserNext
  <1>2. CASE Drive \/ Drain
    BY <1>2, Zenon DEF Drive, Drain, UserNext
  <1>3. CASE DriveEnds \/ InExecutor
    BY <1>3, Zenon DEF DriveEnds, InExecutor, demoVars
  <1>4. CASE CreateDemoProcess
    BY <1>4, Zenon DEF CreateDemoProcess, UserNext
  <1>5. CASE SpawnDemoThread
    <2>1. nextPid - 1 \in Processes
      BY Zenon DEF UInv, PidInv
    <2>2. QED
      BY <1>5, <2>1, Zenon DEF SpawnDemoThread, UserNext
  <1>6. ASSUME NEW t \in ThreadId, NEW c \in {"yield", "exit"}, WorkerCalls(t, c)
        PROVE  UserNext
    BY <1>6, Zenon DEF WorkerCalls, UserNext
  <1>7. CASE UserStep \/ UserEnds \/ SystemStep \/ FreeStep
    BY <1>7, Zenon DEF UserStep, UserEnds, SystemStep, FreeStep, UserNext
  <1>8. QED
    BY <1>1, <1>2, <1>3, <1>4, <1>5, <1>6, <1>7, Zenon DEF DemoNext

\* kernel_main's demos are a user of processes and threads like any other.
THEOREM DemosImplementUserland == DemoSpec => UserSpec /\ []UInv
  <1>1. DemoInit => UserInit
    BY Zenon DEF DemoInit
  <1>2. UInv /\ [DemoNext]_demoVars => [UserNext]_allVars
    BY DemoStepIsUserStep, Zenon DEF demoVars
  <1>3. UInv /\ [DemoNext]_demoVars => UInv'
    BY <1>2, UInvStep, Zenon
  <1>4. UserInit => UInv
    BY UserInitInv, Zenon
  <1>5. QED
    BY <1>1, <1>2, <1>3, <1>4, PTL DEF DemoSpec, UserSpec

\* Only the boot thread is left, and it is outside the scheduler.
Quiet == pc = "run" /\ current = BOOTSTRAP_ID /\ ready = <<>>

\* Its last yield, which finds nobody to switch to.
LastYield ==
    /\ current = BOOTSTRAP_ID /\ ready = <<>> /\ reaper = None
    /\ op = "yield" /\ pc \in {"drop", "select", "run"}

\* How far the boot program is, and what has happened by then.
StepInv ==
    /\ step \in {"free", "spawn_a", "spawn_b", "drive", "create", "spawn_user",
                  "drive_user", "drain", "end", "skipped"}
    /\ step = "spawn_a" => nextId = 1
    /\ step = "spawn_b" => nextId = 2 \/ pc = "oom"
    /\ step = "drive" => nextId = 3 \/ pc = "oom"
    /\ step \notin {"free", "spawn_a", "spawn_b", "drive"} => {1, 2} \subseteq exited
    /\ step \in {"spawn_a", "spawn_b", "drive", "create", "skipped"} => nextPid = 1
    /\ step \in {"spawn_user", "drive_user", "drain", "end"} => nextPid = 2
    /\ step \in {"drive_user", "drain", "end"} => Hosts(1) # {} \/ pc = "oom"
    /\ step \in {"create", "spawn_user", "drain", "skipped"} => Quiet
    /\ step = "end" => LastYield

\* A step of another thread or inside the scheduler.
LEMMA OtherStep ==
    ASSUME StepInv, UNCHANGED <<step, nextId, process, nextPid>>,
           exited \subseteq exited', pc = "oom" => pc' = "oom",
           Quiet => Quiet', LastYield => LastYield'
    PROVE  StepInv'
  <1>1. Hosts(1)' = Hosts(1)
    BY DEF Hosts
  <1>2. QED
    BY <1>1, Zenon DEF StepInv

\* A user thread is not the boot thread.
LEMMA UserIsNotBoot ==
    ASSUME Tag(current) # KERNEL
    PROVE  current # BOOTSTRAP_ID
  BY Zenon DEF Tag

\* With the ready queue empty every spawned thread has exited.
LEMMA EmptyQueue ==
    ASSUME IInv, current = BOOTSTRAP_ID, ready = <<>>
    PROVE  1 .. nextId - 1 \subseteq exited
  <1>1. Range(ready) = {}
    BY DEF Range
  <1>2. Runnable \subseteq {BOOTSTRAP_ID}
    BY <1>1, Zenon DEF IInv, NoThreadLost
  <1>3. \A t \in 1 .. nextId - 1 : t # BOOTSTRAP_ID
    BY DEF IInv, TypeOK, BOOTSTRAP_ID
  <1>4. QED
    BY <1>2, <1>3, Zenon DEF Runnable

\* The boot program's position goes with what it has done.
LEMMA StepInvStep ==
    ASSUME UInv, StepInv, DemoNext
    PROVE  StepInv'
  <1>0. IInv /\ PidInv
    BY Zenon DEF UInv
  <1>1. CASE SpawnWorker
    <2>1. PICK p \in Processes : Spawn(p) /\ UNCHANGED userVars
      BY <1>1, ThreadsAssumption, Zenon DEF SpawnWorker, KernelSpawn
    <2>2. nextId' = nextId + 1 \/ pc' = "oom"
      BY <1>0, <2>1, SpawnTags, Zenon
    <2>3. UNCHANGED <<nextPid, exited>>
      BY <2>1, Zenon DEF userVars, procVars, Spawn
    <2>4. CASE step = "spawn_a"
      BY <1>1, <2>2, <2>3, <2>4 DEF SpawnWorker, StepInv
    <2>5. CASE step = "spawn_b"
      <3>1. nextId = 2
        BY <1>1, <2>5, Zenon DEF SpawnWorker, OnBoot, InKernel, StepInv
      <3>2. QED
        BY <1>1, <2>2, <2>3, <2>5, <3>1 DEF SpawnWorker, StepInv
    <2>6. QED
      BY <1>1, <2>4, <2>5, Zenon DEF SpawnWorker
  <1>2. CASE Drive
    <2>1. pc = "run" /\ step \in {"drive", "drive_user"} /\ ready # <<>>
      BY <1>2 DEF Drive, OnBoot, InKernel, LoopGoesOn, ready_count
    <2>2. UNCHANGED <<step, nextId, process, nextPid, exited>>
      BY <1>2, Zenon DEF Drive, KernelCalls, DrainReaper, userVars, procVars
    <2>3. QED
      BY <2>1, <2>2, OtherStep, Zenon DEF Quiet, LastYield
  <1>3. CASE DriveEnds
    <2>1. /\ pc = "run" /\ current = BOOTSTRAP_ID
          /\ step \in {"drive", "drive_user"} /\ ~ (Len(ready) > 0)
          /\ step' = IF step = "drive" THEN "create" ELSE "drain"
      BY <1>3, Zenon DEF DriveEnds, OnBoot, InKernel, LoopGoesOn, ready_count, AfterDrive
    <2>2. ready = <<>>
      <3>1. ready \in Seq(Runner)
        BY <1>0, Zenon DEF IInv, TypeOK
      <3>2. ready # <<>> => Len(ready) \in Nat \ {0}
        BY <3>1, EmptySeq, Zenon
      <3>3. QED
        BY <2>1, <3>2
    <2>3. UNCHANGED <<pc, current, ready, exited, nextId, nextPid, process>>
      BY <1>3, Zenon DEF DriveEnds, allVars, vars, userVars, procVars
    <2>4. Quiet' /\ Hosts(1)' = Hosts(1)
      BY <2>1, <2>2, <2>3, Zenon DEF Quiet, Hosts
    <2>5. CASE step = "drive"
      <3>1. nextId = 3
        BY <2>1, <2>5, Zenon DEF StepInv
      <3>2. {1, 2} \subseteq 1 .. nextId - 1
        BY <3>1
      <3>3. {1, 2} \subseteq exited
        BY <1>0, <2>1, <2>2, <3>2, EmptyQueue, Zenon
      <3>4. nextPid = 1 /\ step' = "create"
        BY <2>1, <2>5, Zenon DEF StepInv
      <3>5. QED
        BY <2>3, <2>4, <3>3, <3>4, Zenon DEF StepInv
    <2>6. CASE step = "drive_user"
      <3>1. step' = "drain" /\ nextPid = 2 /\ {1, 2} \subseteq exited /\ Hosts(1) # {}
        BY <2>1, <2>6, Zenon DEF StepInv
      <3>2. QED
        BY <2>3, <2>4, <3>1, Zenon DEF StepInv
    <2>7. QED
      BY <2>1, <2>5, <2>6, Zenon
  <1>4. CASE CreateDemoProcess
    <2>1. step = "create" /\ {1, 2} \subseteq exited /\ nextPid = 1 /\ Quiet
      BY <1>4, Zenon DEF CreateDemoProcess, StepInv
    <2>2. UNCHANGED <<pc, current, ready, exited>>
      BY <1>4, Zenon DEF CreateDemoProcess, CreateProcess, vars
    <2>3. nextPid' \in {1, 2} /\ step' = IF nextPid' # nextPid THEN "spawn_user" ELSE "skipped"
      BY <1>4, <2>1 DEF CreateDemoProcess, CreateProcess, ProcessCreate, procVars
    <2>4. Quiet'
      BY <2>1, <2>2, Zenon DEF Quiet
    <2>5. QED
      BY <2>1, <2>2, <2>3, <2>4, Zenon DEF StepInv
  <1>5. CASE SpawnDemoThread
    <2>1. step = "spawn_user" /\ {1, 2} \subseteq exited /\ nextPid = 2 /\ step' = "drive_user"
      BY <1>5, Zenon DEF SpawnDemoThread, StepInv
    <2>2. 1 \in Processes /\ Spawn(1) /\ UNCHANGED userVars
      BY <1>0, <1>5, <2>1 DEF SpawnDemoThread, SpawnUserThread, PidInv
    <2>3. nextPid' = nextPid /\ exited' = exited
      BY <2>2, Zenon DEF userVars, procVars, Spawn
    <2>4. Hosts(1)' # {} \/ pc' = "oom"
      BY <1>0, <2>2, SpawnTags, Zenon DEF Hosts
    <2>5. QED
      BY <2>1, <2>3, <2>4, Zenon DEF StepInv
  <1>6. CASE Drain
    <2>1. /\ step = "drain" /\ {1, 2} \subseteq exited /\ nextPid = 2 /\ Quiet
          /\ Hosts(1) # {} /\ step' = "end"
      BY <1>6, Zenon DEF Drain, StepInv, Quiet
    <2>2. LastYield'
      BY <1>6, <2>1, Zenon DEF Drain, KernelCalls, DrainReaper, Quiet, LastYield
    <2>3. UNCHANGED <<nextId, process, nextPid, exited>>
      BY <1>6, Zenon DEF Drain, KernelCalls, DrainReaper, userVars, procVars
    <2>4. Hosts(1)' = Hosts(1)
      BY <2>3, Zenon DEF Hosts
    <2>5. QED
      BY <2>1, <2>2, <2>3, <2>4, Zenon DEF StepInv
  <1>7. CASE InExecutor
    BY <1>7, OtherStep, Zenon DEF InExecutor, demoVars, allVars, vars, userVars, procVars,
                           Quiet, LastYield
  <1>8. ASSUME NEW t \in ThreadId, NEW c \in {"yield", "exit"}, WorkerCalls(t, c)
        PROVE  StepInv'
    <2>1. pc = "run" /\ current # BOOTSTRAP_ID
      BY <1>8 DEF WorkerCalls, KernelCalls, InKernel, ThreadId, BOOTSTRAP_ID
    <2>2. UNCHANGED <<step, nextId, process, nextPid, exited>>
      BY <1>8, Zenon DEF WorkerCalls, KernelCalls, DrainReaper, userVars, procVars
    <2>3. QED
      BY <2>1, <2>2, OtherStep, Zenon DEF Quiet, LastYield
  <1>9. CASE UserStep
    <2>1. pc = "run" /\ current # BOOTSTRAP_ID
      BY <1>9, UserIsNotBoot, Zenon DEF UserStep, UserThreadEntry, SysYield, TrapAndReturn,
                                 SysReturn, Trap, InUserThread
    <2>2. UNCHANGED <<step, nextId, process, nextPid, exited>>
      BY <1>9, Zenon DEF UserStep, UserThreadEntry, SysYield, TrapAndReturn, SysReturn,
                  DrainReaper, vars, procVars
    <2>3. QED
      BY <2>1, <2>2, OtherStep, Zenon DEF Quiet, LastYield
  <1>10. CASE UserEnds
    <2>1. pc = "run" /\ current # BOOTSTRAP_ID
      BY <1>10, UserIsNotBoot, Zenon DEF UserEnds, SysExit, RingThreeFault, Trap, InUserThread
    <2>2. UNCHANGED <<step, nextId, process, nextPid, exited>>
      BY <1>10, Zenon DEF UserEnds, SysExit, RingThreeFault, kill_faulting_process, ProcessExit,
                   DrainReaper, vars, procVars
    <2>3. QED
      BY <2>1, <2>2, OtherStep DEF Quiet, LastYield
  <1>11. CASE SystemStep
    <2>1. CASE SchedulerStep
      <3>1. UNCHANGED <<step, nextId, process, nextPid>> /\ exited \subseteq exited'
        BY <1>11, <2>1, Zenon DEF SystemStep, SchedulerStep, DropReaped, YieldSelect, ExitSelect,
                           SwitchContext, userVars, procVars
      <3>2. pc \in {"drop", "select", "switch"}
        BY <2>1, Zenon DEF SchedulerStep, DropReaped, YieldSelect, ExitSelect, SwitchContext
      <3>3. LastYield => LastYield'
        BY <2>1, Zenon DEF SchedulerStep, DropReaped, YieldSelect, ExitSelect, SwitchContext, LastYield
      <3>4. QED
        BY <3>1, <3>2, <3>3, OtherStep, SMTT(30) DEF Quiet
    <2>2. CASE Halted
      BY <1>11, <2>2, OtherStep, Zenon DEF SystemStep, Halted, allVars, vars, userVars, procVars,
                                    Quiet, LastYield
    <2>3. QED
      BY <1>11, <2>1, <2>2, Zenon DEF SystemStep
  <1>12. CASE FreeStep
    BY <1>12 DEF FreeStep, StepInv
  <1>13. QED
    BY <1>1, <1>2, <1>3, <1>4, <1>5, <1>6, <1>7, <1>8, <1>9, <1>10, <1>11, <1>12, ZenonT(30)
    DEF DemoNext

\* The demos leave no thread, process or stack behind, in whatever order the
\* threads yield, exit and fault, for any number of frames and stacks.
THEOREM DemosAreClean == DemoSpec => []DemosLeaveNothing
  <1>1. DemoInit => StepInv
    BY Zenon DEF DemoInit, UserInit, Init, StepInv
  <1>2. UInv /\ StepInv /\ [DemoNext]_demoVars => StepInv'
    <2> SUFFICES ASSUME UInv, StepInv, [DemoNext]_demoVars PROVE StepInv'
      OBVIOUS
    <2>1. CASE DemoNext
      BY <2>1, StepInvStep, Zenon
    <2>2. CASE UNCHANGED demoVars
      BY <2>2, OtherStep, Zenon DEF demoVars, allVars, vars, userVars, procVars, Quiet, LastYield
    <2>3. QED
      BY <2>1, <2>2, Zenon
  <1>3. UInv /\ StepInv => DemosLeaveNothing
    <2> SUFFICES ASSUME UInv, StepInv PROVE DemosLeaveNothing
      BY Zenon
    <2>1. step \notin {"free", "spawn_a", "spawn_b", "drive"} => {1, 2} \subseteq exited
      BY Zenon DEF StepInv
    <2>2. ASSUME Finished
          PROVE  /\ threads = {} /\ ready = <<>> /\ registry = {} /\ procAlive = 0
                 /\ step = "end" => Boxes = {} /\ alive = 0
      <3>1. pc = "run" /\ current = BOOTSTRAP_ID /\ step \in {"end", "skipped"}
        BY <2>2, Zenon DEF Finished, OnBoot, InKernel
      <3>2. ready = <<>> /\ (step = "end" => reaper = None)
        BY <3>1, Zenon DEF StepInv, Quiet, LastYield
      <3>3. 1 .. nextId - 1 \subseteq exited
        BY <3>1, <3>2, EmptyQueue, Zenon DEF UInv
      <3>4. threads = {}
        BY <3>3, Zenon DEF UInv, IInv, BoxInv
      <3>5. registry = {}
        <4>1. CASE nextPid = 1
          BY <4>1 DEF UInv, PidInv
        <4>2. CASE nextPid = 2 /\ Hosts(1) # {}
          <5>1. \E t \in Hosts(1) : Leaving(t)
            BY <3>3, <4>2, Zenon DEF Hosts, Leaving
          <5>2. 1 \notin registry
            BY <5>1, Zenon DEF UInv, RegisteredUntilHostLeaves
          <5>3. \A pid \in registry : pid = 1
            BY <4>2 DEF UInv, PidInv
          <5>4. QED
            BY <5>2, <5>3, Zenon
        <4>3. QED
          BY <3>1, <4>1, <4>2, Zenon DEF StepInv
      <3>6. procAlive = 0
        BY <3>5, FS_EmptySet, Zenon DEF UInv, RegisteredUntilHostLeaves
      <3>7. step = "end" => Boxes = {} /\ alive = 0
        <4>1. toDrop = None /\ alive = Cardinality(Boxes)
          BY <3>1, Zenon DEF UInv, IInv, BoxInv, CountInv
        <4>2. step = "end" => Boxes = {}
          BY <3>2, <3>4, <4>1, Zenon DEF Boxes
        <4>3. QED
          BY <4>1, <4>2, FS_EmptySet, Zenon
      <3>8. QED
        BY <3>2, <3>4, <3>5, <3>6, <3>7, Zenon
    <2>3. QED
      BY <2>1, <2>2, Zenon DEF DemosLeaveNothing
  <1>4. QED
    BY <1>1, <1>2, <1>3, DemosImplementUserland, PTL DEF DemoSpec

-----------------------------------------------------------------------------

\* With one thread per process a tag names its thread.
OneHost ==
    \A t, u \in 1 .. nextId - 1 :
       process[t] = process[u] /\ process[t] # KERNEL => t = u

\* spawn_user_thread is the only step that adds a host, for a process without.
LEMMA OneHostStep ==
    ASSUME MaxHosts \in {0, 1}, UInv, OneHost, UserNext
    PROVE  OneHost'
  <1>1. ASSUME NEW p \in Processes, Spawn(p),
               p # KERNEL => \A t \in 1 .. nextId - 1 : process[t] # p
        PROVE  OneHost'
    <2>1. CASE nextId' = nextId /\ process' = process
      BY <2>1, Zenon DEF OneHost
    <2>2. CASE /\ 1 .. nextId' - 1 = (1 .. nextId - 1) \cup {nextId}
               /\ process'[nextId] = p
               /\ \A t \in 1 .. nextId - 1 : process'[t] = process[t]
      <3>1. SUFFICES ASSUME NEW t \in (1 .. nextId - 1) \cup {nextId},
                            NEW u \in (1 .. nextId - 1) \cup {nextId},
                            process'[t] = process'[u], process'[t] # KERNEL
                     PROVE  t = u
        BY <2>2, Zenon DEF OneHost
      <3>2. CASE t \in 1 .. nextId - 1 /\ u \in 1 .. nextId - 1
        BY <2>2, <3>1, <3>2, Zenon DEF OneHost
      <3>3. QED
        BY <1>1, <2>2, <3>1, <3>2, Zenon
    <2>3. QED
      BY <1>1, <2>1, <2>2, SpawnTags, Zenon DEF UInv
  <1>2. CASE KernelSpawn
    BY <1>1, <1>2, ThreadsAssumption, Zenon DEF KernelSpawn
  <1>3. ASSUME NEW pid \in Processes, SpawnUserThread(pid) PROVE OneHost'
    <2>1. IsFiniteSet(Hosts(pid))
      <3>1. nextId - 1 \in Int /\ 1 \in Int
        BY DEF UInv, IInv, TypeOK
      <3>2. IsFiniteSet(1 .. nextId - 1)
        BY <3>1, FS_Interval, Zenon
      <3>3. Hosts(pid) \in SUBSET (1 .. nextId - 1)
        BY Zenon DEF Hosts
      <3>4. QED
        BY <3>2, <3>3, FS_Subset, Zenon
    <2>2. Cardinality(Hosts(pid)) \in Nat /\ Cardinality(Hosts(pid)) < MaxHosts
      BY <1>3, <2>1, FS_CardinalityType, Zenon DEF SpawnUserThread
    <2>3. Cardinality(Hosts(pid)) = 0
      BY <2>2
    <2>4. Hosts(pid) = {}
      BY <2>1, <2>3, FS_EmptySet, Zenon
    <2>5. \A t \in 1 .. nextId - 1 : process[t] # pid
      BY <2>4, Zenon DEF Hosts
    <2>6. QED
      BY <1>1, <1>3, <2>5, Zenon DEF SpawnUserThread
  <1>4. ASSUME UNCHANGED <<nextId, process>> PROVE OneHost'
    BY <1>4, Zenon DEF OneHost
  <1>5. ASSUME NEW c \in {"yield", "exit"}, KernelCalls(c) PROVE OneHost'
    BY <1>4, <1>5, Zenon DEF KernelCalls, DrainReaper, userVars
  <1>6. CASE SchedulerStep
    BY <1>4, <1>6, Zenon DEF SchedulerStep, DropReaped, YieldSelect, ExitSelect, SwitchContext,
                      userVars
  <1>7. CASE CreateProcess
    BY <1>4, <1>7, Zenon DEF CreateProcess, vars
  <1>8. CASE UserThreadEntry
    BY <1>4, <1>8, Zenon DEF UserThreadEntry, vars
  <1>9. CASE SysYield
    BY <1>4, <1>9, Zenon DEF SysYield, DrainReaper
  <1>10. CASE SysExit
    BY <1>4, <1>10, Zenon DEF SysExit, DrainReaper
  <1>11. CASE RingThreeFault
    BY <1>4, <1>11, Zenon DEF RingThreeFault, kill_faulting_process, DrainReaper, vars
  <1>12. CASE TrapAndReturn
    BY <1>4, <1>12, Zenon DEF TrapAndReturn, vars
  <1>13. CASE SysReturn
    BY <1>4, <1>13, Zenon DEF SysReturn, vars
  <1>14. CASE SysWriteFaults
    BY <1>4, <1>14, Zenon DEF SysWriteFaults, vars
  <1>15. CASE SysReturnLost
    BY <1>4, <1>15, Zenon DEF SysReturnLost, vars
  <1>16. CASE Halted
    BY <1>4, <1>16, Zenon DEF Halted, allVars, vars
  <1>17. QED
    BY <1>2, <1>3, <1>5, <1>6, <1>7, <1>8, <1>9, <1>10, <1>11, <1>12, <1>13, <1>14, <1>15,
       <1>16, ZenonT(30)
    DEF UserNext

\* With at most one thread per process it stays so.
LEMMA OneHostAlways ==
    ASSUME MaxHosts \in {0, 1}
    PROVE  UserSpec => []OneHost
  <1>1. UserInit => OneHost
    BY DEF UserInit, Init, OneHost
  <1>2. UInv /\ OneHost /\ [UserNext]_allVars => OneHost'
    <2> SUFFICES ASSUME UInv, OneHost, [UserNext]_allVars PROVE OneHost'
      BY Zenon
    <2>1. CASE UserNext
      BY <2>1, OneHostStep, Zenon
    <2>2. CASE UNCHANGED allVars
      BY <2>2, Zenon DEF allVars, vars, userVars, OneHost
    <2>3. QED
      BY <2>1, <2>2, Zenon
  <1>3. QED
    BY <1>1, <1>2, UserInvariance, PTL DEF UserSpec

\* Only user threads trap, and the last to do so is the only one still inside.
EntryInv ==
    /\ \A t \in trapped : entryFrame = t
    /\ \A t \in trapped \cup ({entryFrame} \ {None}) :
          t \in 1 .. nextId - 1 /\ process[t] # KERNEL

\* One process per boot and one thread per process: one user thread.
LEMMA OneUserThread ==
    ASSUME UInv, OneHost, NEW t \in 1 .. nextId - 1, NEW u \in 1 .. nextId - 1,
           process[t] # KERNEL, process[u] # KERNEL
    PROVE  t = u
  <1>1. nextPid \in {1, 2}
    BY DEF UInv, PidInv
  <1>2. process[t] \in 0 .. nextPid - 1 /\ process[u] \in 0 .. nextPid - 1
    BY Zenon DEF UInv, PidInv
  <1>3. process[t] = 1 /\ process[u] = 1
    BY <1>1, <1>2 DEF KERNEL
  <1>4. QED
    BY <1>3, Zenon DEF OneHost

\* A trap overwrites the frame at the top of the entry stack; the frame that was
\* there is of the same thread.
LEMMA EntryStep ==
    ASSUME UInv, OneHost, EntryInv, UserNext
    PROVE  EntryInv'
  <1>1. ASSUME NEW p \in Processes, Spawn(p), UNCHANGED userVars PROVE EntryInv'
    <2>1. UNCHANGED <<trapped, entryFrame>>
      BY <1>1, Zenon DEF userVars, cpuVars
    <2>2. \A t \in 1 .. nextId - 1 : t \in 1 .. nextId' - 1 /\ process'[t] = process[t]
      BY <1>1, SpawnTags, Zenon DEF UInv
    <2>3. QED
      BY <2>1, <2>2, Zenon DEF EntryInv
  <1>2. ASSUME UNCHANGED <<nextId, process, entryFrame>>, trapped' \subseteq trapped
        PROVE  EntryInv'
    BY <1>2, Zenon DEF EntryInv
  <1>3. ASSUME InUserThread, UNCHANGED <<nextId, process>>, entryFrame' = current,
               trapped' \subseteq trapped \cup {current}
        PROVE  EntryInv'
    <2>1. current \in 1 .. nextId - 1 /\ process[current] # KERNEL
      BY <1>3, LookedUpTag, Zenon DEF UInv, InUserThread, Tag
    <2>2. \A t \in trapped : t \in 1 .. nextId - 1 /\ process[t] # KERNEL
      BY Zenon DEF EntryInv
    <2>3. \A t \in trapped : t = current
      BY <2>1, <2>2, OneUserThread, Zenon
    <2>4. QED
      BY <1>3, <2>1, <2>3, Zenon DEF EntryInv
  <1>4. CASE KernelSpawn
    BY <1>1, <1>4, ThreadsAssumption, Zenon DEF KernelSpawn
  <1>5. ASSUME NEW pid \in Processes, SpawnUserThread(pid) PROVE EntryInv'
    BY <1>1, <1>5, Zenon DEF SpawnUserThread
  <1>6. ASSUME NEW c \in {"yield", "exit"}, KernelCalls(c) PROVE EntryInv'
    BY <1>2, <1>6, Zenon DEF KernelCalls, DrainReaper, userVars, cpuVars
  <1>7. CASE SchedulerStep
    BY <1>2, <1>7, Zenon DEF SchedulerStep, DropReaped, YieldSelect, ExitSelect, SwitchContext,
                      userVars, cpuVars
  <1>8. CASE CreateProcess
    BY <1>2, <1>8, Zenon DEF CreateProcess, vars, cpuVars
  <1>9. CASE UserThreadEntry
    BY <1>2, <1>9, Zenon DEF UserThreadEntry, vars
  <1>10. CASE SysYield
    BY <1>3, <1>10, Zenon DEF SysYield, Trap, DrainReaper
  <1>11. CASE SysExit
    BY <1>3, <1>11, Zenon DEF SysExit, Trap, DrainReaper
  <1>12. CASE RingThreeFault
    BY <1>3, <1>12, Zenon DEF RingThreeFault, Trap, kill_faulting_process, DrainReaper, vars
  <1>13. CASE TrapAndReturn
    BY <1>3, <1>13, Zenon DEF TrapAndReturn, vars
  <1>14. CASE SysReturn
    BY <1>2, <1>14, Zenon DEF SysReturn, vars
  <1>15. CASE SysWriteFaults
    BY <1>3, <1>15, Zenon DEF SysWriteFaults, Trap, vars
  <1>16. CASE SysReturnLost
    BY <1>2, <1>16, Zenon DEF SysReturnLost, vars, cpuVars
  <1>17. CASE Halted
    BY <1>2, <1>17, Zenon DEF Halted, allVars, vars, userVars, cpuVars
  <1>18. QED
    BY <1>4, <1>5, <1>6, <1>7, <1>8, <1>9, <1>10, <1>11, <1>12, <1>13, <1>14, <1>15, <1>16,
       <1>17, ZenonT(30)
    DEF UserNext

\* With one thread per process, as the kernel uses them, a thread that yields in
\* a system call finds its own frame on the shared entry stack when it comes
\* back: what goes wrong with two threads of a process goes wrong only then.
THEOREM EntryFrameSafety ==
    ASSUME MaxHosts \in {0, 1}
    PROVE  UserSpec => []EntryFrameIntact
  <1>1. UserInit => EntryInv
    BY DEF UserInit, EntryInv
  <1>2. UInv /\ OneHost /\ EntryInv /\ [UserNext]_allVars => EntryInv'
    <2> SUFFICES ASSUME UInv, OneHost, EntryInv, [UserNext]_allVars PROVE EntryInv'
      OBVIOUS
    <2>1. CASE UserNext
      BY <2>1, EntryStep, Zenon
    <2>2. CASE UNCHANGED allVars
      BY <2>2, Zenon DEF allVars, vars, userVars, cpuVars, EntryInv
    <2>3. QED
      BY <2>1, <2>2, Zenon
  <1>3. EntryInv => EntryFrameIntact
    BY DEF EntryInv, EntryFrameIntact
  <1>4. QED
    BY <1>1, <1>2, <1>3, UserInvariance, OneHostAlways, PTL DEF UserSpec

=============================================================================

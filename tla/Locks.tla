-------------------------------- MODULE Locks --------------------------------
(***************************************************************************)
(* The spin locks of the kernel and who takes them in which order.  There  *)
(* is one CPU: a main flow (the boot thread, a kernel thread or a trap     *)
(* from ring 3) and, on top of it, at most one interrupt handler.  A flow  *)
(* that spins on a lock the other one holds spins for ever.                *)
(*                                                                         *)
(* A function of the code is the sequence of the steps it takes that other *)
(* flows can tell apart: the interrupt flag, locks, lazy initialisation,   *)
(* output and panics.  An interrupt can fall between any two of them.      *)
(***************************************************************************)
EXTENDS Naturals, Sequences, FiniteSets

CONSTANTS
    TICK_LOG_INTERVAL,
    MaxCalls,       \* bound: functions the main flow calls
    MaxInterrupts   \* bound: interrupts

ASSUME LocksAssumption ==
    /\ TICK_LOG_INTERVAL \in Nat \ {0}
    /\ MaxCalls \in Nat /\ MaxInterrupts \in Nat

\* The mutexes, and the two that sit in a lazy_static.
Statics == {"WRITER", "SERIAL1"}
Mutex == Statics \cup {"THREADS", "processes", "ALLOCATOR", "PICS"}

Flow == {"main", "irq"}
Free == "free"

VARIABLES
    todo,        \* what each flow has still to do
    holder,      \* per mutex, the flow that holds it
    ready,       \* lazy statics that are initialised
    forcing,     \* per static, the flow that is initialising it
    IF_,         \* the CPU's interrupt flag
    saved,       \* flags to restore, innermost last
    tick_count,
    interrupts,  \* interrupts so far
    calls,       \* calls of the main flow so far
    lost         \* DROPPED_MESSAGES, by the flow that logged

lockVars == <<todo, holder, ready, forcing, IF_, saved, tick_count, interrupts, calls, lost>>

-----------------------------------------------------------------------------
(* The code, function by function.                                         *)

Step(what, on) == [do |-> what, on |-> on]

without_interrupts(body) == <<Step("cli", "cpu")>> \o body \o <<Step("sti", "cpu")>>

locked(l, body) == <<Step("lock", l)>> \o body \o <<Step("unlock", l)>>

\* The first use of a lazy_static initialises it.
deref(l) == <<Step("force", l)>>

MayPanic == <<Step("panic?", "cpu")>>

\* A plausible slip: interrupts stay on while the writer is locked.
_printUnmasked == deref("WRITER") \o locked("WRITER", <<Step("print", "WRITER")>>)

\* vga_buffer::_print, which the panic handler uses too.
_print ==
    without_interrupts(deref("WRITER") \o locked("WRITER", <<Step("print", "WRITER")>>))

set_color ==
    without_interrupts(deref("WRITER") \o locked("WRITER", <<Step("color", "WRITER")>>))

\* What one message is on the wire: an interrupt can fall inside it.
Message == <<Step("put", "SERIAL1"), Step("put", "SERIAL1")>>

\* serial::_print.
serial_print == without_interrupts(deref("SERIAL1") \o locked("SERIAL1", Message))

\* A plausible slip: a logger that waits for the port.
_logBlocking == deref("SERIAL1") \o locked("SERIAL1", Message)

\* A plausible slip: a logger that writes without the port's lock.
_logUnlocked == deref("SERIAL1") \o Message

\* logger::_log and _print: interrupts stay as they are.
_log == deref("SERIAL1") \o <<Step("try", "SERIAL1")>>

\* A call of the global allocator; stats takes the same lock.
alloc == locked("ALLOCATOR", <<>>)
stats == locked("ALLOCATOR", <<>>)

\* thread::spawn allocates under the lock, and panics when it cannot.
spawn == locked("THREADS", alloc \o MayPanic)

\* current_process, current_id, ready_count and thread_count.
lookup == locked("THREADS", <<>>)

drain_reaper == without_interrupts(locked("THREADS", <<>>)) \o alloc

yield_now == drain_reaper \o without_interrupts(locked("THREADS", <<>>))

\* exit_thread removes from the thread map, and panics without a next thread.
exit_thread == drain_reaper \o without_interrupts(locked("THREADS", alloc \o MayPanic))

\* The process service: a change of the map allocates or frees.
register == locked("processes", alloc)
exit_process == locked("processes", alloc)
snapshot == locked("processes", <<>>)

\* The panic handler ends in hlt_loop.
panic == _print \o <<Step("hlt", "cpu")>>

\* A plausible slip: nothing is logged before interrupts are on.
initSilent == locked("PICS", <<>>) \o <<Step("enable", "cpu")>>

\* lib::init after kernel_main's first message, before interrupts are on.
init == _log \o locked("PICS", <<>>) \o <<Step("enable", "cpu")>>

\* Traps from ring 3, which run with interrupts off.
syscall_dispatch(body) == lookup \o body
sys_exit == _log \o exit_process \o exit_thread
kill_faulting_process == lookup \o _log \o exit_process \o exit_thread
page_fault_handler(ring3) == _print \o (IF ring3 THEN kill_faulting_process ELSE panic)

\* The console service prints byte by byte, and reading a byte may page-fault in
\* ring 0, outside the lock.
sys_write == _print \o _print
sys_write_faults == _print \o page_fault_handler(FALSE)

\* Scheduler::tick as the n-th one.
tick(n) == IF n % TICK_LOG_INTERVAL = 0 THEN _log ELSE <<>>

\* The end of both handlers.
notify_end_of_interrupt == locked("PICS", <<>>) \o <<Step("iret", "cpu")>>

timer_interrupt_handler(n) == tick(n) \o notify_end_of_interrupt

\* add_scancode queues the scancode and wakes the task without a lock, or logs
\* that it dropped it; a wake that finds the ready queue full panics.
add_scancode(outcome) ==
    CASE outcome = "queued"  -> <<>>
      [] outcome = "dropped" -> _log
      [] outcome = "full"    -> panic

keyboard_interrupt_handler(outcome) == add_scancode(outcome) \o notify_end_of_interrupt

\* What kernel code calls, with interrupts on or off, and what a trap runs.
KernelCode ==
    {_log, _print, set_color, serial_print, alloc, stats, spawn, lookup, yield_now,
     exit_thread, register, exit_process, snapshot}
SysRead == <<>>
Unknown == _log
TrapCode ==
    {syscall_dispatch(body) :
        body \in {sys_exit, sys_write, sys_write_faults, SysRead, yield_now, Unknown}}
    \cup {page_fault_handler(TRUE)}

-----------------------------------------------------------------------------
(* The CPU.                                                                *)

LockInit ==
    /\ todo = [main |-> init, irq |-> <<>>]
    /\ holder = [l \in Mutex |-> Free]
    /\ ready = {}
    /\ forcing = [l \in Statics |-> Free]
    /\ IF_ = FALSE
    /\ saved = <<>>
    /\ tick_count = 0 /\ interrupts = 0 /\ calls = 0
    /\ lost = [f \in Flow |-> 0]

active == IF todo["irq"] # <<>> THEN "irq" ELSE "main"
Idle == todo["main"] = <<>> /\ todo["irq"] = <<>>
Now == Head(todo[active])
At(what) == todo[active] # <<>> /\ Now.do = what
Goes(code) == todo' = [todo EXCEPT ![active] = code]
Advance == Goes(Tail(todo[active]))

Cli ==
    /\ At("cli")
    /\ saved' = Append(saved, IF_)
    /\ IF_' = FALSE
    /\ Advance
    /\ UNCHANGED <<holder, ready, forcing, tick_count, interrupts, calls, lost>>

Sti ==
    /\ At("sti")
    /\ IF_' = saved[Len(saved)]
    /\ saved' = SubSeq(saved, 1, Len(saved) - 1)
    /\ Advance
    /\ UNCHANGED <<holder, ready, forcing, tick_count, interrupts, calls, lost>>

\* spin::Mutex::lock, once the mutex is free.
Lock ==
    /\ At("lock")
    /\ holder[Now.on] = Free
    /\ holder' = [holder EXCEPT ![Now.on] = active]
    /\ Advance
    /\ UNCHANGED <<ready, forcing, IF_, saved, tick_count, interrupts, calls, lost>>

Unlock ==
    /\ At("unlock")
    /\ holder' = [holder EXCEPT ![Now.on] = Free]
    /\ Advance
    /\ UNCHANGED <<ready, forcing, IF_, saved, tick_count, interrupts, calls, lost>>

\* try_lock in the logger: write the message, or count it as dropped.
TryLock ==
    /\ At("try")
    /\ IF holder[Now.on] = Free
       THEN /\ holder' = [holder EXCEPT ![Now.on] = active]
            /\ Goes(Message \o <<Step("unlock", Now.on)>> \o Tail(todo[active]))
            /\ UNCHANGED lost
       ELSE /\ lost' = [lost EXCEPT ![active] = @ + 1]
            /\ Advance
            /\ UNCHANGED holder
    /\ UNCHANGED <<ready, forcing, IF_, saved, tick_count, interrupts, calls>>

\* A use of a lazy static: the first one initialises it, and until it has, any
\* other one spins.
UseStatic ==
    /\ At("force")
    /\ forcing[Now.on] = Free
    /\ IF Now.on \in ready
       THEN Advance /\ UNCHANGED forcing
       ELSE /\ forcing' = [forcing EXCEPT ![Now.on] = active]
            /\ Goes(<<Step("forced", Now.on)>> \o Tail(todo[active]))
    /\ UNCHANGED <<holder, ready, IF_, saved, tick_count, interrupts, calls, lost>>

Forced ==
    /\ At("forced")
    /\ ready' = ready \cup {Now.on}
    /\ forcing' = [forcing EXCEPT ![Now.on] = Free]
    /\ Advance
    /\ UNCHANGED <<holder, IF_, saved, tick_count, interrupts, calls, lost>>

PanicOrGoOn ==
    /\ At("panic?")
    /\ Advance \/ Goes(panic)
    /\ UNCHANGED <<holder, ready, forcing, IF_, saved, tick_count, interrupts, calls, lost>>

\* sti at the end of init, iret at the end of a handler: interrupts are on.
Enable ==
    /\ At("enable") \/ At("iret")
    /\ IF_' = TRUE
    /\ Advance
    /\ UNCHANGED <<holder, ready, forcing, saved, tick_count, interrupts, calls, lost>>

Hlt ==
    /\ At("hlt")
    /\ UNCHANGED lockVars

\* A write to a device is a step of the module that models the device.
Write(what) ==
    /\ At(what)
    /\ Advance
    /\ UNCHANGED <<holder, ready, forcing, IF_, saved, tick_count, interrupts, calls, lost>>

Call(code) ==
    /\ Idle
    /\ calls < MaxCalls
    /\ calls' = calls + 1
    /\ Goes(code)
    /\ UNCHANGED <<holder, ready, forcing, IF_, saved, tick_count, interrupts, lost>>

\* From ring 3, through an interrupt gate.
Trap(code) ==
    /\ Idle
    /\ calls < MaxCalls
    /\ calls' = calls + 1
    /\ Goes(code)
    /\ IF_' = FALSE
    /\ UNCHANGED <<holder, ready, forcing, saved, tick_count, interrupts, lost>>

\* iretq to ring 3, or sleep_if_idle: interrupts are on again.
EnableAgain ==
    /\ Idle
    /\ ~ IF_
    /\ IF_' = TRUE
    /\ UNCHANGED <<todo, holder, ready, forcing, saved, tick_count, interrupts, calls, lost>>

\* The CPU accepts an interrupt between two steps and masks further ones.
Interrupt(handler) ==
    /\ IF_
    /\ interrupts < MaxInterrupts
    /\ interrupts' = interrupts + 1
    /\ IF_' = FALSE
    /\ todo' = [todo EXCEPT !["irq"] = handler \o @]
    /\ UNCHANGED <<holder, ready, forcing, saved, calls, lost>>

Timer ==
    /\ Interrupt(timer_interrupt_handler(tick_count + 1))
    /\ tick_count' = tick_count + 1

Keyboard(outcome) ==
    /\ Interrupt(keyboard_interrupt_handler(outcome))
    /\ UNCHANGED tick_count

LockNext ==
    \/ Cli \/ Sti \/ Lock \/ Unlock \/ TryLock \/ UseStatic \/ Forced
    \/ PanicOrGoOn \/ Enable \/ Hlt
    \/ \E code \in KernelCode : Call(code)
    \/ \E code \in TrapCode : Trap(code)
    \/ EnableAgain
    \/ Timer
    \/ \E outcome \in {"queued", "dropped", "full"} : Keyboard(outcome)
-----------------------------------------------------------------------------
\* No flow ever spins: whatever the interrupted code holds or initialises, and
\* although most locks are taken with interrupts on, neither a handler, nor a
\* nested call, nor the panic handler asks for a lock that is held ("must not
\* ... block, or take a service lock that a non-IRQ caller might already
\* hold", kernel/mod.rs).
NeverSpins ==
    /\ At("lock") => holder[Now.on] = Free
    /\ At("force") => forcing[Now.on] = Free
=============================================================================

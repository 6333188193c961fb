# apogee in TLA+

A verification development for the apogee kernel: TLA+ modules for the parts of
`src/` whose correctness depends on order, interleaving or arithmetic at a
boundary, TLC runs that check them on small instances, and TLAPS proofs for
every value of the constants. Paths below are relative to the repository;
`PROJECT.json` maps each definition to the lines it models.

## The system

apogee is a single-core x86-64 kernel. After boot one control flow (the *boot
thread*) exists; everything else is built on it.

| Part | State | Operations | What is hard about it |
|---|---|---|---|
| Kernel threads (`thread.rs`) | map of boxed threads, ready queue, current id, saved stack pointers, reaper slot | `spawn`, `yield_now`, `exit_thread`, `drain_reaper`, `switch_context` | a thread exits on the stack it owns; the choice of the next thread and the switch are two steps |
| Counters (`scheduler.rs`) | atomic counters | `note_*`, `tick` | counted late, by another thread |
| Executor (`task/executor.rs`) | task map, ready queue, waker cache | `spawn`, `run_ready_tasks`, `sleep_if_idle`, wake | interrupts between any two steps; bounded queue; check-then-halt |
| Keyboard (`task/keyboard.rs`) | two bounded queues, one `AtomicWaker` | `add_scancode` (interrupt), `poll_next`, `print_keypresses`, `read_byte` | lost wakeups around pop / register / pop / take |
| Interrupts (`interrupts.rs`) | interrupt flag, IDT | timer, keyboard, faults, `int 0x80` | run inside anything that has interrupts enabled |
| Allocators (`allocator/`) | cursor; free list; size-class lists | `init`, `alloc`, `dealloc`, `stats` | alignment padding, rounding, coalescing, two layers that must agree |
| Kernel requests (`kernel/`), processes (`process.rs`) | process registry | `Kernel::call` | who may do what; a process that ends before its thread starts |
| Ring 3 (`userland.rs`, `syscall.rs`, `gdt.rs`) | page mappings, shared entry stack | process creation, entry, system calls, faults | one entry stack and one interrupt flag for all threads |
| Frames and pages (`memory.rs`, `init_heap`) | cursor over memory regions, page tables | `allocate_frame`, `map_to` | seams between regions; running out halfway |
| Console, serial, logger | screen, port, their spin locks | print, log | locks an interrupt handler may want |
| Boot (`main.rs`, `lib.rs`, `demos.rs`) | the boot thread's position | set-up, the two demos, the executor | loops that wait for threads it cannot see |

Interactions: threads take their stacks from the heap and count in
`scheduler.rs`; the executor runs on the boot thread and is woken by the
keyboard interrupt through a waker; the waker is reference-counted on the heap,
whose spin lock no handler may take; user processes run on kernel threads and
are identified by the tag of the current thread. The heap's and the processes'
pages come from the one frame allocator. Everything logs and prints, so the
locks of the console and the port are shared by kernel code, traps, panics and
interrupt handlers.

## Modules

| Module | Models |
|---|---|
| `Threads` | `thread.rs` and the thread counters |
| `RoundRobin` | what the thread scheduler promises: a running thread and a first-in-first-out queue |
| `ThreadsRefinement` | the mapping under which `Threads` implements `RoundRobin` |
| `ThreadsProofs` | the inductive invariant of `Threads` and its theorems; that `Threads` implements `RoundRobin` |
| `Executor` | `task/executor.rs`, the task counters, the timer interrupt |
| `AsyncInput` | `task/keyboard.rs` and the keyboard interrupt, composed with `Executor` |
| `InputProofs` | the inductive invariant of `AsyncInput` and its theorems; the way of the key events |
| `HeapLayout`, `Heap` | bounds, layouts and `align_up`; the contract every allocator keeps |
| `FreeList` | the operators of `allocator/linkedlist.rs` on a list of regions |
| `LinkedList` | the free-list allocator on its own |
| `FixedSizeBlock`, `FixedSizeBlockProofs` | the global allocator: size classes over the free list; and its proofs |
| `Bump` | the bump allocator |
| `AllocatorLemmas` | what `align_up` and the operators of `FreeList` do, for the proofs of all three allocators |
| `AllocatorProofs` | the theorems about `Bump` and `LinkedList` |
| `Userland`, `UserlandProofs` | process creation, ring 3, system calls, faults and the process registry, on top of `Threads`; that it implements `Threads`, and the theorems about processes and the demos |
| `UserPages` | what one process creation does to page tables and free frames, in one step |
| `Demos` | `kernel_main`'s two demos up to the executor, on top of `Userland` |
| `Frames` | the frame allocator of `memory.rs` |
| `Paging`, `PagingProofs` | `create_example_mapping`, `init_heap` and process creation, frame by frame, on top of `Frames`; the theorems about both |
| `Locks` | the spin locks, lazy statics and interrupt flag, and which code takes what in which order |
| `Console` | the VGA writer |
| `Output`, `OutputProofs` | `Locks` composed with `Console` and the serial line; the theorems about locks, messages and the screen |
| `MC*` | instances for TLC |

**Threads.** A call of `yield_now` or `exit_thread` is four steps, because other
state is visible between them: `DrainReaper` takes the parked box under the
lock, `DropReaped` counts and frees it outside, `YieldSelect`/`ExitSelect`
choose the next thread under the lock, `SwitchContext` moves the CPU after the
lock is released. `stack` is the stack the CPU is really on; `context[t]` is the
stack the saved `rsp` of `t` points into, and `None` once that frame has been
used up. Register contents are not modelled. A panic is a state in which
the kernel stays; each assertion of the code has its own label. The heap is
`StackSlots` stacks; a `spawn` beyond that panics, as the allocation error
handler does. `spawn` does not drain the reaper, as in the code.

**Executor and AsyncInput.** The executor's loop is stepped at the points an
interrupt can tell apart; an interrupt handler is one step, since handlers run
with interrupts off on one core. `sleep_if_idle` is three steps, interrupts off,
the look at the queue, and `enable_and_hlt`, so what keeps a handler out of the
window between the look and the halt is the interrupt flag and not the model. A poll of an application task may wake itself,
read a byte, and return pending or ready. The keyboard task is stepped through
`ScancodeStream::new`, the first pop, the two halves of `AtomicWaker::register`,
the second pop, the two halves of `take`, and the decode. `AtomicWaker` is
external; its state word is modelled as its documented protocol. A scancode is
the number of its key event, so loss, reordering and duplication can be seen.
The decoder yields a byte or not, freely. The histories `dropped`, `silent` and
`overrun` say what became of an event that does not reach `read_byte`: dropped by
the handler, decoded to nothing, or its byte dropped at the full `KEY_QUEUE`.

**Allocators.** Addresses and sizes are bytes. `FreeList` has the list as the
sequence of its nodes: `add_free_region` inserts at the slot the walk stops at
and runs `coalesce` over the whole list, `find_region` unlinks the first region
that fits and puts the leftovers back. The list is paired with `ok`, whether
every debug assertion has held. Callers keep the contract: they free what they
hold, once, with the layout they asked for. The lock makes each call one step.

**Userland** extends `Threads` and takes its actions unchanged: a system call or
a fault is a trap joined with the `Threads` action it leads to, so the module
implements `Threads!Spec` (checked as `ImplementsThreads`) and everything proved
of `Threads` holds here. Added are the CPU's ring and interrupt flag, which
`switch_context` leaves alone, the one entry stack (`trapped`: who is inside a
trap; `entryFrame`: whose frame is at its top), the registry behind
`Kernel::call` with its caller check, and the mappings and frames that process
creation uses up. `create_process_from_program` is one step here (`UserPages`),
since nothing in it yields; each of its early returns leaves what it had done
before. That the first user page needs three page-table frames, and that mapping
a mapped page fails, is taken from the `x86_64` crate. The data of `sys_read`
and `sys_write` is left out; whether a buffer that `user_bytes` accepts is mapped
is a free choice, and if not the kernel's read of it faults in ring 0 and
`page_fault_handler` panics (`SysWriteFaults`). `fatal` says what has ended the
kernel in this layer: such a fault, a pid that is not registered when its thread
starts, a fault in ring 3 without a process, or a return to a frame that another
thread has overwritten (`SysReturnLost`). The last is not a panic of the code:
what runs then is whatever the other thread's frame says, and the model ends
there.

**Demos** gives the boot thread its program: spawn two workers, yield until the
ready queue is empty, create the process, spawn its thread, loop again, yield
once more, enter the executor. The other threads do as they like. The module
also allows a boot thread that calls anything (`step = "free"`), so that the
properties of `Userland` are not tied to one boot program.

**Frames.** `NextFrame` is `next_frame`; the loop over regions is the least
ordinal from the cursor on whose region has a frame left. Addresses are frame
numbers. The memory map is ascending, as the bootloader delivers it.

**Paging** takes one frame per step. `AllocateLeaf` is the code's own
`allocate_frame`, `CreateTable` and `SetEntry` are `map_to` going down: a frame
per missing table, then the entry. Whichever step finds no frame, the call ends
there: `kernel_main` panics, process creation returns an error and gives nothing
back. `CreateAsCounted` compares each process creation with the one step
`Userland` uses, so the two models agree.

**Locks.** A function of the code is the sequence of the steps another flow can
tell apart (interrupt flag, lock, unlock, lazy initialisation, output, panic),
written down by composing `without_interrupts`, `locked` and `deref` as the code
composes its calls. A small CPU interprets them: a main flow and, whenever
interrupts are on, a handler on top of it, between any two steps. The first
message of `kernel_main` initialises `SERIAL1` before interrupts are on; the
logger uses `try_lock`, everything that waits for the console or the port masks
interrupts. A message is two pieces, so a handler can fall into it.

**Console.** `write_byte` works on the screen and the column; the history
`lines` keeps the text as it was printed, for comparison.

## Runs

| Run | Result | Shows |
|---|---|---|
| `threads` | pass | `NoThreadLost`, `StacksOutliveUse`, `OnlyLastExitPanics`, `CountersExact`, `TagIsTheRunners`, the refinement of `RoundRobin`; a queued thread runs, an exited thread's stack is reclaimed |
| `input` | pass | no lost wakeup, no halt with work queued, events in order and once, and each accounted for up to `read_byte`, no free in the handler; an accepted scancode is decoded, a woken task polled |
| `input_full` | violation | the ready queue fills although it is larger than the number of tasks |
| `linked_list` | pass | canonical list with its assertions, nothing shared, bounded loss per call, contract |
| `linked_list_loss` | violation | lost fragments add up over a history of calls |
| `fixed_size_block` | pass | both layers disjoint, cached blocks fit their class, statistics sound, a refusal only without room in either layer, contract |
| `bump` | pass | nothing handed out twice, contract |
| `userland` | pass | a process is registered until one of its threads leaves and only with its pages mapped; ring 3 always has a process and interrupts on, and a thread misses its process only if another one ended it; `Threads` is implemented; the demos end and leave nothing behind |
| `userland_flag` | violation | a yield in a system call resumes kernel code with interrupts off |
| `userland_frames` | violation | two user threads overwrite each other's trap frame |
| `paging` | pass | every usable frame once, ascending, `None` only at the end; no frame in two roles; the heap is used only when mapped; failed creations keep what was counted |
| `output` | pass | no flow asks for a held lock; messages whole; the screen is the tail of the output |

Bounds, and why they are enough:

- *Threads*: four thread ids, three stacks, the kernel's and two process tags. Two queued threads
  besides the running one are needed to see overtaking, a third exit to reuse
  the reaper while the boot thread has left, and fewer stacks than ids to reach
  the out-of-memory path. The proofs remove the bounds.
- *AsyncInput*: the keyboard task and one other, which can wake itself for ever
  and so starve it, a ready queue of 3 or 4, scancode and key queues of 2, four
  or five key events. Every queue fills and overflows; five events are more than
  the queues and the task in hand hold at once.
- *Allocators*: heaps of 88 to 96 bytes, the real header size and
  alignment (16 and 8), layouts below, at and above a header, one of them
  aligned to 32. The heap of `linked_list` begins and ends off a header
  boundary. Several blocks fit, so a freed block can be alone, touch
  either neighbour or bridge two. The heap of `bump` is 12 bytes from an odd
  address.
- *Userland*: four thread ids and three stacks (the two workers and the user
  thread, and one to spare), two processes, and zero to eight free frames, where
  five are needed, so creation fails at each of its steps and is retried with
  frames to spare. The two violation runs are smaller. Up to two threads are
  spawned for a process (`MaxHosts`), although the kernel itself spawns one: so one
  can start after the other ended the process, and trap while the other is
  inside a trap. The demos spawn one, and their program writes only mapped bytes,
  so `SysWriteFaults` and `SysReturnLost` are steps of the free boot program only.
- *Paging*: all maps of up to four regions of zero, one, two or five frames,
  usable or not, so from none to more frames than boot and two creations need; a
  heap of two pages, the second of which finds its tables built; page 0 with any
  part of its tables there already.
- *Output*: two calls of the main flow, which may each be a whole system call or
  an exit, and two interrupts, every second tick with a heartbeat; a screen of
  two rows and two columns and four bytes, enough to wrap and to scroll. Two
  interrupts are one inside and one after, or two inside, a call; there are two
  flows, so more bring nothing new. Longer histories only repeat calls from the
  same lock state, since no call leaves a lock held.

Fairness. `threads` assumes weak fairness of the scheduler calls: the
running thread goes on to yield or exit, and a call that has begun finishes.
Threads are cooperative, so this is the contract of `thread.rs`; a thread that
never yields starves the others by design. `input` assumes weak fairness of
the boot thread's own steps: the loop runs and polls return. Nothing is assumed
about interrupts: a key may never be pressed and the timer may never tick.
`userland` assumes that the CPU goes on, and strong fairness of each thread's
exit: a worker that gets the CPU again and again exits in the end, and so does
the user program, as `worker_a`, `worker_b` and the embedded programs do; strong,
because between two of its turns a thread cannot exit.

Each property is also broken by a small mutation of a modelled definition (the
operators commented "A plausible slip"), so none holds by the shape of the
model.

## Findings

1. The ready queue is sized by the number of runnable tasks, but wakes are not
   merged (`input_full`): one task can be queued many times, and the panic
   on a full queue happens in the interrupt handler.
2. The free list's loss is bounded per call, not over a history (`linked_list_loss`).
3. The interrupt flag is not part of a thread's context (`userland_flag`): what
   runs after a yield or an exit from ring 3 has interrupts off, against the
   comment in `yield_now`.
4. A thread that yields in a system call is suspended on the static entry stack,
   not on the buffer its `KernelThread` owns; with two user threads their frames
   collide there (`userland_frames`).

Three smaller observations have no run of their own. `spawn` does not drain the
reaper, so it is not always the *next* scheduler operation that frees an exited
thread: a spawn can fail for want of the stack the reaper holds, but never earlier
than that one stack (`OnlyLastExitPanics`). The SAFETY comment of `user_bytes`
takes the whole user window to be mapped, which holds of its first and its last
page only; `sys_write` can therefore panic the kernel (`SysWriteFaults`). And user pages
are never unmapped, so where the comment on `USER_CODE_BASE` speaks of one
process at a time, it is one per boot (`RegisteredIsMapped`).

## Proofs

`ThreadsProofs`, from `ThreadsAssumption` (the bounds are naturals and the
kernel is one of the processes). `Spec => []IInv` with

- `BoxInv`: boxes in the map, the reaper and `drain_reaper`'s hands are distinct
  and are ids already handed out;
- `FrameInv`: the ready queue is an injective enumeration of the runnable
  threads but the current one, and each of them has its frame on its own stack,
  except the yielding one until the switch;
- `StackInv`: the stack the CPU is on, by program point;
- `CountInv`: the counters, and that a spawn which finds no stack finds all of
  them owned by a box, the reaper's included.

None of the safety properties is inductive alone. `StacksOutliveUse`, for
example, needs to know that a drained box is neither queued nor current, which
needs the exact queue. One lemma per action shows that it keeps `IInv`; three
lemmas about taking the front of, appending to and rotating an injective
sequence carry the queue. From the invariant follow `TypeOK`, `NoThreadLost`,
`StacksOutliveUse`, `OnlyLastExitPanics`, `CountersExact` and `TagIsTheRunners`;
`NoOvertaking` follows with a lemma on single steps.

`AllocatorLemmas`, `AllocatorProofs` and `FixedSizeBlockProofs`, from
`HeapAssumption`, `AlignAssumption` (of an alignment and the header's, the
smaller divides the larger: both are powers of two) and `ClassAssumption` (class
sizes ascend, and are powers of two in the same sense).

`AllocatorLemmas` says what each operator of `FreeList` does to a *sound* list
(canonical, with no assertion failed): which bytes the list covers before and
after, and that it is sound again. The heart is `coalesce`. It is a walk, so what
it computes is shown by induction on its length: the part already walked is
canonical, covers what the nodes walked over covered, and ends below the next
one. The induction is over a set of numbers: a set that holds 0, and with a
number the next one, holds every number, which follows from `<` being
well-founded. `First` stops at the least number of a set, by the same fact. From
there `add_free_region` adds exactly the freed bytes, `find_region` takes exactly
the block's bytes and at most the two leftovers, and the address is aligned.

`AllocatorProofs`. For the bump allocator, from `HeapAssumption` alone: whatever
was handed out is aligned, in the heap, below the cursor and disjoint; hence
`NeverReused`, and `BumpSpec => BumpImplementsHeap`. It rests on `AlignUp`: the
result is a multiple of the alignment and not below the address. For the free
list: the invariant is a sound list, live blocks aligned and in the
heap, and no byte in two blocks or in a block and on the list. `ListIsCanonical`
and `NothingTwice` are not inductive alone: that the assertions of
`add_free_region` hold needs that the freed block is not on the list, and that it
is not needs the alignment of what `alloc` hands out. `LeakPerCall` and
`ImplementsHeap` follow step by step.

`FixedSizeBlockProofs`: the invariant has three kinds of memory (`PartsSound`,
`PartsApart`): live blocks, with the extent the fallback set aside for their
class; cached blocks, aligned to their class; free regions. One lemma per action
moves a block from one kind to another. `FallbackSound`, `LayersShareNothing`
and `ImplementsHeap` follow. For `RefusedOnlyWithoutRoom`, a stretch of free
bytes lies in one region because no two regions touch, and first fit tries that
region. For `StatsNeverOverreport`, a sum over a set whose members stand for
disjoint sets of bytes is the number of bytes in all of them; the three sums that
are compared count disjoint bytes of the heap. The number of bytes in a set is a
function on the subsets of an interval whose existence is shown by induction, and
so are the sums: `MapThenSumSet` chooses a function that satisfies a recursive
equation, so the proof shows that there is one and that all of them agree.

`UserlandProofs`: every step of `Userland` is a step of `Threads` or leaves the
scheduler's variables alone, by one case per action; hence
`UserSpec => ImplementsThreads`, and stack safety and the correctness of the
process tag carry over to a kernel with user processes, however many threads
they have. `Threads` speaks of each thread's control flow there; which physical
stack a trap uses is `Userland`'s own `entryFrame`, see below.

About processes it proves `UserSpec => []UInv`: the invariant of `Threads`;
`PidInv`, that tags are of processes already created and that creation has
succeeded at most once, with both pages mapped; `RingInv`, that ring 3 is only a
user thread outside the scheduler with interrupts on; and
`RegisteredUntilHostLeaves`. The registry is a set defined by what threads
are doing, so the work is in what one step changes of "leaving": a thread begins
to leave in the step that ends its process, stays so through `exit_thread`, and
no other thread's status changes. `RingThreeHasProcess` needs `SeatInv` besides.
A thread that yields in a system call comes back to ring 3 without another look
at the registry, and its process may have ended meanwhile. But whoever ends a
process does so in a trap, which takes the entry stack, so a thread whose frame
is still on it is leaving or of a registered process; and one whose frame is gone
does not come back in the model. The theorem holds for any number of threads per
process.

`EntryFrameSafety` is the other half of finding 4 and the one theorem that assumes
`MaxHosts` to be 0 or 1: then a tag names one thread (`OneHost`), creation succeeds
once per boot, so there is one user thread, and whoever is inside a trap is the
one whose frame is on the entry stack (`EntryInv`). The
demos are shown to be steps of `Userland`, so all of this holds during boot;
`DemosLeaveNothing` adds what each position in `kernel_main` knows of the
threads, the point being that an empty ready queue seen by the boot thread means
that no other thread exists.

`ThreadsProofs` also has `Spec => ImplementsRoundRobin`. The abstract queue is the
ready queue but for the moment between a yield's choice and its switch, when the
yielding thread is queued already and still runs; `YieldLast`, that it is then
the last of the queue, is what the mapping needs beyond `IInv`.

`InputProofs`, from the assumptions on capacities and tasks of `Executor` and
`AsyncInput`. `Spec => []IInv` with

- `TypeOK`: every queue within its capacity;
- the executor's books: map, cache, start marks and counters by task and program
  point, `BookkeepingAgrees`;
- `SleepInv`: interrupts are off from the first step of `sleep_if_idle` to the
  `hlt`, so a queue seen empty is still empty there, `NeverHaltsWithWork`;
- `Protocol`: for each position in `poll_next`, whether the waker is armed and
  what may be in the scancode queue. `NoLostWakeup` says what holds when the task
  is parked; to be inductive it needs the state between `register`, the second
  pop and `take`, and that a wake queues the task rather than being lost.

One lemma per group shows that all the actions, interrupts included, keep it;
the facts about `Append` and `Tail` are lemmas of their own. `HandlerNeverFrees`
follows from the books and the protocol together.

For the key events it builds on `IInv`. `EventsKept` speaks of one concatenated sequence
and of cardinalities; `FlowInv` has what is inductive: each of the three queues
ascends and lies below the ones before it in the pipeline, what is decoded is
not also waiting, and the counts; `Fates` says what became of the decoded ones.
One lemma per step that moves an event, and
lemmas on appending to, taking from and joining ascending sequences.

`PagingProofs`, from `FramesAssumption` (regions ascend and do not overlap). `FInv`
says that the cursor is above every frame handed out (`Below`) and every usable
frame below the cursor has been handed out (`Passed`); with the ordinals of
usable regions ascending, both survive a step over exhausted, empty and reserved
regions. `AscendingAndUsable` and `NoneOnlyWhenExhausted` follow, and that the
number of frames left is what it seems.

About pages, from `PagingAssumption` (the VGA frame is not usable memory),
`PageInv` has the pages mapped so far, for `HeapReadyIsMapped`; `ServeInv` that
every frame in use was handed out and has one use, for `NoFrameServesTwice`; a
fresh frame is new because frames ascend. `CountInv` relates the middle of a
process creation to the state it began in (`Underway`), for each of the points
at which a frame can be missing; at the end this is `AfterCreate`, so
`CreateAsCounted` holds for every memory map, any heap and any number of calls,
and `Userland`'s one step is the whole call.

`OutputProofs`, from `LocksAssumption` and `ConsoleAssumption`. The screen first:
`ScreenInv` says that the screen shows the last rows of the history and that the
column is where its last line ends, up to and including one past the last cell.
One lemma per branch of `write_byte` (a character, a wrap, a newline) shows that
the view of the longer history is the scrolled or overwritten screen; hence
`ScreenIsTailOfOutput` for every screen size.

The locks. `NeverSpins` depends on what code is still to run, and the model's
code is a sequence of steps, so the invariant has to say that the rest of it is
sound. `Legal` says which step may be taken in a *context* (who runs, what is
held, how often interrupts are masked, what is being initialised, whether half
a message is out), `After` what the context is then. Code is `Good` in a context
if some set of pairs of code and context contains it, all of whose members are
legal and step to members: a definition without recursion, so no induction over
sequences is needed. `Runs(p, c, d)` says that the function `p` takes context `c` to
`d` whatever good code follows. It has a lemma for each way the code composes
its calls (one after the other, `without_interrupts`, `locked`, `deref`), with
which every function, handler and the boot code are shown good, as the code is
written.

`Spec => []LInvAt`: in some mode of the main flow (before the first message,
booting, booted),

- `FlowInv`: what each flow has still to do is good in the context it is in;
- `MaskInv`: interrupts are off in a handler, where they are masked and during
  boot, and a mask gives back the state it found;
- `OwnInv`: the main flow holds or initialises the console only with interrupts
  masked, has the interrupt controller only during boot, and `SERIAL1` is
  initialised by the first message;
- `PortInv`: half a message is out only while its writer has the port.

One lemma per kind of step shows that the step is legal, leads to the context
`After` says and keeps the rest. A handler then finds free what it waits for,
which is `NeverSpins`; the port it only tries. `MessagesWhole` is part of
`PortInv`. TLC checks both in `output`; it cannot evaluate `Good`, which
quantifies over sets of code.

Many leaves name Zenon. What the SMT translation of a leaf needs is kept by the
proof manager to the end of the module, so in the larger modules the leaves that
need no arithmetic are left to Zenon.

Only model-checked: the liveness properties `QueuedThreadRuns`,
`ExitedStackReclaimed`, `AcceptedIsDecoded`, `WokenTaskIsPolled` and `DemosEnd`
(fairness is outside the prover). Every safety property and refinement that a
passing run checks is also proved.

## Not modelled

Descriptor tables (constant data for the CPU) beyond the shared entry stack, how
`map_to` walks and writes tables (the `x86_64` crate's), what system calls read
and write, the statistics requests (they only read), the formatting of messages,
the banner and heap smoke test of boot, faults in ring 0 other than the page
fault of a `sys_write` (their handlers print and panic as that one does), double
faults and breakpoints, and the test harness.
The kernel-only `register` and `exit` wrappers of `process.rs`, which only tests
call, are left out.

## Plan

1. `sys_read` and the key queue, and `Userland` composed with the executor: what
   the interrupt flag a process leaves behind means for ticks and input.
2. One theorem that joins `Locks` with `Userland` and `AsyncInput`: the lock
   discipline is proved of the sequence of locks each call takes, not of calls
   that also change the scheduler's and the executor's state.

----------------------------- MODULE AsyncInput ------------------------------
(***************************************************************************)
(* The keyboard pipeline of src/task/keyboard.rs on the executor: the      *)
(* interrupt handler pushes scancodes and wakes the task, the task pops    *)
(* them, decodes them and queues bytes for read.  Every atomic operation   *)
(* of poll_next, and of the AtomicWaker it uses, is a step the interrupt   *)
(* can fall between; the handler itself is one step.                       *)
(*                                                                         *)
(* A scancode is the number of the key event it reports, so that order,    *)
(* loss and duplication are visible.                                       *)
(***************************************************************************)
EXTENDS Executor

CONSTANTS
    SCANCODE_QUEUE_CAPACITY,
    KEY_QUEUE_CAPACITY,
    MaxScancodes             \* bound: how many key events the run has

ASSUME InputAssumption ==
    /\ SCANCODE_QUEUE_CAPACITY \in Nat \ {0}
    /\ KEY_QUEUE_CAPACITY \in Nat \ {0}
    /\ MaxScancodes \in Nat

VARIABLES
    initialised,   \* both OnceCell queues have been created
    scancodes,     \* SCANCODE_QUEUE
    keys,          \* KEY_QUEUE
    armed,         \* WAKER holds the keyboard task's waker
    wstate,        \* WAKER's state word
    kpc,           \* where print_keypresses is
    scancode,      \* the scancode poll_next is returning
    events,        \* key events so far
    dropped,       \* history: events the handler dropped
    decoded,       \* history: events fed to the decoder
    silent,        \* history: events that gave no ASCII byte
    overrun,       \* history: events whose byte found KEY_QUEUE full
    bytes          \* history: bytes returned by read_byte

outcomes == <<decoded, silent, overrun, bytes>>
kbdVars == <<initialised, scancodes, keys, armed, wstate, kpc, scancode, events,
             dropped, outcomes>>
vars == <<execVars, kbdVars>>

Init ==
    /\ ExecInit
    /\ initialised = FALSE
    /\ scancodes = <<>>
    /\ keys = <<>>
    /\ armed = FALSE
    /\ wstate = "waiting"
    /\ kpc = "start"
    /\ scancode = 0
    /\ events = 0
    /\ dropped = {}
    /\ decoded = {} /\ silent = {} /\ overrun = {}
    /\ bytes = <<>>

-----------------------------------------------------------------------------
(* AtomicWaker (futures), as keyboard.rs uses it.                          *)

\* wake = take the waker and fire it.  It fires only when the state word is
\* "waiting"; during a registration it leaves a mark, during a take nothing.
WakerFires == wstate = "waiting" /\ armed

\* The state word after a wake that met it in state w.
AfterWake(w) == IF w = "registering" THEN "registering_waking" ELSE w

-----------------------------------------------------------------------------

Accepts == initialised /\ Len(scancodes) < SCANCODE_QUEUE_CAPACITY

\* Before initialisation or with a full queue the scancode is dropped, else it
\* is queued and WAKER woken.
add_scancode(code) ==
    IF Accepts
    THEN /\ scancodes' = Append(scancodes, code)
         /\ armed' = (armed /\ ~ WakerFires)
         /\ wstate' = AfterWake(wstate)
         /\ IF WakerFires
            THEN /\ PushTask(Kbd)
                 /\ pc' = IF QueueFull THEN "panic" ELSE Resume
            ELSE /\ pc' = Resume
                 /\ UNCHANGED task_queue
         /\ UNCHANGED dropped
    ELSE /\ dropped' = dropped \cup {code}
         /\ pc' = Resume
         /\ UNCHANGED <<scancodes, armed, wstate, task_queue>>

\* keyboard_interrupt_handler, through Kernel::on_scancode.
KeyboardInterrupt ==
    /\ IF_
    /\ pc # "panic"
    /\ events < MaxScancodes
    /\ events' = events + 1
    /\ add_scancode(events + 1)
    /\ UNCHANGED <<tasks, waker_cache, started_tasks, polled, IF_, counters,
                   initialised, keys, kpc, scancode, outcomes>>

\* The keyboard task is the one being polled, and at step l.
InKbd(l) == pc = "poll" /\ polled = Kbd /\ kpc = l

\* First poll: ScancodeStream::new creates both queues.
KbdStart ==
    /\ InKbd("start")
    /\ initialised' = TRUE
    /\ kpc' = "fast"
    /\ UNCHANGED <<execVars, scancodes, keys, armed, wstate, scancode, events,
                   dropped, outcomes>>

\* A plausible slip: read the scancode without removing it.
KbdFastPeek ==
    /\ InKbd("fast")
    /\ IF scancodes = <<>>
       THEN kpc' = "register" /\ UNCHANGED scancode
       ELSE scancode' = Head(scancodes) /\ kpc' = "decode"
    /\ UNCHANGED <<execVars, initialised, scancodes, keys, armed, wstate, events,
                   dropped, outcomes>>

\* poll_next's fast path: pop without touching the waker.
KbdFastPop ==
    /\ InKbd("fast")
    /\ IF scancodes = <<>>
       THEN /\ kpc' = "register"
            /\ UNCHANGED <<scancodes, scancode>>
       ELSE /\ scancode' = Head(scancodes)
            /\ scancodes' = Tail(scancodes)
            /\ kpc' = "decode"
    /\ UNCHANGED <<execVars, initialised, keys, armed, wstate, events, dropped,
                   outcomes>>

\* WAKER.register, first half: take the state word, store the waker.
KbdRegister ==
    /\ InKbd("register")
    /\ wstate' = "registering"
    /\ armed' = TRUE
    /\ kpc' = "registered"
    /\ UNCHANGED <<execVars, initialised, scancodes, keys, scancode, events, dropped,
                   outcomes>>

\* WAKER.register, second half: if a wake came meanwhile, fire it now.
KbdRegistered ==
    /\ InKbd("registered")
    /\ wstate' = "waiting"
    /\ IF wstate = "registering_waking"
       THEN /\ armed' = FALSE
            /\ PushTask(Kbd)
            /\ pc' = IF QueueFull THEN "panic" ELSE pc
       ELSE UNCHANGED <<armed, task_queue, pc>>
    /\ kpc' = "recheck"
    /\ UNCHANGED <<tasks, waker_cache, started_tasks, polled, IF_, counters,
                   initialised, scancodes, keys, scancode, events, dropped, outcomes>>

\* A plausible slip: return Pending without the second pop.
KbdRecheckMissing ==
    /\ InKbd("recheck")
    /\ kpc' = "fast"
    /\ pc' = "pop"
    /\ UNCHANGED <<tasks, task_queue, waker_cache, started_tasks, polled, IF_, counters,
                   initialised, scancodes, keys, armed, wstate, scancode, events,
                   dropped, outcomes>>

\* A plausible slip: take the waker before the second pop.
KbdRecheckTakesFirst ==
    /\ InKbd("recheck")
    /\ armed' = FALSE
    /\ IF scancodes = <<>>
       THEN kpc' = "fast" /\ pc' = "pop" /\ UNCHANGED <<scancodes, scancode>>
       ELSE /\ scancode' = Head(scancodes)
            /\ scancodes' = Tail(scancodes)
            /\ kpc' = "take"
            /\ UNCHANGED pc
    /\ UNCHANGED <<tasks, task_queue, waker_cache, started_tasks, polled, IF_, counters,
                   initialised, keys, wstate, events, dropped, outcomes>>

\* poll_next's second pop: Pending if there is still nothing; the task then
\* resumes at the top of poll_next when it is polled again.
KbdRecheck ==
    /\ InKbd("recheck")
    /\ IF scancodes = <<>>
       THEN /\ kpc' = "fast"
            /\ pc' = "pop"
            /\ UNCHANGED <<scancodes, scancode>>
       ELSE /\ scancode' = Head(scancodes)
            /\ scancodes' = Tail(scancodes)
            /\ kpc' = "take"
            /\ UNCHANGED pc
    /\ UNCHANGED <<tasks, task_queue, waker_cache, started_tasks, polled, IF_, counters,
                   initialised, keys, armed, wstate, events, dropped, outcomes>>

\* WAKER.take, first half: mark the word "waking" and remove the waker.
KbdTake ==
    /\ InKbd("take")
    /\ wstate' = "waking"
    /\ armed' = FALSE
    /\ kpc' = "taken"
    /\ UNCHANGED <<execVars, initialised, scancodes, keys, scancode, events, dropped,
                   outcomes>>

\* WAKER.take, second half.
KbdTaken ==
    /\ InKbd("taken")
    /\ wstate' = "waiting"
    /\ kpc' = "decode"
    /\ UNCHANGED <<execVars, initialised, scancodes, keys, armed, scancode, events,
                   dropped, outcomes>>

\* A plausible slip: a full KEY_QUEUE makes room by losing its oldest byte.
KbdDecodeOverwrites ==
    /\ InKbd("decode")
    /\ decoded' = decoded \cup {scancode}
    /\ keys' = Append(IF Len(keys) < KEY_QUEUE_CAPACITY THEN keys ELSE Tail(keys), scancode)
    /\ scancode' = 0
    /\ kpc' = "fast"
    /\ UNCHANGED <<execVars, initialised, scancodes, armed, wstate, events, dropped,
                   silent, overrun, bytes>>

\* The loop body of print_keypresses: the decoder yields an ASCII byte or
\* not; a byte goes to KEY_QUEUE, silently dropped when that is full.
KbdDecode ==
    /\ InKbd("decode")
    /\ decoded' = decoded \cup {scancode}
    /\ \/ /\ silent' = silent \cup {scancode}
          /\ UNCHANGED <<keys, overrun>>
       \/ /\ Len(keys) < KEY_QUEUE_CAPACITY
          /\ keys' = Append(keys, scancode)
          /\ UNCHANGED <<silent, overrun>>
       \/ /\ Len(keys) >= KEY_QUEUE_CAPACITY
          /\ overrun' = overrun \cup {scancode}
          /\ UNCHANGED <<keys, silent>>
    /\ scancode' = 0
    /\ kpc' = "fast"
    /\ UNCHANGED <<execVars, initialised, scancodes, armed, wstate, events, dropped, bytes>>

\* read_byte, called by a task of the executor.
ReadByte ==
    /\ pc = "poll"
    /\ polled \in AppTasks
    /\ keys # <<>>
    /\ bytes' = Append(bytes, Head(keys))
    /\ keys' = Tail(keys)
    /\ UNCHANGED <<execVars, initialised, scancodes, armed, wstate, kpc, scancode,
                   events, dropped, decoded, silent, overrun>>

HltLoop ==
    /\ pc = "panic"
    /\ UNCHANGED vars

KbdStep ==
    \/ KbdStart
    \/ KbdFastPop
    \/ KbdRegister
    \/ KbdRegistered
    \/ KbdRecheck
    \/ KbdTake
    \/ KbdTaken
    \/ KbdDecode

Next ==
    \/ ExecNext /\ UNCHANGED kbdVars
    \/ TimerInterrupt /\ UNCHANGED kbdVars
    \/ KeyboardInterrupt
    \/ KbdStep
    \/ ReadByte
    \/ HltLoop

Spec == Init /\ [][Next]_vars

\* The boot thread keeps executing the loop, and a poll returns.  Nothing is
\* assumed of the interrupts: neither a key press nor a timer tick must come.
MainStep ==
    \/ (Run \/ PopTask \/ SelfWake \/ PollPending \/ PollReady) /\ UNCHANGED kbdVars
    \/ (SleepDisable \/ SleepCheck \/ EnableAndHlt) /\ UNCHANGED kbdVars
    \/ KbdStep

FairSpec == Spec /\ WF_vars(MainStep)

-----------------------------------------------------------------------------

\* The pipeline's part of the type invariant.
InputTypeOK ==
    /\ initialised \in BOOLEAN
    /\ scancodes \in Seq(1 .. MaxScancodes)
    /\ Len(scancodes) <= SCANCODE_QUEUE_CAPACITY
    /\ keys \in Seq(1 .. MaxScancodes)
    /\ Len(keys) <= KEY_QUEUE_CAPACITY
    /\ armed \in BOOLEAN
    /\ wstate \in {"waiting", "registering", "registering_waking", "waking"}
    /\ kpc \in {"start", "fast", "register", "registered", "recheck", "take", "taken",
                "decode"}
    /\ scancode \in 0 .. MaxScancodes
    /\ events \in 0 .. MaxScancodes
    /\ dropped \subseteq 1 .. MaxScancodes
    /\ decoded \subseteq 1 .. MaxScancodes
    /\ silent \subseteq 1 .. MaxScancodes
    /\ overrun \subseteq 1 .. MaxScancodes
    /\ bytes \in Seq(1 .. MaxScancodes)

\* Type invariant: all three queues stay within their capacity.
TypeOK == ExecTypeOK /\ InputTypeOK

KbdPolled == pc = "poll" /\ polled = Kbd

\* No lost wakeup: wherever the interrupt falls between the first pop, the
\* registration, the second pop and the take of poll_next, a queued scancode
\* finds the keyboard task still running or queued to run; and a task that has
\* returned Pending and is not queued has its waker in WAKER, with the state
\* word released, so that the next interrupt will wake it.
NoLostWakeup ==
    ~ KbdPolled /\ pc # "panic" /\ Kbd \notin Range(task_queue) =>
        /\ scancodes = <<>>
        /\ Kbd \in started_tasks => armed /\ wstate = "waiting"

\* A waker the interrupt handler may consume is never the last reference: the
\* cache still holds one, so the handler does not free memory.
HandlerNeverFrees == armed => Kbd \in waker_cache

\* What is on its way from the handler to read_byte, oldest first.
InFlight ==
    bytes \o keys \o (IF scancode = 0 THEN <<>> ELSE <<scancode>>) \o scancodes

\* Between the interrupt handler and read_byte key events are never reordered
\* or duplicated, and lost only in the two places where the code drops them, on
\* the full SCANCODE_QUEUE (or before it exists) and on the full KEY_QUEUE: an
\* event is dropped by the handler, queued, in the hands of the task or
\* decoded, and a decoded one gave no byte, lost it to the full KEY_QUEUE, or
\* has it in KEY_QUEUE or read; and only one of these, although two bounded
\* queues and two pops lie on the way.
EventsKept ==
    /\ \A i, j \in 1 .. Len(InFlight) : i < j => InFlight[i] < InFlight[j]
    /\ 1 .. events = dropped \cup decoded \cup Range(scancodes) \cup ({scancode} \ {0})
    /\ events = Cardinality(dropped) + Cardinality(decoded) + Len(scancodes)
                 + Cardinality({scancode} \ {0})
    /\ decoded = silent \cup overrun \cup Range(keys) \cup Range(bytes)
    /\ Cardinality(decoded) = Cardinality(silent) + Cardinality(overrun)
                               + Len(keys) + Len(bytes)

\* A scancode the handler accepted is eventually decoded.
AcceptedIsDecoded ==
    \A e \in 1 .. MaxScancodes :
        (e \in Range(scancodes)) ~> (e \in decoded \/ pc = "panic")

\* A task that was woken is eventually polled, even if others keep waking
\* themselves.
WokenTaskIsPolled ==
    \A t \in Tasks : (t \in Range(task_queue)) ~>
        ((pc = "poll" /\ polled = t) \/ t \notin tasks \/ pc = "panic")

\* "Must comfortably exceed the highest expected number of concurrently-
\* runnable tasks; pushes from interrupt handlers panic if the queue is full"
\* (executor.rs): with a capacity above the number of tasks it never fills.
CapacityAboveTasksSuffices ==
    Cardinality(tasks) < TASK_QUEUE_CAPACITY => ~ QueueFull

=============================================================================

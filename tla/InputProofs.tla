----------------------------- MODULE InputProofs -----------------------------
(***************************************************************************)
(* Proofs about the executor and the keyboard pipeline, for any number of  *)
(* tasks, any capacities and any number of key events.                     *)
(***************************************************************************)
EXTENDS AsyncInput, SequenceTheorems, FiniteSetTheorems, TLAPS

\* A push at the back of a queue.
LEMMA AppendFacts ==
    ASSUME NEW S, NEW q \in Seq(S), NEW e \in S
    PROVE  /\ Append(q, e) \in Seq(S)
           /\ Append(q, e) # <<>>
           /\ Len(Append(q, e)) = Len(q) + 1
           /\ \A i \in 1 .. Len(q) : Append(q, e)[i] = q[i]
           /\ Append(q, e)[Len(q) + 1] = e
           /\ Range(Append(q, e)) = Range(q) \cup {e}
<1>1. Len(q) \in Nat /\ DOMAIN q = 1 .. Len(q)
  BY LenProperties
<1>2. /\ Append(q, e) \in Seq(S)
      /\ Append(q, e) # <<>>
      /\ Len(Append(q, e)) = Len(q) + 1
      /\ \A i \in 1 .. Len(q) : Append(q, e)[i] = q[i]
      /\ Append(q, e)[Len(q) + 1] = e
  BY AppendProperties
<1>3. DOMAIN Append(q, e) = 1 .. Len(q) + 1
  BY <1>2, LenProperties
<1>4. ASSUME NEW x \in Range(Append(q, e)) PROVE x \in Range(q) \cup {e}
  <2>1. \A i \in 1 .. Len(q) + 1 : i \in 1 .. Len(q) \/ i = Len(q) + 1
    BY <1>1
  <2> QED
    BY <1>1, <1>2, <1>3, <1>4, <2>1, Zenon DEF Range
<1>5. ASSUME NEW x \in Range(q) PROVE x \in Range(Append(q, e))
  <2>1. PICK i \in 1 .. Len(q) : x = q[i]
    BY <1>1, <1>5 DEF Range
  <2>2. i \in 1 .. Len(q) + 1
    BY <1>1
  <2> QED
    BY <1>2, <1>3, <2>1, <2>2, Zenon DEF Range
<1>6. e \in Range(Append(q, e))
  <2>1. Len(q) + 1 \in 1 .. Len(q) + 1
    BY <1>1
  <2> QED
    BY <1>2, <1>3, <2>1, Zenon DEF Range
<1> QED
  BY <1>2, <1>4, <1>5, <1>6, Zenon

\* A pop at the front of a queue.
LEMMA TailFacts ==
    ASSUME NEW S, NEW q \in Seq(S), q # <<>>
    PROVE  /\ Head(q) \in S
           /\ Head(q) = q[1]
           /\ Tail(q) \in Seq(S)
           /\ Len(q) \in Nat \ {0}
           /\ Len(Tail(q)) = Len(q) - 1
           /\ \A i \in 1 .. Len(q) - 1 : Tail(q)[i] = q[i + 1]
           /\ Range(q) = {Head(q)} \cup Range(Tail(q))
<1>1. Len(q) \in Nat \ {0} /\ DOMAIN q = 1 .. Len(q)
  BY EmptySeq, LenProperties
<1>2. /\ Head(q) \in S
      /\ Tail(q) \in Seq(S)
      /\ Len(Tail(q)) = Len(q) - 1
      /\ \A i \in 1 .. Len(Tail(q)) : Tail(q)[i] = q[i + 1]
  BY HeadTailProperties
<1>3. DOMAIN Tail(q) = 1 .. Len(q) - 1
  BY <1>2, LenProperties
<1>4. Head(q) = q[1]
  OBVIOUS
<1>5. \A i \in 1 .. Len(q) - 1 : Tail(q)[i] = q[i + 1]
  BY <1>2
<1>6. ASSUME NEW x \in Range(q) PROVE x \in {Head(q)} \cup Range(Tail(q))
  <2>1. PICK i \in 1 .. Len(q) : x = q[i]
    BY <1>1, <1>6 DEF Range
  <2>2. CASE i = 1
    BY <1>4, <2>1, <2>2, Zenon
  <2>3. CASE i # 1
    <3>1. i - 1 \in 1 .. Len(q) - 1 /\ (i - 1) + 1 = i
      BY <1>1, <2>3
    <3> QED
      BY <1>3, <1>5, <2>1, <3>1, Zenon DEF Range
  <2> QED
    BY <2>2, <2>3
<1>7. ASSUME NEW x \in Range(Tail(q)) PROVE x \in Range(q)
  <2>1. PICK i \in 1 .. Len(q) - 1 : x = Tail(q)[i]
    BY <1>3, <1>7 DEF Range
  <2>2. i + 1 \in 1 .. Len(q)
    BY <1>1
  <2> QED
    BY <1>1, <1>5, <2>1, <2>2, Zenon DEF Range
<1>8. Head(q) \in Range(q)
  BY <1>1, <1>4 DEF Range
<1> QED
  BY <1>1, <1>2, <1>4, <1>5, <1>6, <1>7, <1>8, Zenon

-----------------------------------------------------------------------------
\* A wake of task t: the queue grows by t or, being full, stays.
LEMMA PushTaskFacts ==
    ASSUME ExecTypeOK, NEW t \in Tasks, PushTask(t)
    PROVE  /\ task_queue' \in Seq(Tasks)
           /\ Len(task_queue') <= TASK_QUEUE_CAPACITY
           /\ Range(task_queue) \subseteq Range(task_queue')
           /\ Range(task_queue') \subseteq Range(task_queue) \cup {t}
           /\ ~ QueueFull => t \in Range(task_queue')
<1>1. Len(task_queue) \in Nat /\ TASK_QUEUE_CAPACITY \in Nat
  BY ExecutorAssumption, LenProperties DEF ExecTypeOK
<1>2. CASE QueueFull
  BY <1>1, <1>2 DEF PushTask, QueueFull, ExecTypeOK
<1>3. CASE ~ QueueFull
  <2>1. task_queue' = Append(task_queue, t)
    BY <1>1, <1>3 DEF PushTask, QueueFull
  <2>2. task_queue \in Seq(Tasks)
    BY DEF ExecTypeOK
  <2>3. /\ Append(task_queue, t) \in Seq(Tasks)
        /\ Len(Append(task_queue, t)) = Len(task_queue) + 1
        /\ Range(Append(task_queue, t)) = Range(task_queue) \cup {t}
    BY <2>2, AppendFacts
  <2> QED
    BY <1>1, <1>3, <2>1, <2>3 DEF QueueFull
<1> QED
  BY <1>2, <1>3

-----------------------------------------------------------------------------
Queued == Kbd \in Range(task_queue)

\* Where the parts of the waker protocol are, whatever the interrupt did: the
\* state word follows the position in poll_next, a task about to return
\* Pending is queued or has its waker stored, and between polls the keyboard
\* task is at the top of poll_next.
Protocol ==
    /\ kpc = "registered" => armed /\ wstate \in {"registering", "registering_waking"}
    /\ kpc = "taken" => wstate = "waking"
    /\ kpc \notin {"registered", "taken"} => wstate = "waiting"
    /\ initialised <=> kpc # "start"
    /\ ~ initialised => scancodes = <<>>
    /\ Kbd \notin started_tasks => kpc = "start"
    /\ Queued => Kbd \in tasks
    /\ kpc = "recheck" /\ pc # "panic" => armed \/ Queued
    /\ ~ KbdPolled /\ pc # "panic" => kpc \in {"start", "fast"}

\* The task holds a scancode from the pop to the decoder.
Held == scancode # 0 <=> kpc \in {"take", "taken", "decode"}

Books == BookkeepingAgrees /\ IsFiniteSet(tasks) /\ HandlerNeverFrees

\* sleep_if_idle runs with interrupts off up to the hlt, so what it read of the
\* queue is still so there.
SleepInv ==
    /\ NeverHaltsWithWork
    /\ pc \in {"check", "sleep"} => ~ IF_
    /\ pc = "sleep" => task_queue = <<>>

IInv ==
    TypeOK /\ Books /\ SleepInv /\ Protocol /\ Held /\ NoLostWakeup

\* The executor's variables keep their types; a counter is decremented only
\* for a task that is there.
LEMMA ExecTypeStep == IInv /\ [Next]_vars => ExecTypeOK'
<1> SUFFICES ASSUME IInv, [Next]_vars PROVE ExecTypeOK'
  OBVIOUS
<1>0. ExecTypeOK /\ Kbd \in Tasks
  BY Zenon DEF IInv, TypeOK, Tasks
<1>1. ASSUME NEW t \in Tasks, Spawn(t) PROVE ExecTypeOK'
  BY <1>0, <1>1, PushTaskFacts DEF Spawn, note_task_spawned, ExecTypeOK
<1>2. CASE PopTask
  <2>1. CASE task_queue = <<>>
    BY <1>0, <1>2, <2>1, Zenon DEF PopTask, counters, ExecTypeOK
  <2>2. CASE task_queue # <<>>
    <3> DEFINE h == Head(task_queue)
               r == Tail(task_queue)
    <3>1. /\ h \in Tasks
          /\ r \in Seq(Tasks)
          /\ Len(r) <= TASK_QUEUE_CAPACITY
      BY <1>0, <2>2, TailFacts, ExecutorAssumption DEF ExecTypeOK
    <3>2. /\ task_queue' = r
          /\ polled' = h
          /\ waker_cache' \in {waker_cache, waker_cache \cup {h}}
          /\ started_tasks' \in {started_tasks, started_tasks \cup {h}}
          /\ pc' \in {"poll", "pop"}
          /\ UNCHANGED <<tasks, IF_, counters>>
      BY <1>2, <2>2, Zenon DEF PopTask
    <3> HIDE DEF h, r
    <3> QED
      BY <1>0, <3>1, <3>2, Zenon DEF ExecTypeOK, counters
  <2> QED
    BY <2>1, <2>2
<1>3. CASE SelfWake
  BY <1>0, <1>3, PushTaskFacts, Zenon DEF SelfWake, counters, ExecTypeOK
<1>4. CASE PollReady
  <2>1. polled \in tasks /\ IsFiniteSet(tasks) /\ tasks_alive = Cardinality(tasks)
    BY <1>4 DEF PollReady, IInv, Books, BookkeepingAgrees
  <2>2. tasks_alive # 0
    BY <2>1, FS_EmptySet
  <2>3. tasks_alive - 1 \in Nat
    BY <1>0, <2>2 DEF ExecTypeOK
  <2> QED
    BY <1>0, <1>4, <2>3 DEF PollReady, note_task_completed, ExecTypeOK
<1>5. CASE Run \/ PollPending \/ SleepDisable \/ SleepCheck \/ EnableAndHlt \/ TimerInterrupt
  BY <1>0, <1>5, Zenon
  DEF Run, PollPending, SleepDisable, SleepCheck, EnableAndHlt, TimerInterrupt, Resume,
      counters, ExecTypeOK
<1>6. CASE KeyboardInterrupt
  <2>1. task_queue' \in Seq(Tasks) /\ Len(task_queue') <= TASK_QUEUE_CAPACITY
    BY <1>0, <1>6, PushTaskFacts, Zenon DEF KeyboardInterrupt, add_scancode, ExecTypeOK
  <2>2. pc' \in {"panic", Resume}
    BY <1>6, Zenon DEF KeyboardInterrupt, add_scancode
  <2> QED
    BY <1>0, <1>6, <2>1, <2>2, Zenon DEF KeyboardInterrupt, Resume, counters, ExecTypeOK
<1>7. CASE KbdRegistered
  <2>1. task_queue' \in Seq(Tasks) /\ Len(task_queue') <= TASK_QUEUE_CAPACITY
    BY <1>0, <1>7, PushTaskFacts, Zenon DEF KbdRegistered, ExecTypeOK
  <2>2. pc' \in {"panic", pc}
    BY <1>7, Zenon DEF KbdRegistered
  <2> QED
    BY <1>0, <1>7, <2>1, <2>2, Zenon DEF KbdRegistered, counters, ExecTypeOK
<1>8. CASE KbdRecheck
  BY <1>0, <1>8, Zenon DEF KbdRecheck, counters, ExecTypeOK
<1>9. CASE UNCHANGED execVars
  BY <1>0, <1>9 DEF execVars, ExecTypeOK
<1> QED
  BY <1>1, <1>2, <1>3, <1>4, <1>5, <1>6, <1>7, <1>8, <1>9, Zenon
  DEF Next, ExecNext, KbdStep, KbdStart, KbdFastPop, KbdRegister, KbdTake, KbdTaken,
      KbdDecode, ReadByte, HltLoop, vars

\* So do those of the pipeline: its queues stay within their capacity.
LEMMA InputTypeStep == IInv /\ [Next]_vars => InputTypeOK'
<1> SUFFICES ASSUME IInv, [Next]_vars PROVE InputTypeOK'
  OBVIOUS
<1>0. InputTypeOK
  BY DEF IInv, TypeOK
<1>1. CASE KeyboardInterrupt
  <2> DEFINE longer == Append(scancodes, events + 1)
  <2>1. events + 1 \in 1 .. MaxScancodes
    BY <1>0, <1>1, InputAssumption DEF KeyboardInterrupt, InputTypeOK
  <2>2. /\ longer \in Seq(1 .. MaxScancodes)
        /\ Accepts => Len(longer) <= SCANCODE_QUEUE_CAPACITY
    BY <1>0, <2>1, AppendFacts, LenProperties, InputAssumption DEF InputTypeOK, Accepts
  <2>3. /\ Accepts => scancodes' = longer /\ UNCHANGED dropped
        /\ ~ Accepts => dropped' = dropped \cup {events + 1} /\ UNCHANGED scancodes
    BY <1>1, Zenon DEF KeyboardInterrupt, add_scancode
  <2>4. armed' \in BOOLEAN /\ wstate' \in {wstate, "registering_waking"}
    BY <1>0, <1>1, Zenon DEF KeyboardInterrupt, add_scancode, AfterWake, InputTypeOK
  <2> HIDE DEF longer
  <2>5. scancodes' \in Seq(1 .. MaxScancodes) /\ Len(scancodes') <= SCANCODE_QUEUE_CAPACITY
    BY <1>0, <2>2, <2>3 DEF InputTypeOK
  <2>6. dropped' \subseteq 1 .. MaxScancodes
    BY <1>0, <2>1, <2>3, Zenon DEF InputTypeOK
  <2>7. events' \in 0 .. MaxScancodes
    BY <1>1, <2>1, InputAssumption DEF KeyboardInterrupt
  <2>8. UNCHANGED <<initialised, keys, kpc, scancode, decoded, silent, overrun, bytes>>
    BY <1>1 DEF KeyboardInterrupt, outcomes
  <2> QED
    BY <1>0, <2>4, <2>5, <2>6, <2>7, <2>8, Zenon DEF InputTypeOK
<1>2. CASE KbdFastPop \/ KbdRecheck
  <2> DEFINE h == Head(scancodes)
             r == Tail(scancodes)
  <2>1. CASE scancodes = <<>>
    BY <1>0, <1>2, <2>1, Zenon DEF KbdFastPop, KbdRecheck, outcomes, InputTypeOK
  <2>2. CASE scancodes # <<>>
    <3>1. /\ h \in 1 .. MaxScancodes
          /\ r \in Seq(1 .. MaxScancodes)
          /\ Len(r) <= SCANCODE_QUEUE_CAPACITY
      BY <1>0, <2>2, TailFacts, InputAssumption DEF InputTypeOK
    <3>2. /\ scancode' = h
          /\ scancodes' = r
          /\ kpc' \in {"decode", "take"}
          /\ UNCHANGED <<initialised, keys, armed, wstate, events, dropped, decoded, silent,
                         overrun, bytes>>
      BY <1>2, <2>2 DEF KbdFastPop, KbdRecheck, outcomes
    <3> HIDE DEF h, r
    <3> QED
      BY <1>0, <3>1, <3>2 DEF InputTypeOK
  <2> QED
    BY <2>1, <2>2
<1>3. CASE KbdStart \/ KbdRegister \/ KbdRegistered \/ KbdTake \/ KbdTaken
  BY <1>0, <1>3, Zenon
  DEF KbdStart, KbdRegister, KbdRegistered, KbdTake, KbdTaken, outcomes, InputTypeOK
<1>4. CASE KbdDecode
  <2> DEFINE longer == Append(keys, scancode)
  <2>1. scancode \in 1 .. MaxScancodes
    BY <1>0, <1>4 DEF KbdDecode, InKbd, IInv, Held, InputTypeOK
  <2>2. /\ longer \in Seq(1 .. MaxScancodes)
        /\ Len(keys) < KEY_QUEUE_CAPACITY => Len(longer) <= KEY_QUEUE_CAPACITY
    BY <1>0, <2>1, AppendFacts, LenProperties, InputAssumption DEF InputTypeOK
  <2>3. keys' = keys \/ (keys' = longer /\ Len(keys) < KEY_QUEUE_CAPACITY)
    BY <1>4 DEF KbdDecode
  <2> HIDE DEF longer
  <2>4. keys' \in Seq(1 .. MaxScancodes) /\ Len(keys') <= KEY_QUEUE_CAPACITY
    BY <1>0, <2>2, <2>3, Zenon DEF InputTypeOK
  <2>5. /\ decoded' \subseteq 1 .. MaxScancodes
        /\ silent' \subseteq 1 .. MaxScancodes
        /\ overrun' \subseteq 1 .. MaxScancodes
    BY <1>0, <1>4, <2>1, Zenon DEF KbdDecode, InputTypeOK
  <2>6. scancode' \in 0 .. MaxScancodes
    BY <1>4, InputAssumption DEF KbdDecode
  <2>7. kpc' = "fast" /\ UNCHANGED <<initialised, scancodes, armed, wstate, events, dropped, bytes>>
    BY <1>4, Zenon DEF KbdDecode
  <2> QED
    BY <1>0, <2>4, <2>5, <2>6, <2>7, Zenon DEF InputTypeOK
<1>5. CASE ReadByte
  <2> DEFINE h == Head(keys)
             r == Tail(keys)
             longer == Append(bytes, h)
  <2>1. /\ h \in 1 .. MaxScancodes
        /\ r \in Seq(1 .. MaxScancodes)
        /\ Len(r) <= KEY_QUEUE_CAPACITY
    <3>1. /\ keys \in Seq(1 .. MaxScancodes) /\ keys # <<>>
          /\ Len(keys) <= KEY_QUEUE_CAPACITY
      BY <1>0, <1>5 DEF ReadByte, InputTypeOK
    <3>2. /\ h \in 1 .. MaxScancodes /\ r \in Seq(1 .. MaxScancodes)
          /\ Len(keys) \in Nat /\ Len(r) = Len(keys) - 1
      BY <3>1, TailFacts, Zenon
    <3> HIDE DEF h, r
    <3>3. KEY_QUEUE_CAPACITY \in Nat
      BY InputAssumption, Zenon
    <3>4. Len(r) <= KEY_QUEUE_CAPACITY
      BY <3>1, <3>2, <3>3
    <3>5. QED
      BY <3>2, <3>4
  <2>2. bytes' = longer /\ keys' = r
    BY <1>5, Zenon DEF ReadByte
  <2> HIDE DEF h, r
  <2>3. longer \in Seq(1 .. MaxScancodes)
    BY <1>0, <2>1, AppendFacts, Zenon DEF InputTypeOK
  <2> HIDE DEF longer
  <2> QED
    BY <1>0, <1>5, <2>1, <2>2, <2>3, Zenon DEF ReadByte, InputTypeOK
<1>6. CASE UNCHANGED kbdVars
  BY <1>0, <1>6, Zenon DEF kbdVars, outcomes, InputTypeOK
<1> QED
  BY <1>1, <1>2, <1>3, <1>4, <1>5, <1>6, Zenon DEF Next, KbdStep, HltLoop, vars

-----------------------------------------------------------------------------
\* The executor's books: one case per action that touches them.
LEMMA BooksStep == IInv /\ [Next]_vars => Books'
<1> SUFFICES ASSUME IInv, [Next]_vars PROVE Books'
  OBVIOUS
<1>0. Books /\ ExecTypeOK
  BY DEF IInv, TypeOK
<1>1. ASSUME NEW t \in Tasks, Spawn(t), UNCHANGED kbdVars PROVE Books'
  <2>1. /\ IsFiniteSet(tasks \cup {t})
        /\ Cardinality(tasks \cup {t}) = Cardinality(tasks) + 1
    BY <1>0, <1>1, FS_AddElement, Zenon DEF Spawn, Books
  <2>2. CASE QueueFull
    BY <1>0, <1>1, <2>1, <2>2, Zenon DEF Spawn, Books, BookkeepingAgrees, HandlerNeverFrees, kbdVars
  <2>3. CASE ~ QueueFull
    BY <1>0, <1>1, <2>1, <2>3
    DEF Spawn, note_task_spawned, Books, BookkeepingAgrees, HandlerNeverFrees, kbdVars,
        ExecTypeOK
  <2> QED
    BY <2>2, <2>3, Zenon
<1>2. CASE PollReady /\ UNCHANGED kbdVars
  <2>1. polled \in tasks /\ polled # Kbd /\ pc # "panic"
    BY <1>0, <1>2, ExecutorAssumption, Zenon DEF PollReady, Books, BookkeepingAgrees
  <2>2. IsFiniteSet(tasks) /\ Cardinality(tasks) \in Nat
    BY <1>0, FS_CardinalityType DEF Books
  <2>3. /\ IsFiniteSet(tasks \ {polled})
        /\ Cardinality(tasks \ {polled}) = Cardinality(tasks) - 1
    BY <2>1, <2>2, FS_RemoveElement, Zenon
  <2>4. /\ tasks_alive' = Cardinality(tasks')
        /\ tasks_spawned' = tasks_alive' + tasks_completed'
    BY <1>0, <1>2, <2>1, <2>2, <2>3
    DEF PollReady, note_task_completed, Books, BookkeepingAgrees, ExecTypeOK
  <2> QED
    BY <1>0, <1>2, <2>1, <2>3, <2>4, Zenon
    DEF PollReady, Books, BookkeepingAgrees, HandlerNeverFrees, kbdVars
<1>3. CASE PopTask /\ UNCHANGED kbdVars
  BY <1>0, <1>3, Zenon DEF PopTask, Books, BookkeepingAgrees, HandlerNeverFrees, counters, kbdVars
<1>4. CASE /\ \/ Run \/ SelfWake \/ PollPending \/ SleepDisable \/ SleepCheck
              \/ EnableAndHlt \/ TimerInterrupt
           /\ UNCHANGED kbdVars
  BY <1>0, <1>4, Zenon
  DEF Run, SelfWake, PollPending, SleepDisable, SleepCheck, EnableAndHlt, TimerInterrupt, Resume,
      counters, kbdVars, Books, BookkeepingAgrees, HandlerNeverFrees
<1>5. CASE KeyboardInterrupt
  <2>1. pc' \in {"panic", Resume} /\ (armed' => armed)
    BY <1>5, Zenon DEF KeyboardInterrupt, add_scancode
  <2> QED
    BY <1>0, <1>5, <2>1
    DEF KeyboardInterrupt, Resume, counters, Books, BookkeepingAgrees, HandlerNeverFrees
<1>6. CASE KbdStep
  <2>1. KbdPolled
    BY <1>6, Zenon DEF KbdStep, KbdStart, KbdFastPop, KbdRegister, KbdRegistered, KbdRecheck,
                KbdTake, KbdTaken, KbdDecode, InKbd, KbdPolled
  <2>2. /\ UNCHANGED <<tasks, waker_cache, started_tasks, polled, counters>>
        /\ pc' \in {"panic", "pop", pc}
    BY <1>6, Zenon DEF KbdStep, KbdStart, KbdFastPop, KbdRegister, KbdRegistered, KbdRecheck,
                KbdTake, KbdTaken, KbdDecode, execVars, counters
  <2> QED
    BY <1>0, <2>1, <2>2
    DEF KbdPolled, counters, Books, BookkeepingAgrees, HandlerNeverFrees
<1>7. CASE ReadByte \/ HltLoop \/ UNCHANGED vars
  BY <1>0, <1>7
  DEF ReadByte, HltLoop, vars, execVars, kbdVars, Books, BookkeepingAgrees, HandlerNeverFrees
<1> QED
  BY <1>1, <1>2, <1>3, <1>4, <1>5, <1>6, <1>7, Zenon DEF Next, ExecNext

\* No step leaves a task queued at the hlt: the interrupts that could queue
\* one are off from the check on, and one that comes in the hlt ends it.
LEMMA SleepStep == IInv /\ [Next]_vars => SleepInv'
<1> SUFFICES ASSUME IInv, [Next]_vars PROVE SleepInv'
  OBVIOUS
<1>0. SleepInv
  BY Zenon DEF IInv
<1>1. ASSUME pc' \notin {"check", "sleep", "hlt"} PROVE SleepInv'
  BY <1>1, Zenon DEF SleepInv, NeverHaltsWithWork
<1>2. CASE (\E t \in Tasks : Spawn(t)) \/ Run \/ PopTask \/ SelfWake \/ PollPending \/ PollReady
  <2>1. pc' \in {"boot", "panic", "pop", "poll", "woken", "idle"}
    BY <1>2, Zenon DEF Spawn, Run, PopTask, SelfWake, PollPending, PollReady
  <2>2. QED
    BY <1>1, <2>1
<1>3. CASE SleepDisable
  BY <1>3, Zenon DEF SleepDisable, SleepInv, NeverHaltsWithWork
<1>4. CASE SleepCheck
  BY <1>0, <1>4, Zenon DEF SleepCheck, SleepInv, NeverHaltsWithWork
<1>5. CASE EnableAndHlt
  BY <1>0, <1>5, Zenon DEF EnableAndHlt, SleepInv, NeverHaltsWithWork
<1>6. CASE TimerInterrupt \/ KeyboardInterrupt
  <2>1. IF_ /\ (pc' = "panic" \/ pc' = Resume)
    BY <1>6, Zenon DEF TimerInterrupt, KeyboardInterrupt, add_scancode
  <2>2. QED
    BY <1>0, <1>1, <2>1 DEF Resume, SleepInv
<1>7. CASE KbdStep
  <2>1. pc = "poll" /\ pc' \in {"poll", "pop", "panic"}
    BY <1>7, Zenon
    DEF KbdStep, KbdStart, KbdFastPop, KbdRegister, KbdRegistered, KbdRecheck, KbdTake,
        KbdTaken, KbdDecode, InKbd, execVars
  <2>2. QED
    BY <1>1, <2>1
<1>8. CASE ReadByte \/ HltLoop \/ UNCHANGED vars
  BY <1>0, <1>8 DEF ReadByte, HltLoop, vars, execVars, SleepInv, NeverHaltsWithWork
<1> QED
  BY <1>2, <1>3, <1>4, <1>5, <1>6, <1>7, <1>8, Zenon DEF Next, ExecNext

-----------------------------------------------------------------------------
\* What one wake does to the question whether the keyboard task is queued.
LEMMA QueuedAfterPush ==
    ASSUME ExecTypeOK, NEW t \in Tasks, PushTask(t)
    PROVE  /\ Queued => Queued'
           /\ Queued' => Queued \/ t = Kbd
           /\ t = Kbd /\ ~ QueueFull => Queued'
<1>1. /\ Range(task_queue) \subseteq Range(task_queue')
      /\ Range(task_queue') \subseteq Range(task_queue) \cup {t}
      /\ ~ QueueFull => t \in Range(task_queue')
  BY PushTaskFacts, Zenon
<1> QED
  BY <1>1 DEF Queued

\* The waker protocol, held scancode and wakeup: one case per action.
LEMMA ProtocolStep == IInv /\ [Next]_vars => Protocol' /\ Held' /\ NoLostWakeup'
<1> SUFFICES ASSUME IInv, [Next]_vars PROVE Protocol' /\ Held' /\ NoLostWakeup'
  OBVIOUS
<1> DEFINE Goal == Protocol /\ Held /\ (~ KbdPolled /\ pc # "panic" /\ ~ Queued =>
                       scancodes = <<>> /\ (Kbd \in started_tasks => armed /\ wstate = "waiting"))
<1>g. SUFFICES Goal'
  BY DEF NoLostWakeup, Queued
<1>0. /\ ExecTypeOK /\ InputTypeOK /\ Goal
      /\ waker_cache = started_tasks /\ started_tasks \subseteq tasks
      /\ pc \in {"poll", "woken"} => polled \in started_tasks
      /\ Kbd \in Tasks /\ Kbd \notin AppTasks
  BY ExecutorAssumption, Zenon
  DEF IInv, TypeOK, Books, BookkeepingAgrees, NoLostWakeup, Queued, Tasks
<1>1. ASSUME NEW t \in Tasks, Spawn(t), UNCHANGED kbdVars PROVE Goal'
  <2>1. /\ Queued => Queued'
        /\ Queued' => Queued \/ t = Kbd
    BY <1>0, <1>1, QueuedAfterPush, Zenon DEF Spawn
  <2>2. pc = "boot" /\ pc' \in {"panic", "boot"} /\ tasks' = tasks \cup {t}
        /\ UNCHANGED <<started_tasks, polled>>
    BY <1>1, Zenon DEF Spawn
  <2> QED
    BY <1>0, <1>1, <2>1, <2>2, Zenon DEF Protocol, Held, KbdPolled, kbdVars
<1>2. CASE PopTask /\ UNCHANGED kbdVars
  <2>1. CASE task_queue = <<>>
    BY <1>0, <1>2, <2>1, Zenon DEF PopTask, Protocol, Held, KbdPolled, kbdVars, Queued
  <2>2. CASE task_queue # <<>>
    <3> DEFINE h == Head(task_queue)
    <3>1. Queued <=> Queued' \/ h = Kbd
      <4>1. Range(task_queue) = {h} \cup Range(Tail(task_queue))
        BY <1>0, <2>2, TailFacts, Zenon DEF ExecTypeOK
      <4>2. task_queue' = Tail(task_queue)
        BY <1>2, <2>2, Zenon DEF PopTask
      <4> HIDE DEF h
      <4>3. QED
        BY <4>1, <4>2, Zenon DEF Queued
    <3>2. /\ pc = "pop" /\ polled' = h
          /\ h \in tasks => pc' = "poll" /\ started_tasks' = started_tasks \cup {h}
          /\ h \notin tasks => pc' = "pop" /\ started_tasks' = started_tasks
          /\ UNCHANGED tasks
      BY <1>2, <2>2, Zenon DEF PopTask
    <3> HIDE DEF h
    <3> QED
      BY <1>0, <1>2, <3>1, <3>2, Zenon DEF Protocol, Held, KbdPolled, kbdVars
  <2> QED
    BY <2>1, <2>2, Zenon
<1>3. CASE SelfWake /\ UNCHANGED kbdVars
  <2>1. Queued <=> Queued'
    BY <1>0, <1>3, QueuedAfterPush, Zenon DEF SelfWake, ExecTypeOK
  <2>2. /\ pc = "poll" /\ polled \in AppTasks /\ pc' \in {"panic", "woken"}
        /\ UNCHANGED <<tasks, started_tasks, polled>>
    BY <1>3, Zenon DEF SelfWake
  <2> QED
    BY <1>0, <1>3, <2>1, <2>2, Zenon DEF Protocol, Held, KbdPolled, kbdVars
<1>4. CASE /\ \/ Run \/ PollPending \/ PollReady \/ SleepDisable \/ SleepCheck
              \/ EnableAndHlt \/ TimerInterrupt
           /\ UNCHANGED kbdVars
  <2>1. Queued <=> Queued'
    BY <1>4, Zenon
    DEF Run, PollPending, PollReady, SleepDisable, SleepCheck, EnableAndHlt, TimerInterrupt,
        Queued
  <2>2. /\ pc # "panic" /\ pc' # "panic" /\ (KbdPolled <=> KbdPolled')
        /\ Kbd \in tasks <=> Kbd \in tasks'
        /\ Kbd \in started_tasks <=> Kbd \in started_tasks'
    BY <1>0, <1>4, Zenon
    DEF Run, PollPending, PollReady, SleepDisable, SleepCheck, EnableAndHlt, TimerInterrupt,
        Resume, KbdPolled
  <2> QED
    BY <1>0, <1>4, <2>1, <2>2, Zenon DEF Protocol, Held, kbdVars
<1>5. CASE KeyboardInterrupt
  <2>0. /\ pc # "panic" /\ UNCHANGED <<tasks, started_tasks, polled, initialised, kpc, scancode>>
    BY <1>5, Zenon DEF KeyboardInterrupt
  <2>1. CASE ~ Accepts
    <3>1. pc' = Resume /\ UNCHANGED <<scancodes, armed, wstate, task_queue>>
      BY <1>5, <2>1 DEF KeyboardInterrupt, add_scancode
    <3>2. (Queued <=> Queued') /\ (KbdPolled <=> KbdPolled') /\ pc' # "panic"
      BY <2>0, <3>1, Zenon DEF Queued, KbdPolled, Resume
    <3> QED
      BY <1>0, <2>0, <3>1, <3>2, Zenon DEF Protocol, Held
  <2>2. CASE Accepts /\ WakerFires
    <3>1. /\ PushTask(Kbd) /\ armed' = FALSE /\ wstate' = AfterWake(wstate)
          /\ pc' = IF QueueFull THEN "panic" ELSE Resume
      BY <1>5, <2>2, Zenon DEF KeyboardInterrupt, add_scancode
    <3>2. (Queued => Queued') /\ (~ QueueFull => Queued') /\ (pc' # "panic" => Queued')
      BY <1>0, <3>1, QueuedAfterPush, Zenon
    <3>3. wstate = "waiting" /\ wstate' = "waiting" /\ initialised
      BY <2>2, <3>1 DEF WakerFires, AfterWake, Accepts
    <3>4. pc' # "panic" => (KbdPolled <=> KbdPolled')
      BY <2>0, <3>1, Zenon DEF Resume, KbdPolled
    <3>5. Kbd \in tasks
      BY <1>0, <3>3, Zenon DEF Protocol
    <3> QED
      BY <1>0, <2>0, <3>1, <3>2, <3>3, <3>4, <3>5, Zenon DEF Protocol, Held
  <2>3. CASE Accepts /\ ~ WakerFires
    <3>1. /\ pc' = Resume /\ wstate' = AfterWake(wstate) /\ armed' = armed
          /\ UNCHANGED task_queue
      BY <1>0, <1>5, <2>3, Zenon DEF KeyboardInterrupt, add_scancode, InputTypeOK
    <3>2. (Queued <=> Queued') /\ (KbdPolled <=> KbdPolled') /\ pc' # "panic"
      BY <2>0, <3>1, Zenon DEF Queued, KbdPolled, Resume
    <3>3. KbdPolled \/ Queued
      BY <1>0, <2>0, <2>3, Zenon DEF Protocol, WakerFires, Accepts
    <3> QED
      BY <1>0, <2>0, <2>3, <3>1, <3>2, <3>3, Zenon DEF Protocol, Held, AfterWake, Accepts
  <2> QED
    BY <2>1, <2>2, <2>3, Zenon
<1>6. CASE KbdRegistered
  <2>0. /\ pc = "poll" /\ polled = Kbd /\ kpc = "registered" /\ kpc' = "recheck"
        /\ wstate' = "waiting"
        /\ UNCHANGED <<tasks, started_tasks, polled, initialised, scancodes, scancode>>
    BY <1>6, Zenon DEF KbdRegistered, InKbd
  <2>1. CASE wstate = "registering_waking"
    <3>1. /\ PushTask(Kbd) /\ armed' = FALSE
          /\ pc' = IF QueueFull THEN "panic" ELSE pc
      BY <1>6, <2>1, Zenon DEF KbdRegistered
    <3>2. (~ QueueFull => Queued') /\ (pc' # "panic" => Queued' /\ pc' = "poll")
      BY <1>0, <2>0, <3>1, QueuedAfterPush, Zenon
    <3> QED
      BY <1>0, <2>0, <3>1, <3>2, Zenon DEF Protocol, Held, KbdPolled
  <2>2. CASE wstate # "registering_waking"
    <3>1. UNCHANGED <<armed, task_queue, pc>>
      BY <1>6, <2>2 DEF KbdRegistered
    <3>2. Queued <=> Queued'
      BY <3>1, Zenon DEF Queued
    <3> QED
      BY <1>0, <2>0, <3>1, <3>2, Zenon DEF Protocol, Held, KbdPolled
  <2> QED
    BY <2>1, <2>2, Zenon
<1>7. CASE KbdFastPop \/ KbdRecheck
  <2>1. KbdPolled /\ pc # "panic" /\ (Queued <=> Queued')
    BY <1>7, Zenon DEF KbdFastPop, KbdRecheck, InKbd, KbdPolled, execVars, Queued
  <2>2. CASE scancodes = <<>>
    BY <1>0, <1>7, <2>1, <2>2, Zenon
    DEF KbdFastPop, KbdRecheck, InKbd, KbdPolled, Protocol, Held, execVars
  <2>3. CASE scancodes # <<>>
    <3> DEFINE h == Head(scancodes)
    <3>0. h \in 1 .. MaxScancodes
      BY <1>0, <2>3, TailFacts, Zenon DEF InputTypeOK
    <3>1. h # 0
      <4> HIDE DEF h
      <4> QED
        BY <3>0, InputAssumption
    <3>2. /\ scancode' = h /\ kpc \in {"fast", "recheck"} /\ kpc' \in {"decode", "take"}
          /\ UNCHANGED <<tasks, started_tasks, polled, pc, initialised, armed, wstate>>
      BY <1>7, <2>3, Zenon DEF KbdFastPop, KbdRecheck, InKbd, execVars
    <3> HIDE DEF h
    <3> QED
      BY <1>0, <2>1, <3>1, <3>2, Zenon DEF KbdPolled, Protocol, Held
  <2> QED
    BY <2>2, <2>3, Zenon
<1>8. CASE KbdStart \/ KbdRegister \/ KbdTake \/ KbdTaken \/ KbdDecode
  <2>1. KbdPolled /\ KbdPolled' /\ (Queued <=> Queued') /\ Kbd \in started_tasks
    BY <1>0, <1>8, Zenon
    DEF KbdStart, KbdRegister, KbdTake, KbdTaken, KbdDecode, InKbd, KbdPolled, execVars, Queued
  <2> QED
    BY <1>0, <1>8, <2>1, Zenon
    DEF KbdStart, KbdRegister, KbdTake, KbdTaken, KbdDecode, InKbd, Protocol, Held, execVars
<1>9. CASE ReadByte \/ HltLoop \/ UNCHANGED vars
  BY <1>0, <1>9
  DEF ReadByte, HltLoop, vars, execVars, kbdVars, Protocol, Held, Queued, KbdPolled
<1> HIDE DEF Goal
<1> QED
  BY <1>1, <1>2, <1>3, <1>4, <1>5, <1>6, <1>7, <1>8, <1>9, Zenon DEF Next, ExecNext, KbdStep

-----------------------------------------------------------------------------
\* The inductive invariant holds in every reachable state.
THEOREM InputInvariance == Spec => []IInv
<1>1. Init => IInv
  <2> SUFFICES ASSUME Init PROVE IInv
    OBVIOUS
  <2>0. /\ <<>> \in Seq(Tasks) /\ <<>> \in Seq(1 .. MaxScancodes) /\ Len(<<>>) = 0
        /\ Kbd \in Tasks /\ 0 \in 0 .. MaxScancodes
    BY InputAssumption, EmptySeq DEF Tasks
  <2>1. ExecTypeOK
    BY <2>0, ExecutorAssumption DEF Init, ExecInit, ExecTypeOK
  <2>2. /\ scancodes \in Seq(1 .. MaxScancodes) /\ Len(scancodes) <= SCANCODE_QUEUE_CAPACITY
        /\ keys \in Seq(1 .. MaxScancodes) /\ Len(keys) <= KEY_QUEUE_CAPACITY
        /\ bytes \in Seq(1 .. MaxScancodes)
    <3>1. 0 <= SCANCODE_QUEUE_CAPACITY /\ 0 <= KEY_QUEUE_CAPACITY
      BY InputAssumption
    <3> QED
      BY <2>0, <3>1, Zenon DEF Init
  <2>5. InputTypeOK
    BY <2>0, <2>2, Zenon DEF Init, InputTypeOK
  <2>6. Held
    BY DEF Init, Held
  <2>3. Books /\ SleepInv
    BY FS_EmptySet
    DEF Init, ExecInit, Books, BookkeepingAgrees, HandlerNeverFrees, SleepInv,
        NeverHaltsWithWork
  <2>4. ~ Queued
    BY DEF Init, ExecInit, Queued, Range
  <2> QED
    BY <2>1, <2>3, <2>4, <2>5, <2>6, Zenon
    DEF Init, ExecInit, IInv, TypeOK, Protocol, NoLostWakeup, KbdPolled, Queued
<1>2. IInv /\ [Next]_vars => IInv'
  BY ExecTypeStep, InputTypeStep, BooksStep, SleepStep, ProtocolStep, Zenon DEF IInv, TypeOK
<1> QED
  BY <1>1, <1>2, PTL DEF Spec

\* Every variable keeps its type and every queue its capacity.
THEOREM InputTypeCorrect == Spec => []TypeOK
<1>1. IInv => TypeOK
  BY DEF IInv
<1> QED
  BY <1>1, InputInvariance, PTL

\* The check and the sti;hlt of sleep_if_idle lose no wake: with any tasks and
\* any interrupts the CPU is never halted with a task queued.
THEOREM SleepIsSafe == Spec => []NeverHaltsWithWork
<1>1. IInv => NeverHaltsWithWork
  BY Zenon DEF IInv, SleepInv
<1> QED
  BY <1>1, InputInvariance, PTL

\* run_ready_tasks keeps task map, waker cache, start marks and counters in
\* agreement for any number of tasks.
THEOREM BooksAgree == Spec => []BookkeepingAgrees
<1>1. IInv => BookkeepingAgrees
  BY DEF IInv, Books
<1> QED
  BY <1>1, InputInvariance, PTL

\* The waker the interrupt handler consumes is never the last reference.
THEOREM HandlerKeepsTheWaker == Spec => []HandlerNeverFrees
<1>1. IInv => HandlerNeverFrees
  BY DEF IInv, Books
<1> QED
  BY <1>1, InputInvariance, PTL

\* poll_next's register-then-recheck loses no wakeup wherever the interrupt
\* falls, for any capacities and any number of key events.
THEOREM WakeupsAreKept == Spec => []NoLostWakeup
<1>1. IInv => NoLostWakeup
  BY DEF IInv
<1> QED
  BY <1>1, InputInvariance, PTL

-----------------------------------------------------------------------------
(* The way of the key events from the interrupt handler to read_byte.      *)

Events == 1 .. MaxScancodes

Inc(s) == \A i, j \in 1 .. Len(s) : i < j => s[i] < s[j]

Below(A, B) == \A a \in A, b \in B : a < b

LEMMA IncAppend ==
    ASSUME NEW s \in Seq(Events), NEW e \in Events, Inc(s), Below(Range(s), {e})
    PROVE  Inc(Append(s, e))
  <1>1. /\ Len(s) \in Nat /\ DOMAIN s = 1 .. Len(s)
        /\ Len(Append(s, e)) = Len(s) + 1
        /\ \A i \in 1 .. Len(s) : Append(s, e)[i] = s[i]
        /\ Append(s, e)[Len(s) + 1] = e
    BY AppendFacts, LenProperties
  <1>2. \A i \in 1 .. Len(s) : s[i] < e
    BY <1>1, Zenon DEF Below, Range
  <1> DEFINE t == Append(s, e)
  <1> HIDE DEF t
  <1>3. ASSUME NEW i \in 1 .. Len(s) + 1, NEW j \in 1 .. Len(s) + 1, i < j
        PROVE  t[i] < t[j]
    <2>1. i \in 1 .. Len(s) /\ (j \in 1 .. Len(s) \/ j = Len(s) + 1)
      BY <1>1, <1>3
    <2>2. CASE j \in 1 .. Len(s)
      BY <1>1, <1>3, <2>1, <2>2, Zenon DEF Inc, t
    <2>3. CASE j = Len(s) + 1
      BY <1>1, <1>2, <2>1, <2>3, Zenon DEF t
    <2>4. QED
      BY <2>1, <2>2, <2>3, Zenon
  <1>4. QED
    BY <1>1, <1>3, Zenon DEF Inc, t

LEMMA IncTail ==
    ASSUME NEW s \in Seq(Events), s # <<>>, Inc(s)
    PROVE  Inc(Tail(s)) /\ Below({Head(s)}, Range(Tail(s)))
  <1> DEFINE t == Tail(s)
  <1>1. /\ Len(s) \in Nat \ {0} /\ Head(s) = s[1]
        /\ t \in Seq(Events) /\ Len(t) = Len(s) - 1
        /\ \A i \in 1 .. Len(s) - 1 : t[i] = s[i + 1]
    BY TailFacts, Zenon
  <1>2. DOMAIN t = 1 .. Len(s) - 1
    BY <1>1, LenProperties, Zenon
  <1> HIDE DEF t
  <1>3. \A i \in 1 .. Len(s) - 1 : i + 1 \in 1 .. Len(s) /\ 1 < i + 1
    BY <1>1
  <1>4. Inc(t)
    <2>1. SUFFICES ASSUME NEW i \in 1 .. Len(s) - 1, NEW j \in 1 .. Len(s) - 1, i < j
                   PROVE  t[i] < t[j]
      BY <1>1, Zenon DEF Inc
    <2>2. i + 1 < j + 1
      BY <1>1, <2>1
    <2>3. s[i + 1] < s[j + 1]
      BY <1>3, <2>2, Zenon DEF Inc
    <2>4. QED
      BY <1>1, <2>3, Zenon
  <1>5. Below({Head(s)}, Range(t))
    <2>1. 1 \in 1 .. Len(s)
      BY <1>1
    <2>2. \A i \in 1 .. Len(s) - 1 : s[1] < t[i]
      BY <1>1, <1>3, <2>1, Zenon DEF Inc
    <2>3. QED
      BY <1>1, <1>2, <2>2, Zenon DEF Below, Range
  <1>6. QED
    BY <1>4, <1>5, Zenon DEF t

LEMMA IncConcat ==
    ASSUME NEW s \in Seq(Events), NEW t \in Seq(Events), Inc(s), Inc(t),
           Below(Range(s), Range(t))
    PROVE  /\ s \o t \in Seq(Events) /\ Inc(s \o t)
           /\ Range(s \o t) = Range(s) \cup Range(t)
  <1> DEFINE u == s \o t
             m == Len(s)
             n == Len(t)
  <1>1. /\ m \in Nat /\ n \in Nat /\ DOMAIN s = 1 .. m /\ DOMAIN t = 1 .. n
        /\ u \in Seq(Events) /\ Len(u) = m + n
    BY ConcatProperties, LenProperties, Zenon
  <1>2. \A i \in 1 .. m + n : u[i] = IF i <= m THEN s[i] ELSE t[i - m]
    BY <1>1, ConcatProperties, Zenon
  <1>3. DOMAIN u = 1 .. m + n
    BY <1>1, LenProperties, Zenon
  <1> HIDE DEF u, m, n
  <1>4. \A i \in 1 .. m + n : \/ i \in 1 .. m /\ u[i] = s[i]
                              \/ i - m \in 1 .. n /\ i > m /\ u[i] = t[i - m]
    BY <1>1, <1>2
  <1>5. \A i \in 1 .. m, j \in 1 .. n : s[i] < t[j]
    BY <1>1, Zenon DEF Below, Range
  <1>6. ASSUME NEW i \in 1 .. m + n, NEW j \in 1 .. m + n, i < j
        PROVE  u[i] < u[j]
    <2>1. CASE i \in 1 .. m /\ u[i] = s[i] /\ j \in 1 .. m /\ u[j] = s[j]
      BY <1>6, <2>1, Zenon DEF Inc, m
    <2>2. CASE i \in 1 .. m /\ u[i] = s[i] /\ j - m \in 1 .. n /\ u[j] = t[j - m]
      BY <1>5, <2>2
    <2>3. CASE i - m \in 1 .. n /\ u[i] = t[i - m] /\ j - m \in 1 .. n /\ u[j] = t[j - m]
      <3>1. i - m < j - m
        BY <1>1, <1>6
      <3>2. QED
        BY <2>3, <3>1, Zenon DEF Inc, n
    <2>4. ~ (i > m /\ j \in 1 .. m)
      BY <1>1, <1>6
    <2>5. QED
      BY <1>4, <2>1, <2>2, <2>3, <2>4, Zenon
  <1>7. Inc(u)
    BY <1>1, <1>6, Zenon DEF Inc
  <1>8. Range(u) \subseteq Range(s) \cup Range(t)
    BY <1>1, <1>3, <1>4, Zenon DEF Range
  <1>9. \A i \in 1 .. m : i \in 1 .. m + n /\ u[i] = s[i]
    BY <1>1, <1>2
  <1>10. \A i \in 1 .. n : i + m \in 1 .. m + n /\ u[i + m] = t[i]
    <2>1. SUFFICES ASSUME NEW i \in 1 .. n
                   PROVE  i + m \in 1 .. m + n /\ u[i + m] = t[i]
      OBVIOUS
    <2>2. i + m \in 1 .. m + n /\ ~ (i + m <= m) /\ (i + m) - m = i
      BY <1>1
    <2>3. QED
      BY <1>2, <2>2, Zenon
  <1>11. Range(s) \cup Range(t) \subseteq Range(u)
    BY <1>1, <1>3, <1>9, <1>10, Zenon DEF Range
  <1>12. QED
    BY <1>1, <1>7, <1>8, <1>11, Zenon DEF u

-----------------------------------------------------------------------------
\* What the keyboard task has in hand.
Hand == {scancode} \ {0}

\* The three queues ascend, each after the ones further down the pipeline.
Order ==
    /\ Inc(bytes) /\ Inc(keys) /\ Inc(scancodes)
    /\ Below(Range(bytes), Range(keys))
    /\ Below(Range(bytes) \cup Range(keys), Hand \cup Range(scancodes))
    /\ Below(Hand, Range(scancodes))

\* Every event is in one place; what read_byte sees was an event.
Places ==
    /\ Range(bytes) \cup Range(keys) \subseteq 1 .. events
    /\ 1 .. events = dropped \cup decoded \cup Range(scancodes) \cup Hand
    /\ decoded \cap (Range(scancodes) \cup Hand) = {}

Counts ==
    events = Cardinality(dropped) + Cardinality(decoded) + Len(scancodes) + Cardinality(Hand)

\* What became of the decoded ones.
Fates ==
    /\ decoded = silent \cup overrun \cup Range(keys) \cup Range(bytes)
    /\ Cardinality(decoded) =
          Cardinality(silent) + Cardinality(overrun) + Len(keys) + Len(bytes)

FlowInv == Order /\ Places /\ Counts /\ Fates

\* The bounds within which the pipeline works.
LEMMA FlowTypes ==
    ASSUME IInv
    PROVE  /\ bytes \in Seq(Events) /\ keys \in Seq(Events) /\ scancodes \in Seq(Events)
           /\ Len(scancodes) \in Nat /\ Len(keys) \in Nat /\ Len(bytes) \in Nat
           /\ events \in Nat /\ scancode \in 0 .. MaxScancodes
           /\ \A s \in {dropped, decoded, silent, overrun} :
                 IsFiniteSet(s) /\ Cardinality(s) \in Nat
  <1>1. /\ bytes \in Seq(Events) /\ keys \in Seq(Events) /\ scancodes \in Seq(Events)
        /\ events \in 0 .. MaxScancodes /\ scancode \in 0 .. MaxScancodes
        /\ \A s \in {dropped, decoded, silent, overrun} : s \in SUBSET Events
    BY Zenon DEF IInv, TypeOK, InputTypeOK, Events
  <1>2. IsFiniteSet(Events)
    <2>1. 1 \in Int /\ MaxScancodes \in Int
      BY InputAssumption
    <2>2. QED
      BY <2>1, FS_Interval DEF Events
  <1>3. \A s \in {dropped, decoded, silent, overrun} : IsFiniteSet(s)
    BY <1>1, <1>2, FS_Subset
  <1>4. \A s \in {dropped, decoded, silent, overrun} : Cardinality(s) \in Nat
    BY <1>3, FS_CardinalityType
  <1>5. /\ Len(scancodes) \in Nat /\ Len(keys) \in Nat /\ Len(bytes) \in Nat
        /\ events \in Nat
    BY <1>1, LenProperties
  <1>6. QED
    BY <1>1, <1>3, <1>4, <1>5, Zenon

\* The task's hand is empty or holds one scancode.
LEMMA HandFacts ==
    ASSUME scancode \in 0 .. MaxScancodes
    PROVE  /\ scancode = 0 => Hand = {} /\ Cardinality(Hand) = 0
           /\ scancode # 0 => Hand = {scancode} /\ Cardinality(Hand) = 1
  <1>1. CASE scancode = 0
    <2>1. Hand = {}
      BY <1>1 DEF Hand
    <2>2. QED
      BY <1>1, <2>1, FS_EmptySet, Zenon
  <1>2. CASE scancode # 0
    <2>1. Hand = {scancode}
      BY <1>2, Zenon DEF Hand
    <2>2. QED
      BY <1>2, <2>1, FS_Singleton, Zenon
  <1>3. QED
    BY <1>1, <1>2

LEMMA InterruptFlow ==
    ASSUME IInv, FlowInv, KeyboardInterrupt
    PROVE  FlowInv'
  <1> DEFINE e == events + 1
  <1>1. /\ bytes \in Seq(Events) /\ keys \in Seq(Events) /\ scancodes \in Seq(Events)
        /\ Len(scancodes) \in Nat /\ events \in Nat
        /\ IsFiniteSet(dropped) /\ Cardinality(dropped) \in Nat
        /\ Cardinality(decoded) \in Nat /\ Cardinality(Hand) \in Nat
    BY FlowTypes, HandFacts
  <1>2. /\ events' = e /\ UNCHANGED <<bytes, keys, scancode, decoded, silent, overrun>>
        /\ \/ scancodes' = Append(scancodes, e) /\ dropped' = dropped
           \/ scancodes' = scancodes /\ dropped' = dropped \cup {e}
    BY Zenon DEF KeyboardInterrupt, add_scancode, outcomes
  <1>3. e \in Events /\ e \in Nat /\ e \notin 1 .. events
    BY <1>1, InputAssumption DEF KeyboardInterrupt, Events
  <1>4. 1 .. events' = (1 .. events) \cup {e}
    BY <1>1, <1>2
  <1>5. Hand' = Hand
    BY <1>2 DEF Hand
  <1>6. \A x \in 1 .. events : x < e
    BY <1>1
  <1>7. /\ Range(scancodes) \subseteq 1 .. events /\ Hand \subseteq 1 .. events
        /\ Range(bytes) \cup Range(keys) \subseteq 1 .. events
        /\ dropped \subseteq 1 .. events /\ decoded \subseteq 1 .. events
    BY Zenon DEF FlowInv, Places
  <1>8. Fates'
    BY <1>2 DEF FlowInv, Fates
  <1>9. CASE scancodes' = Append(scancodes, e) /\ dropped' = dropped
    <2>1. /\ Len(scancodes') = Len(scancodes) + 1
          /\ Range(scancodes') = Range(scancodes) \cup {e}
      BY <1>1, <1>3, <1>9, AppendFacts
    <2>2. Inc(scancodes')
      <3>1. Below(Range(scancodes), {e}) /\ Inc(scancodes)
        BY <1>6, <1>7, Zenon DEF Below, FlowInv, Order
      <3>2. QED
        BY <1>1, <1>3, <1>9, <3>1, IncAppend, Zenon
    <2> HIDE DEF e
    <2>3. Order'
      BY <1>2, <1>5, <1>6, <1>7, <2>1, <2>2, ZenonT(30) DEF FlowInv, Order, Below
    <2>4. Places'
      BY <1>2, <1>3, <1>4, <1>5, <1>7, <1>9, <2>1 DEF FlowInv, Places
    <2>5. Counts'
      BY <1>1, <1>2, <1>5, <1>9, <2>1 DEF FlowInv, Counts, e
    <2>6. QED
      BY <1>8, <2>3, <2>4, <2>5, Zenon DEF FlowInv
  <1>10. CASE scancodes' = scancodes /\ dropped' = dropped \cup {e}
    <2>1. Cardinality(dropped') = Cardinality(dropped) + 1
      BY <1>1, <1>3, <1>7, <1>10, FS_AddElement, Zenon
    <2> HIDE DEF e
    <2>2. Order'
      BY <1>2, <1>5, <1>10 DEF FlowInv, Order, Below
    <2>3. Places'
      BY <1>2, <1>4, <1>5, <1>7, <1>10, Zenon DEF FlowInv, Places
    <2>4. Counts'
      BY <1>1, <1>2, <1>5, <1>10, <2>1 DEF FlowInv, Counts, e
    <2>5. QED
      BY <1>8, <2>2, <2>3, <2>4, Zenon DEF FlowInv
  <1>11. QED
    BY <1>2, <1>9, <1>10, Zenon

LEMMA PopFlow ==
    ASSUME IInv, FlowInv, scancodes # <<>>, scancode = 0,
           scancode' = Head(scancodes), scancodes' = Tail(scancodes),
           UNCHANGED <<keys, bytes, events, dropped, decoded, silent, overrun>>
    PROVE  FlowInv'
  <1> DEFINE h == Head(scancodes)
  <1>1. /\ scancodes \in Seq(Events) /\ Len(scancodes) \in Nat
        /\ Cardinality(dropped) \in Nat /\ Cardinality(decoded) \in Nat
        /\ Hand = {} /\ Cardinality(Hand) = 0
    BY FlowTypes, HandFacts, Zenon
  <1>2. /\ h \in Events /\ Len(scancodes') = Len(scancodes) - 1
        /\ Range(scancodes) = {h} \cup Range(scancodes')
    BY <1>1, TailFacts, Zenon
  <1>3. Inc(scancodes') /\ Below({h}, Range(scancodes'))
    BY <1>1, IncTail, Zenon DEF FlowInv, Order
  <1>4. Hand' = {h} /\ Cardinality(Hand') = 1
    <2>1. h # 0
      BY <1>2 DEF Events
    <2>2. Hand' = {h}
      BY <2>1, Zenon DEF Hand
    <2>3. QED
      BY <2>2, FS_Singleton, Zenon
  <1> HIDE DEF h
  <1>6. Order'
    BY <1>1, <1>2, <1>3, <1>4, Zenon DEF FlowInv, Order, Below
  <1>7. Places'
    BY <1>1, <1>2, <1>4, Zenon DEF FlowInv, Places
  <1>8. Counts'
    BY <1>1, <1>2, <1>4 DEF FlowInv, Counts
  <1>9. Fates'
    BY DEF FlowInv, Fates
  <1>10. QED
    BY <1>6, <1>7, <1>8, <1>9, Zenon DEF FlowInv

LEMMA DecodeFlow ==
    ASSUME IInv, FlowInv, KbdDecode
    PROVE  FlowInv'
  <1> DEFINE c == scancode
  <1>1. /\ keys \in Seq(Events) /\ Len(scancodes) \in Nat /\ events \in Nat
        /\ scancode \in 0 .. MaxScancodes
        /\ IsFiniteSet(decoded) /\ Cardinality(decoded) \in Nat
        /\ Cardinality(dropped) \in Nat
    BY FlowTypes, Zenon
  <1>2. /\ scancode' = 0 /\ decoded' = decoded \cup {c}
        /\ keys' = keys \/ keys' = Append(keys, c)
        /\ UNCHANGED <<scancodes, events, dropped, bytes>>
    BY Zenon DEF KbdDecode
  <1>3. c # 0 /\ c \in Events
    <2>1. c # 0
      BY Zenon DEF KbdDecode, InKbd, IInv, Held
    <2>2. QED
      BY <1>1, <2>1, InputAssumption DEF Events
  <1>4. Hand = {c} /\ Cardinality(Hand) = 1
    BY <1>1, <1>3, HandFacts, Zenon
  <1>5. Hand' = {} /\ Cardinality(Hand') = 0
    <2>1. Hand' = {}
      BY <1>2, Zenon DEF Hand
    <2>2. QED
      BY <2>1, FS_EmptySet, Zenon
  <1>6. /\ Cardinality(decoded') = Cardinality(decoded) + 1
        /\ c \notin Range(scancodes)
    <2>1. c \notin decoded
      BY <1>4, Zenon DEF FlowInv, Places
    <2>2. ~ (c < c)
      BY <1>1
    <2>3. c \notin Range(scancodes)
      BY <1>4, <2>2, Zenon DEF FlowInv, Order, Below
    <2>4. QED
      BY <1>1, <1>2, <2>1, <2>3, FS_AddElement, Zenon
  <1>7. Inc(keys') /\ Range(keys') \subseteq Range(keys) \cup {c}
    <2>1. CASE keys' = keys
      BY <2>1 DEF FlowInv, Order
    <2>2. CASE keys' = Append(keys, c)
      <3>1. Range(keys') = Range(keys) \cup {c}
        BY <1>1, <1>3, <2>2, AppendFacts
      <3>2. Below(Range(keys), {c}) /\ Inc(keys)
        BY <1>4, Zenon DEF FlowInv, Order, Below
      <3>3. Inc(keys')
        BY <1>1, <1>3, <2>2, <3>2, IncAppend, Zenon
      <3>4. QED
        BY <3>1, <3>3, Zenon
    <2>3. QED
      BY <1>2, <2>1, <2>2, Zenon
  <1> HIDE DEF c
  <1>8. Order'
    BY <1>2, <1>4, <1>5, <1>7, Zenon DEF FlowInv, Order, Below
  <1>9. Places'
    BY <1>2, <1>4, <1>5, <1>6, <1>7, Zenon DEF FlowInv, Places
  <1>10. Counts'
    BY <1>1, <1>2, <1>4, <1>5, <1>6 DEF FlowInv, Counts
  <1>11. Fates'
    <2>1. /\ c \notin silent /\ c \notin overrun
          /\ Len(keys) \in Nat /\ Len(bytes) \in Nat
          /\ IsFiniteSet(silent) /\ Cardinality(silent) \in Nat
          /\ IsFiniteSet(overrun) /\ Cardinality(overrun) \in Nat
      <3>1. c \notin decoded
        BY <1>4, Zenon DEF FlowInv, Places
      <3>2. QED
        BY <3>1, FlowTypes, Zenon DEF FlowInv, Fates
    <2>2. /\ decoded = silent \cup overrun \cup Range(keys) \cup Range(bytes)
          /\ Cardinality(decoded) =
                Cardinality(silent) + Cardinality(overrun) + Len(keys) + Len(bytes)
      BY Zenon DEF FlowInv, Fates
    <2>3. CASE silent' = silent \cup {c} /\ UNCHANGED <<keys, overrun>>
      <3>1. Cardinality(silent') = Cardinality(silent) + 1
        BY <2>1, <2>3, FS_AddElement, Zenon
      <3>2. decoded' = silent' \cup overrun' \cup Range(keys') \cup Range(bytes')
        BY <1>2, <2>2, <2>3, Zenon
      <3>3. Cardinality(decoded') =
               Cardinality(silent') + Cardinality(overrun') + Len(keys') + Len(bytes')
        BY <1>2, <1>6, <2>1, <2>2, <2>3, <3>1
      <3>4. QED
        BY <3>2, <3>3, Zenon DEF Fates
    <2>4. CASE keys' = Append(keys, c) /\ UNCHANGED <<silent, overrun>>
      <3>1. Len(keys') = Len(keys) + 1 /\ Range(keys') = Range(keys) \cup {c}
        BY <1>1, <1>3, <2>4, AppendFacts
      <3>2. decoded' = silent' \cup overrun' \cup Range(keys') \cup Range(bytes')
        BY <1>2, <2>2, <2>4, <3>1, Zenon
      <3>3. Cardinality(decoded') =
               Cardinality(silent') + Cardinality(overrun') + Len(keys') + Len(bytes')
        BY <1>2, <1>6, <2>1, <2>2, <2>4, <3>1
      <3>4. QED
        BY <3>2, <3>3, Zenon DEF Fates
    <2>5. CASE overrun' = overrun \cup {c} /\ UNCHANGED <<keys, silent>>
      <3>1. Cardinality(overrun') = Cardinality(overrun) + 1
        BY <2>1, <2>5, FS_AddElement, Zenon
      <3>2. decoded' = silent' \cup overrun' \cup Range(keys') \cup Range(bytes')
        BY <1>2, <2>2, <2>5, Zenon
      <3>3. Cardinality(decoded') =
               Cardinality(silent') + Cardinality(overrun') + Len(keys') + Len(bytes')
        BY <1>2, <1>6, <2>1, <2>2, <2>5, <3>1
      <3>4. QED
        BY <3>2, <3>3, Zenon DEF Fates
    <2>6. QED
      BY <2>3, <2>4, <2>5, Zenon DEF KbdDecode, c
  <1>12. QED
    BY <1>8, <1>9, <1>10, <1>11, Zenon DEF FlowInv

LEMMA ReadFlow ==
    ASSUME IInv, FlowInv, ReadByte
    PROVE  FlowInv'
  <1> DEFINE h == Head(keys)
  <1>1. bytes \in Seq(Events) /\ keys \in Seq(Events) /\ keys # <<>>
    BY FlowTypes DEF ReadByte
  <1>2. /\ bytes' = Append(bytes, h) /\ keys' = Tail(keys)
        /\ UNCHANGED <<scancodes, scancode, events, dropped, decoded, silent, overrun>>
    BY DEF ReadByte
  <1>3. /\ h \in Events /\ Range(keys) = {h} \cup Range(keys')
        /\ Len(keys') = Len(keys) - 1
    BY <1>1, <1>2, TailFacts, Zenon
  <1>4. Inc(keys') /\ Below({h}, Range(keys'))
    BY <1>1, <1>2, IncTail, Zenon DEF FlowInv, Order
  <1>5. Range(bytes') = Range(bytes) \cup {h} /\ Len(bytes') = Len(bytes) + 1
    BY <1>1, <1>2, <1>3, AppendFacts
  <1>6. Inc(bytes')
    <2>1. Below(Range(bytes), {h}) /\ Inc(bytes)
      BY <1>3, Zenon DEF FlowInv, Order, Below
    <2>2. QED
      BY <1>1, <1>2, <1>3, <2>1, IncAppend, Zenon
  <1> HIDE DEF h
  <1>7. Hand' = Hand /\ Range(bytes') \cup Range(keys') = Range(bytes) \cup Range(keys)
    BY <1>2, <1>3, <1>5, Zenon DEF Hand
  <1>8. Below(Range(bytes'), Range(keys'))
    BY <1>3, <1>4, <1>5, Zenon DEF FlowInv, Order, Below
  <1>9. Order'
    BY <1>2, <1>4, <1>6, <1>7, <1>8, Zenon DEF FlowInv, Order
  <1>10. Places' /\ Counts'
    BY <1>2, <1>7 DEF FlowInv, Places, Counts
  <1>11. Fates'
    <2>1. /\ Len(keys) \in Nat /\ Len(bytes) \in Nat
          /\ Cardinality(silent) \in Nat /\ Cardinality(overrun) \in Nat
      BY FlowTypes, Zenon
    <2>2. Len(keys) + Len(bytes) = Len(keys') + Len(bytes')
      BY <1>3, <1>5, <2>1
    <2>3. Len(keys') \in Int /\ Len(bytes') \in Int
      BY <1>3, <1>5, <2>1
    <2>4. decoded' = silent' \cup overrun' \cup Range(keys') \cup Range(bytes')
      BY <1>2, <1>7, Zenon DEF FlowInv, Fates
    <2>5. Cardinality(decoded) =
             Cardinality(silent) + Cardinality(overrun) + Len(keys) + Len(bytes)
      BY Zenon DEF FlowInv, Fates
    <2>6. Cardinality(decoded) =
             Cardinality(silent) + Cardinality(overrun) + Len(keys') + Len(bytes')
      BY <2>1, <2>2, <2>3, <2>5
    <2>7. QED
      BY <1>2, <2>4, <2>6, Zenon DEF Fates
  <1>12. QED
    BY <1>9, <1>10, <1>11, Zenon DEF FlowInv

LEMMA FlowStep == IInv /\ FlowInv /\ [Next]_vars => FlowInv'
  <1> SUFFICES ASSUME IInv, FlowInv, [Next]_vars PROVE FlowInv'
    OBVIOUS
  <1>1. CASE UNCHANGED <<scancodes, scancode, keys, bytes, events, dropped, decoded, silent,
                         overrun>>
    <2>1. Hand' = Hand
      BY <1>1 DEF Hand
    <2>2. QED
      BY <1>1, <2>1, Zenon DEF FlowInv, Order, Places, Counts, Fates
  <1>2. CASE KbdFastPop \/ KbdRecheck
    <2>1. scancode = 0
      BY <1>2, Zenon DEF KbdFastPop, KbdRecheck, InKbd, IInv, Held
    <2>2. CASE scancodes # <<>>
      BY <1>2, <2>1, <2>2, PopFlow, Zenon DEF KbdFastPop, KbdRecheck, outcomes
    <2>3. CASE scancodes = <<>>
      BY <1>1, <1>2, <2>3, Zenon DEF KbdFastPop, KbdRecheck, outcomes
    <2>4. QED
      BY <2>2, <2>3
  <1>3. CASE KbdStart \/ KbdRegister \/ KbdRegistered \/ KbdTake \/ KbdTaken
    BY <1>1, <1>3, Zenon
    DEF KbdStart, KbdRegister, KbdRegistered, KbdTake, KbdTaken, outcomes
  <1>4. CASE UNCHANGED kbdVars
    BY <1>1, <1>4 DEF kbdVars, outcomes
  <1>5. QED
    BY <1>2, <1>3, <1>4, InterruptFlow, DecodeFlow, ReadFlow
    DEF Next, KbdStep, HltLoop, vars

LEMMA FlowInit == Init => FlowInv
  <1> SUFFICES ASSUME Init PROVE FlowInv
    OBVIOUS
  <1>1. /\ bytes = <<>> /\ keys = <<>> /\ scancodes = <<>> /\ scancode = 0
        /\ events = 0 /\ dropped = {} /\ decoded = {} /\ silent = {} /\ overrun = {}
    BY DEF Init
  <1>2. Range(<<>>) = {} /\ Len(<<>>) = 0
    BY DEF Range
  <1>3. Hand = {} /\ Cardinality({}) = 0
    BY <1>1, FS_EmptySet, Zenon DEF Hand
  <1>4. Inc(<<>>)
    BY <1>2 DEF Inc
  <1>5. Order
    BY <1>1, <1>2, <1>3, <1>4, Zenon DEF Order, Below
  <1>6. Places /\ Counts /\ Fates
    <2>1. 1 .. 0 = {}
      OBVIOUS
    <2>2. QED
      BY <1>1, <1>2, <1>3, <2>1 DEF Places, Counts, Fates
  <1>7. QED
    BY <1>5, <1>6, Zenon DEF FlowInv

LEMMA FlowIsEventsKept ==
    ASSUME IInv, FlowInv
    PROVE  EventsKept
  <1> DEFINE held == IF scancode = 0 THEN <<>> ELSE <<scancode>>
             bk == bytes \o keys
             bkh == bk \o held
  <1>1. /\ bytes \in Seq(Events) /\ keys \in Seq(Events) /\ scancodes \in Seq(Events)
        /\ scancode \in 0 .. MaxScancodes /\ MaxScancodes \in Nat
    BY FlowTypes, InputAssumption, Zenon
  <1>2. held \in Seq(Events) /\ Inc(held) /\ Range(held) = Hand
    <2>1. CASE scancode = 0
      <3>1. held = <<>> /\ Hand = {}
        BY <1>1, <2>1, HandFacts, Zenon
      <3>2. Range(<<>>) = {} /\ <<>> \in Seq(Events) /\ Inc(<<>>)
        BY DEF Range, Inc
      <3>3. QED
        BY <3>1, <3>2, Zenon
    <2>2. CASE scancode # 0
      <3>1. held = <<scancode>> /\ Hand = {scancode} /\ scancode \in Events
        BY <1>1, <2>2, HandFacts DEF Events
      <3>2. /\ <<scancode>> \in Seq(Events) /\ Len(<<scancode>>) = 1
            /\ DOMAIN <<scancode>> = {1} /\ <<scancode>>[1] = scancode
        BY <3>1
      <3>3. Range(<<scancode>>) = {scancode}
        BY <3>2, Zenon DEF Range
      <3>4. Inc(<<scancode>>)
        <4>1. \A i, j \in 1 .. 1 : ~ (i < j)
          OBVIOUS
        <4>2. QED
          BY <3>2, <4>1, Zenon DEF Inc
      <3>5. QED
        BY <3>1, <3>2, <3>3, <3>4, Zenon
    <2>3. QED
      BY <2>1, <2>2, Zenon
  <1> HIDE DEF held
  <1>3. bk \in Seq(Events) /\ Inc(bk) /\ Range(bk) = Range(bytes) \cup Range(keys)
    BY <1>1, IncConcat, Zenon DEF FlowInv, Order
  <1> HIDE DEF bk
  <1>4. bkh \in Seq(Events) /\ Inc(bkh) /\ Range(bkh) = Range(bk) \cup Hand
    <2>1. Below(Range(bk), Range(held))
      BY <1>2, <1>3 DEF FlowInv, Order, Below
    <2>2. QED
      BY <1>2, <1>3, <2>1, IncConcat, Zenon
  <1> HIDE DEF bkh
  <1>5. Inc(bkh \o scancodes)
    <2>1. Below(Range(bkh), Range(scancodes)) /\ Inc(scancodes)
      BY <1>3, <1>4 DEF FlowInv, Order, Below
    <2>2. QED
      BY <1>1, <1>4, <2>1, IncConcat, Zenon
  <1>6. Inc(InFlight)
    BY <1>5 DEF InFlight, bkh, bk, held
  <1>7. QED
    BY <1>6, Zenon DEF EventsKept, Inc, FlowInv, Places, Counts, Fates, Hand

\* However the interrupts fall between the steps of poll_next, and whatever
\* the capacities of the two queues, read_byte returns key events in order and
\* none twice, and every event is accounted for: dropped by the handler,
\* waiting, in the task's hand or decoded, and a decoded one without a byte, or
\* with its byte lost to the full KEY_QUEUE, waiting in it or read.
THEOREM EventsAreKept == Spec => []EventsKept
  <1>1. Init => FlowInv
    BY FlowInit, Zenon
  <1>2. IInv /\ FlowInv /\ [Next]_vars => FlowInv'
    BY FlowStep
  <1>3. IInv /\ FlowInv => EventsKept
    BY FlowIsEventsKept
  <1>4. QED
    BY <1>1, <1>2, <1>3, InputInvariance, PTL DEF Spec
=============================================================================

---------------------------- MODULE ThreadsProofs ----------------------------
(***************************************************************************)
(* Proofs about Threads, for any number of threads, stacks and tags: its   *)
(* invariants, and that it implements RoundRobin.                          *)
(***************************************************************************)
EXTENDS ThreadsRefinement, SequenceTheorems, FiniteSetTheorems, TLAPS

\* Popping the front of a queue without duplicates.
LEMMA PopFront ==
    ASSUME NEW S, NEW q \in Seq(S), q # <<>>, IsInjective(q)
    PROVE  /\ Head(q) \in S
           /\ Head(q) = q[1]
           /\ Head(q) \in Range(q)
           /\ Tail(q) \in Seq(S)
           /\ Len(Tail(q)) = Len(q) - 1
           /\ \A i \in 1 .. Len(q) - 1 : Tail(q)[i] = q[i + 1]
           /\ IsInjective(Tail(q))
           /\ Range(Tail(q)) = Range(q) \ {Head(q)}
  <1>1. Len(q) \in Nat \ {0} /\ DOMAIN q = 1 .. Len(q)
    BY EmptySeq, LenProperties, Zenon
  <1>2. /\ Head(q) \in S
        /\ Tail(q) \in Seq(S)
        /\ Len(Tail(q)) = Len(q) - 1
        /\ \A i \in 1 .. Len(Tail(q)) : Tail(q)[i] = q[i + 1]
    BY HeadTailProperties
  <1>3. DOMAIN Tail(q) = 1 .. Len(q) - 1
    BY <1>2, LenProperties
  <1>4. Head(q) = q[1]
    OBVIOUS
  <1>5. Head(q) \in Range(q)
    BY <1>1, <1>4 DEF Range
  <1>6. \A i \in 1 .. Len(q) - 1 : Tail(q)[i] = q[i + 1]
    BY <1>2
  <1>7. IsInjective(Tail(q))
    BY <1>1, <1>3, <1>6 DEF IsInjective
  <1>8. Range(Tail(q)) = Range(q) \ {Head(q)}
    <2>1. ASSUME NEW x \in Range(Tail(q)) PROVE x \in Range(q) \ {Head(q)}
      <3>1. PICK i \in 1 .. Len(q) - 1 : x = Tail(q)[i]
        BY <1>3, <2>1 DEF Range
      <3>2. i + 1 \in 1 .. Len(q) /\ i + 1 # 1 /\ 1 \in 1 .. Len(q)
        BY <1>1
      <3>3. QED
        BY <1>1, <1>4, <1>6, <3>1, <3>2 DEF Range, IsInjective
    <2>2. ASSUME NEW x \in Range(q) \ {Head(q)} PROVE x \in Range(Tail(q))
      <3>1. PICK i \in 1 .. Len(q) : x = q[i]
        BY <1>1, <2>2 DEF Range
      <3>2. i # 1
        BY <1>4, <2>2, <3>1
      <3>3. i - 1 \in 1 .. Len(q) - 1 /\ (i - 1) + 1 = i
        BY <1>1, <3>2
      <3>4. QED
        BY <1>3, <1>6, <3>1, <3>3, Zenon DEF Range
    <2>3. QED
      BY <2>1, <2>2
  <1>9. QED
    BY <1>2, <1>4, <1>5, <1>6, <1>7, <1>8, Zenon

\* Pushing a new element at the back of a queue without duplicates.
LEMMA PushBack ==
    ASSUME NEW S, NEW q \in Seq(S), NEW e \in S, e \notin Range(q), IsInjective(q)
    PROVE  /\ Append(q, e) \in Seq(S)
           /\ Append(q, e) # <<>>
           /\ Len(Append(q, e)) = Len(q) + 1
           /\ \A i \in 1 .. Len(q) : Append(q, e)[i] = q[i]
           /\ Append(q, e)[Len(q) + 1] = e
           /\ IsInjective(Append(q, e))
           /\ Range(Append(q, e)) = Range(q) \cup {e}
  <1>1. Len(q) \in Nat /\ DOMAIN q = 1 .. Len(q)
    BY LenProperties
  <1>2. /\ Append(q, e) \in Seq(S)
        /\ Append(q, e) # <<>>
        /\ Len(Append(q, e)) = Len(q) + 1
        /\ \A i \in 1 .. Len(q) : Append(q, e)[i] = q[i]
        /\ Append(q, e)[Len(q) + 1] = e
    BY AppendProperties
  <1>3. DOMAIN Append(q, e) = 1 .. Len(q) + 1
    BY <1>2, LenProperties
  <1>4. \A i \in 1 .. Len(q) + 1 : i \in 1 .. Len(q) \/ i = Len(q) + 1
    BY <1>1
  <1>5. \A i \in 1 .. Len(q) : q[i] # e
    BY <1>1 DEF Range
  <1>6. IsInjective(Append(q, e))
    <2>1. SUFFICES ASSUME NEW i \in 1 .. Len(q) + 1, NEW j \in 1 .. Len(q) + 1,
                          Append(q, e)[i] = Append(q, e)[j]
                   PROVE  i = j
      BY <1>3 DEF IsInjective
    <2>2. CASE i \in 1 .. Len(q) /\ j \in 1 .. Len(q)
      BY <1>1, <1>2, <2>1, <2>2, Zenon DEF IsInjective
    <2>3. QED
      BY <1>2, <1>4, <1>5, <2>1, <2>2
  <1>7. Range(Append(q, e)) = Range(q) \cup {e}
    <2>1. ASSUME NEW x \in Range(Append(q, e)) PROVE x \in Range(q) \cup {e}
      BY <1>1, <1>2, <1>3, <1>4, <2>1, Zenon DEF Range
    <2>2. ASSUME NEW x \in Range(q) PROVE x \in Range(Append(q, e))
      <3>1. PICK i \in 1 .. Len(q) : x = q[i]
        BY <1>1, <2>2 DEF Range
      <3>2. i \in 1 .. Len(q) + 1
        BY <1>1
      <3>3. QED
        BY <1>2, <1>3, <3>1, <3>2, Zenon DEF Range
    <2>3. e \in Range(Append(q, e))
      <3>1. Len(q) + 1 \in 1 .. Len(q) + 1
        BY <1>1
      <3>2. QED
        BY <1>2, <1>3, <3>1 DEF Range
    <2>4. QED
      BY <2>1, <2>2, <2>3
  <1>8. QED
    BY <1>2, <1>6, <1>7

\* Moving a new element in at the back while the front leaves.
LEMMA Rotate ==
    ASSUME NEW S, NEW q \in Seq(S), q # <<>>, IsInjective(q),
           NEW e \in S, e \notin Range(q)
    PROVE  /\ Append(Tail(q), e) \in Seq(S)
           /\ Len(Append(Tail(q), e)) = Len(q)
           /\ \A i \in 1 .. Len(q) - 1 : Append(Tail(q), e)[i] = q[i + 1]
           /\ Append(Tail(q), e)[Len(q)] = e
           /\ IsInjective(Append(Tail(q), e))
           /\ Range(Append(Tail(q), e)) = Range(Tail(q)) \cup {e}
  <1> DEFINE r == Tail(q)
  <1>1. /\ r \in Seq(S)
        /\ Len(r) = Len(q) - 1
        /\ \A i \in 1 .. Len(q) - 1 : r[i] = q[i + 1]
        /\ IsInjective(r)
        /\ e \notin Range(r)
    BY PopFront
  <1>2. Len(q) \in Nat
    BY LenProperties, Zenon
  <1> HIDE DEF r
  <1>3. /\ Append(r, e) \in Seq(S)
        /\ Len(Append(r, e)) = Len(r) + 1
        /\ \A i \in 1 .. Len(r) : Append(r, e)[i] = r[i]
        /\ Append(r, e)[Len(r) + 1] = e
        /\ IsInjective(Append(r, e))
        /\ Range(Append(r, e)) = Range(r) \cup {e}
    BY <1>1, PushBack
  <1>4. /\ Append(r, e) \in Seq(S)
        /\ Len(Append(r, e)) = Len(q)
        /\ \A i \in 1 .. Len(q) - 1 : Append(r, e)[i] = q[i + 1]
        /\ Append(r, e)[Len(q)] = e
        /\ IsInjective(Append(r, e))
        /\ Range(Append(r, e)) = Range(r) \cup {e}
    BY <1>1, <1>2, <1>3
  <1>5. QED
    BY <1>4 DEF r

-----------------------------------------------------------------------------

\* The boxes: a thread is in the map until it exits, then in one of the two
\* slots until it is dropped; the slots are empty at the points of a call
\* where the code relies on it.
BoxInv ==
    /\ threads = (1 .. nextId - 1) \ exited
    /\ exited \subseteq (1 .. nextId - 1) \cup {BOOTSTRAP_ID}
    /\ reaper # None => reaper \in exited
    /\ toDrop # None => toDrop \in exited
    /\ pc # "drop" => toDrop = None
    /\ pc \in {"drop", "select"} => reaper = None

\* Where the CPU is: on the stack of `current`, except between the choice and
\* the switch, when it is on the stack of `prev`.
StackInv ==
    /\ pc # "switch" => stack = current
    /\ pc = "switch" => /\ stack = prev
                        /\ current # prev
    /\ pc = "switch" /\ op = "yield" => prev \in Runnable
    /\ pc = "switch" /\ op = "exit" => prev \notin Runnable
    /\ (pc = "switch" /\ op = "exit") \/ pc = "no_next" =>
          stack = BOOTSTRAP_ID \/ stack = reaper
    /\ pc \notin {"missing", "reaper_busy"}
    /\ pc = "no_next" => Runnable = {}

\* Every runnable thread the CPU is not on has a frame on its own stack.
FrameInv == \A t \in Runnable : t # stack => context[t] = t

\* The counters, and what the heap held when a stack could not be allocated.
CountInv ==
    /\ alive = Cardinality(Boxes)
    /\ spawned = nextId - 1
    /\ pc = "oom" => alive >= StackSlots

IInv == TypeOK /\ BoxInv /\ NoThreadLost /\ StackInv /\ FrameInv /\ CountInv

\* Boxes only ever holds thread ids, so its cardinality is a number.
LEMMA BoxesFinite ==
    ASSUME TypeOK
    PROVE  /\ IsFiniteSet(Boxes)
           /\ Cardinality(Boxes) \in Nat
  <1>1. IsFiniteSet(ThreadId)
    BY FS_Interval, ThreadsAssumption DEF ThreadId
  <1>2. Boxes \subseteq ThreadId
    BY DEF TypeOK, Boxes
  <1>3. QED
    BY <1>1, <1>2, FS_Subset, FS_CardinalityType, Zenon

\* Runnable control flows are the boot thread and threads that were spawned.
LEMMA RunnableRunner ==
    ASSUME TypeOK
    PROVE  Runnable \subseteq Runner
  <1>1. SUFFICES ASSUME NEW t \in 1 .. nextId - 1 PROVE t \in ThreadId
    BY DEF Runnable, Runner
  <1>2. nextId \in 1 .. MaxThreads + 1
    BY DEF TypeOK
  <1>3. QED
    BY <1>2, ThreadsAssumption DEF ThreadId

\* Booting establishes the invariant.
LEMMA InitInv == Init => IInv
  <1> SUFFICES ASSUME Init PROVE IInv
    BY Zenon
  <1> USE ThreadsAssumption DEF Init
  <1>1. TypeOK
    BY DEF TypeOK, ThreadId, Runner, None, BOOTSTRAP_ID, KERNEL
  <1>2. BoxInv
    BY DEF BoxInv, None, BOOTSTRAP_ID
  <1>3. NoThreadLost
    BY DEF NoThreadLost, Runnable, Range, IsInjective, BOOTSTRAP_ID
  <1>4. StackInv
    BY DEF StackInv
  <1>5. FrameInv
    BY DEF FrameInv, Runnable, BOOTSTRAP_ID
  <1>6. CountInv
    <2>1. Boxes = {}
      BY DEF Boxes
    <2>2. QED
      BY <2>1, FS_EmptySet DEF CountInv
  <1>7. QED
    BY <1>1, <1>2, <1>3, <1>4, <1>5, <1>6, Zenon DEF IInv

\* spawn preserves the invariant.
LEMMA SpawnInv ==
    ASSUME IInv, NEW p \in Processes, Spawn(p)
    PROVE  IInv'
  <1> USE ThreadsAssumption DEF IInv
  <1>1. CASE Cardinality(Boxes) < StackSlots
    <2> USE <1>1 DEF Spawn
    <2>1. nextId \in ThreadId /\ nextId \in Runner /\ nextId # BOOTSTRAP_ID
      BY DEF TypeOK, ThreadId, Runner, BOOTSTRAP_ID
    <2>2. nextId \notin exited /\ nextId \notin Runnable /\ nextId \notin threads
      BY <2>1 DEF BoxInv, Runnable, TypeOK
    <2>3. Runnable' = Runnable \cup {nextId}
      BY <2>1, <2>2 DEF Runnable, TypeOK
    <2>4. nextId # current /\ nextId # stack /\ current \in Runnable
      <3>1. current \in Runnable
        BY DEF NoThreadLost
      <3>2. stack = current
        BY DEF StackInv
      <3>3. QED
        BY <2>2, <3>1, <3>2
    <2>5. nextId \notin Range(ready)
      BY <2>2 DEF NoThreadLost
    <2>6. /\ ready' \in Seq(Runner)
          /\ IsInjective(ready')
          /\ Range(ready') = Range(ready) \cup {nextId}
      <3>1. ready \in Seq(Runner) /\ IsInjective(ready)
        BY Zenon DEF TypeOK, NoThreadLost
      <3>2. /\ Append(ready, nextId) \in Seq(Runner)
            /\ IsInjective(Append(ready, nextId))
            /\ Range(Append(ready, nextId)) = Range(ready) \cup {nextId}
        BY <2>1, <2>5, <3>1, PushBack
      <3>3. ready' = Append(ready, nextId)
        BY Zenon
      <3>4. QED
        BY <3>2, <3>3
    <2>7. TypeOK'
      <3>1. nextId + 1 \in 1 .. MaxThreads + 1
        BY DEF TypeOK
      <3>2. /\ process' \in [ThreadId -> Processes]
            /\ context' \in [Runner -> Runner \cup {None}]
        BY <2>1, Zenon DEF TypeOK
      <3>3. threads' \subseteq ThreadId
        BY <2>1, Zenon DEF TypeOK
      <3>4. alive' \in Nat /\ spawned' \in Nat
        BY DEF TypeOK
      <3>5. /\ reaper' = reaper /\ toDrop' = toDrop /\ stack' = stack /\ op' = op
            /\ prev' = prev /\ exited' = exited /\ current' = current /\ pc' = pc
            /\ nextId' = nextId + 1
        BY Zenon
      <3>6. QED
        BY <2>6, <3>1, <3>2, <3>3, <3>4, <3>5, Zenon DEF TypeOK
    <2>8. BoxInv'
      BY <2>1, <2>2 DEF BoxInv, TypeOK, ThreadId
    <2>9. NoThreadLost'
      BY <2>3, <2>4, <2>6 DEF NoThreadLost
    <2>10. StackInv'
      BY <2>3, <2>4 DEF StackInv
    <2>11. FrameInv'
      <3>1. SUFFICES ASSUME NEW t \in Runnable', t # stack'
                     PROVE  context'[t] = t
        BY DEF FrameInv
      <3>2. CASE t = nextId
        BY <2>1, <3>2 DEF TypeOK
      <3>3. CASE t # nextId
        BY <2>1, <2>3, <3>1, <3>3, RunnableRunner, Zenon DEF FrameInv, TypeOK
      <3>4. QED
        BY <3>2, <3>3
    <2>12. CountInv'
      <3>1. nextId \notin Boxes
        BY <2>2, <2>1 DEF Boxes, BoxInv, TypeOK, ThreadId, None
      <3>2. Boxes' = Boxes \cup {nextId}
        BY DEF Boxes
      <3>3. Cardinality(Boxes') = Cardinality(Boxes) + 1
        BY <3>1, <3>2, BoxesFinite, FS_AddElement, Zenon
      <3>4. QED
        BY <3>3 DEF CountInv, TypeOK
    <2>13. QED
      BY <2>7, <2>8, <2>9, <2>10, <2>11, <2>12, Zenon
  <1>2. CASE ~ (Cardinality(Boxes) < StackSlots)
    <2> USE <1>2 DEF Spawn
    <2>1. Runnable' = Runnable /\ Boxes' = Boxes
      BY DEF Runnable, Boxes
    <2>2. TypeOK'
      BY DEF TypeOK, Panics
    <2>3. CountInv'
      <3>1. Cardinality(Boxes) \in Nat /\ Cardinality(Boxes) >= StackSlots
        BY BoxesFinite, ThreadsAssumption
      <3>2. QED
        BY <2>1, <3>1 DEF CountInv
    <2>4. QED
      BY <2>1, <2>2, <2>3 DEF BoxInv, NoThreadLost, StackInv, FrameInv
  <1>3. QED
    BY <1>1, <1>2, Zenon

\* Taking the parked box out of the reaper preserves the invariant.
LEMMA DrainReaperInv ==
    ASSUME IInv, NEW c \in {"yield", "exit"}, DrainReaper(c)
    PROVE  IInv'
  <1> USE DEF IInv, DrainReaper
  <1>1. Runnable' = Runnable
    BY Zenon DEF Runnable
  <1>2. Boxes' = Boxes
    BY Zenon DEF Boxes, BoxInv
  <1>3. TypeOK'
    BY DEF TypeOK
  <1>4. BoxInv'
    BY Zenon DEF BoxInv
  <1>5. NoThreadLost' /\ StackInv' /\ FrameInv' /\ CountInv'
    BY <1>1, <1>2, Zenon DEF NoThreadLost, StackInv, FrameInv, CountInv
  <1>6. QED
    BY <1>3, <1>4, <1>5, Zenon

\* Dropping the box that was taken preserves the invariant.
LEMMA DropReapedInv ==
    ASSUME IInv, DropReaped
    PROVE  IInv'
  <1> USE DEF IInv, DropReaped
  <1>1. Runnable' = Runnable
    BY Zenon DEF Runnable
  <1>2. CountInv' /\ alive' \in Nat
    <2>1. CASE toDrop = None
      <3>1. Boxes' = Boxes
        BY <2>1 DEF Boxes
      <3>2. QED
        BY <2>1, <3>1, Zenon DEF CountInv, TypeOK
    <2>2. CASE toDrop # None
      <3>1. toDrop \in Boxes /\ Boxes' = Boxes \ {toDrop}
        BY <2>2, Zenon DEF Boxes, BoxInv, None
      <3>2. /\ Cardinality(Boxes') = Cardinality(Boxes) - 1
            /\ IsFiniteSet(Boxes')
        BY <3>1, BoxesFinite, FS_RemoveElement, Zenon
      <3>3. Cardinality(Boxes') \in Nat
        BY <3>2, FS_CardinalityType, Zenon
      <3>4. QED
        BY <2>2, <3>2, <3>3, Zenon DEF CountInv
    <2>3. QED
      BY <2>1, <2>2, Zenon
  <1>3. TypeOK'
    BY <1>2, Zenon DEF TypeOK
  <1>4. BoxInv'
    BY Zenon DEF BoxInv
  <1>5. NoThreadLost' /\ StackInv' /\ FrameInv'
    BY <1>1, Zenon DEF NoThreadLost, StackInv, FrameInv
  <1>6. QED
    BY <1>2, <1>3, <1>4, <1>5, Zenon

\* The choice made by yield_now preserves the invariant.
LEMMA YieldSelectInv ==
    ASSUME IInv, YieldSelect
    PROVE  IInv'
  <1> USE DEF IInv, YieldSelect
  <1>1. Runnable' = Runnable /\ Boxes' = Boxes
    BY Zenon DEF Runnable, Boxes
  <1>2. CASE ready = <<>>
    <2>1. TypeOK'
      BY <1>2, Zenon DEF TypeOK
    <2>2. QED
      BY <1>1, <1>2, <2>1, Zenon DEF BoxInv, NoThreadLost, StackInv, FrameInv, CountInv
  <1>3. CASE ready # <<>>
    <2> DEFINE next == Head(ready)
    <2>1. /\ next \in Runner
          /\ next \in Range(ready)
          /\ Tail(ready) \in Seq(Runner)
          /\ IsInjective(Tail(ready))
          /\ Range(Tail(ready)) = Range(ready) \ {next}
      BY <1>3, PopFront, Zenon DEF TypeOK, NoThreadLost
    <2>2. next \in Runnable /\ next # current /\ current \in Runnable
      BY <2>1, Zenon DEF NoThreadLost
    <2>3. current \notin Range(Tail(ready)) /\ current \in Runner
      BY <2>1, Zenon DEF NoThreadLost, TypeOK
    <2>4. /\ ready' \in Seq(Runner)
          /\ IsInjective(ready')
          /\ Range(ready') = Range(Tail(ready)) \cup {current}
      <3>1. ready \in Seq(Runner) /\ IsInjective(ready) /\ current \notin Range(ready)
        BY Zenon DEF TypeOK, NoThreadLost
      <3>2. /\ Append(Tail(ready), current) \in Seq(Runner)
            /\ IsInjective(Append(Tail(ready), current))
            /\ Range(Append(Tail(ready), current)) = Range(Tail(ready)) \cup {current}
        BY <1>3, <2>3, <3>1, Rotate
      <3>3. ready' = Append(Tail(ready), current)
        BY <1>3, Zenon DEF Requeue
      <3>4. QED
        BY <3>2, <3>3, Zenon
    <2>5. current' = next /\ prev' = current /\ stack' = stack
      BY <1>3, Zenon
    <2>6. Tracked(current) /\ Tracked(next)
      BY <2>2, Zenon DEF Tracked, Runnable, BoxInv
    <2>7. pc' = "switch"
      BY <1>3, <2>6, Zenon
    <2>8. TypeOK'
      BY <1>3, <2>1, <2>3, <2>4, <2>7, Zenon DEF TypeOK
    <2>9. BoxInv'
      BY <2>7, Zenon DEF BoxInv
    <2>10. NoThreadLost'
      BY <1>1, <2>1, <2>2, <2>4, <2>5, Zenon DEF NoThreadLost
    <2>11. StackInv'
      BY <1>1, <2>2, <2>5, <2>7, Zenon DEF StackInv
    <2>12. FrameInv' /\ CountInv'
      BY <1>1, <2>5, Zenon DEF FrameInv, CountInv
    <2>13. QED
      BY <2>8, <2>9, <2>10, <2>11, <2>12, Zenon
  <1>4. QED
    BY <1>2, <1>3, Zenon

\* Parking the box and choosing the successor preserves the invariant.
LEMMA ExitSelectInv ==
    ASSUME IInv, ExitSelect
    PROVE  IInv'
  <1> USE DEF IInv, ExitSelect
  <1>1. /\ reaper = None /\ toDrop = None /\ stack = current
        /\ current \in Runnable /\ current \in Runner
    BY Zenon DEF BoxInv, StackInv, NoThreadLost, TypeOK
  <1>2. Runnable' = Runnable \ {current}
    BY Zenon DEF Runnable
  <1>3. current \in threads <=> current # BOOTSTRAP_ID
    BY <1>1 DEF BoxInv, Runnable, BOOTSTRAP_ID, TypeOK
  <1>4. reaper' = IF current = BOOTSTRAP_ID THEN None ELSE current
    BY <1>1, <1>3, Zenon DEF Park
  <1>5. current # None
    BY ThreadsAssumption, <1>1 DEF Runner, ThreadId, None, BOOTSTRAP_ID
  <1>6. CountInv'
    <2>1. Boxes' = Boxes
      BY <1>1, <1>3, <1>4, <1>5, Zenon DEF Boxes
    <2>2. QED
      BY <2>1, Zenon DEF CountInv
  <1>7. BoxInv'
    BY <1>1, <1>2, <1>3, <1>4, <1>5, Zenon DEF BoxInv, Runnable, Panics, TypeOK
  <1>8. CASE ready = <<>>
    <2>1. Range(ready) = {}
      BY <1>8 DEF Range
    <2>2. Runnable' = {}
      BY <1>2, <2>1, Zenon DEF NoThreadLost
    <2>3. pc' = "no_next" /\ current' = current /\ ready' = ready
      BY <1>1, <1>8, Zenon
    <2>4. TypeOK'
      BY <1>1, <1>4, <2>3, Zenon DEF TypeOK, Panics, Runner, BOOTSTRAP_ID
    <2>5. NoThreadLost'
      BY <2>1, <2>2, <2>3, Zenon DEF NoThreadLost
    <2>6. StackInv'
      BY <1>1, <1>4, <2>2, <2>3, Zenon DEF StackInv
    <2>7. FrameInv'
      BY <2>2, Zenon DEF FrameInv
    <2>8. QED
      BY <1>6, <1>7, <2>4, <2>5, <2>6, <2>7, Zenon
  <1>9. CASE ready # <<>>
    <2> DEFINE next == Head(ready)
    <2>1. /\ next \in Runner
          /\ next \in Range(ready)
          /\ Tail(ready) \in Seq(Runner)
          /\ IsInjective(Tail(ready))
          /\ Range(Tail(ready)) = Range(ready) \ {next}
      BY <1>9, PopFront, Zenon DEF TypeOK, NoThreadLost
    <2>2. next \in Runnable /\ next # current
      BY <2>1, Zenon DEF NoThreadLost
    <2>3. current' = next /\ ready' = Tail(ready) /\ stack' = stack /\ prev' = current
      BY <1>9, Zenon
    <2>4. next = BOOTSTRAP_ID \/ next \in threads'
      BY <2>2, Zenon DEF Runnable, BoxInv
    <2>5. pc' = "switch" /\ op' = "exit"
      BY <1>1, <1>9, <2>3, <2>4, Zenon
    <2>6. TypeOK'
      BY <1>1, <1>4, <2>1, <2>3, <2>5, Zenon DEF TypeOK, Runner, BOOTSTRAP_ID
    <2>7. NoThreadLost'
      BY <1>2, <2>1, <2>2, <2>3, Zenon DEF NoThreadLost
    <2>8. StackInv'
      BY <1>1, <1>2, <1>4, <2>2, <2>3, <2>5, Zenon DEF StackInv
    <2>9. FrameInv'
      BY <1>1, <1>2, <2>3, Zenon DEF FrameInv
    <2>10. QED
      BY <1>6, <1>7, <2>6, <2>7, <2>8, <2>9
  <1>10. QED
    BY <1>8, <1>9, Zenon

\* Switching stacks preserves the invariant.
LEMMA SwitchContextInv ==
    ASSUME IInv, SwitchContext
    PROVE  IInv'
  <1> USE DEF IInv, SwitchContext
  <1>1. Runnable' = Runnable /\ Boxes' = Boxes
    BY Zenon DEF Runnable, Boxes
  <1>2. /\ current \in Runnable /\ current \in Runner
        /\ stack = prev /\ current # prev
    BY Zenon DEF NoThreadLost, StackInv, TypeOK
  <1>3. stack' = current
    BY <1>2, Zenon DEF FrameInv
  <1>4. TypeOK'
    BY <1>2, <1>3, Zenon DEF TypeOK
  <1>5. BoxInv'
    BY Zenon DEF BoxInv
  <1>6. NoThreadLost'
    BY <1>1, Zenon DEF NoThreadLost
  <1>7. StackInv'
    BY <1>3, Zenon DEF StackInv
  <1>8. FrameInv'
    <2>1. SUFFICES ASSUME NEW t \in Runnable, t # current
                   PROVE  context'[t] = t
      BY <1>1, <1>3, Zenon DEF FrameInv
    <2>2. t \in Runner
      BY RunnableRunner, Zenon
    <2>3. CASE t = prev
      BY <1>2, <2>1, <2>2, <2>3, Zenon DEF StackInv, TypeOK
    <2>4. CASE t # prev
      BY <1>2, <2>1, <2>2, <2>4, Zenon DEF FrameInv
    <2>5. QED
      BY <2>3, <2>4, Zenon
  <1>9. CountInv'
    BY <1>1 DEF CountInv
  <1>10. QED
    BY <1>4, <1>5, <1>6, <1>7, <1>8, <1>9, Zenon

\* Every step of the scheduler preserves the invariant.
LEMMA NextInv == IInv /\ [Next]_vars => IInv'
  <1>1. SUFFICES ASSUME IInv, [Next]_vars PROVE IInv'
    BY Zenon
  <1>2. CASE UNCHANGED vars
    BY <1>1, <1>2 DEF vars, IInv, TypeOK, BoxInv, NoThreadLost, StackInv, FrameInv,
                      CountInv, Runnable, Boxes
  <1>3. ASSUME NEW p \in Processes, Spawn(p) PROVE IInv'
    BY <1>1, <1>3, SpawnInv
  <1>4. ASSUME NEW c \in {"yield", "exit"}, DrainReaper(c) PROVE IInv'
    BY <1>1, <1>4, DrainReaperInv
  <1>5. CASE DropReaped
    BY <1>1, <1>5, DropReapedInv
  <1>6. CASE YieldSelect
    BY <1>1, <1>6, YieldSelectInv
  <1>7. CASE ExitSelect
    BY <1>1, <1>7, ExitSelectInv
  <1>8. CASE SwitchContext
    BY <1>1, <1>8, SwitchContextInv
  <1>9. CASE HltLoop
    BY <1>2, <1>9 DEF HltLoop
  <1>10. QED
    BY <1>1, <1>2, <1>3, <1>4, <1>5, <1>6, <1>7, <1>8, <1>9, Zenon DEF Next

\* The inductive invariant holds in every reachable state.
THEOREM Invariance == Spec => []IInv
  <1>1. QED
    BY InitInv, NextInv, PTL DEF Spec

\* The inductive invariant implies every invariant of the specification.
LEMMA InvConsequences ==
    ASSUME IInv
    PROVE  /\ StacksOutliveUse
           /\ OnlyLastExitPanics
           /\ CountersExact
           /\ TagIsTheRunners
  <1> USE DEF IInv
  <1>1. \A t \in Runnable : t \in Allocated
    BY DEF Runnable, BoxInv, Allocated, Boxes
  <1>2. StacksOutliveUse
    <2>1. stack \in Allocated
      <3>1. CASE (pc = "switch" /\ op = "exit") \/ pc = "no_next"
        BY <3>1 DEF StackInv, Allocated, Boxes, TypeOK, Runner, ThreadId, None,
                    BOOTSTRAP_ID
      <3>2. CASE pc # "switch" /\ pc # "no_next"
        BY <1>1, <3>2, Zenon DEF StackInv, NoThreadLost
      <3>3. CASE pc = "switch" /\ op = "yield"
        BY <1>1, <3>3, Zenon DEF StackInv
      <3>4. QED
        BY <3>1, <3>2, <3>3, Zenon DEF TypeOK
    <2>2. ASSUME NEW t \in Range(ready)
          PROVE  Resumable(t) \/ (pc = "switch" /\ op = "yield" /\ t = prev /\ t = stack)
      <3>1. t \in Runnable /\ t # current
        BY <2>2, Zenon DEF NoThreadLost
      <3>2. CASE t # stack
        BY <1>1, <3>1, <3>2, Zenon DEF FrameInv, Resumable
      <3>3. CASE t = stack
        <4>1. pc = "switch" /\ stack = prev /\ op # "exit"
          BY <3>1, <3>3, Zenon DEF StackInv
        <4>2. op = "yield"
          BY <4>1, Zenon DEF TypeOK
        <4>3. QED
          BY <3>3, <4>1, <4>2, Zenon
      <3>4. QED
        BY <3>2, <3>3, Zenon
    <2>3. pc = "switch" => Resumable(current)
      BY <1>1, Zenon DEF StackInv, NoThreadLost, FrameInv, Resumable
    <2>4. QED
      BY <2>1, <2>2, <2>3, Zenon DEF StacksOutliveUse
  <1>3. OnlyLastExitPanics
    <2>1. ASSUME pc = "oom" PROVE Cardinality(threads) >= StackSlots - 1
      <3>1. IsFiniteSet(Boxes) /\ Cardinality(Boxes) \in Nat /\ Cardinality(Boxes) >= StackSlots
        BY <2>1, BoxesFinite DEF CountInv
      <3>2. IsFiniteSet(threads) /\ Cardinality(threads) \in Nat
        <4>1. threads \in SUBSET Boxes
          BY DEF Boxes
        <4>2. QED
          BY <3>1, <4>1, FS_Subset, FS_CardinalityType, Zenon
      <3>3. Boxes \in SUBSET (threads \cup {reaper})
        BY <2>1 DEF BoxInv, Boxes
      <3>4. /\ IsFiniteSet(threads \cup {reaper})
            /\ Cardinality(threads \cup {reaper}) \in {Cardinality(threads), Cardinality(threads) + 1}
        BY <3>2, FS_AddElement
      <3>5. Cardinality(Boxes) <= Cardinality(threads \cup {reaper})
        BY <3>3, <3>4, FS_Subset, Zenon
      <3>6. QED
        BY <3>1, <3>2, <3>4, <3>5, ThreadsAssumption
    <2>2. QED
      BY <2>1 DEF StackInv, OnlyLastExitPanics
  <1>4. CountersExact
    BY Zenon DEF CountInv, CountersExact
  <1>5. TagIsTheRunners
    <2>1. SUFFICES ASSUME pc = "run"
                   PROVE  /\ stack = current
                          /\ CurrentProcess = IF stack = BOOTSTRAP_ID THEN KERNEL
                                              ELSE process[stack]
      BY Zenon DEF TagIsTheRunners
    <2>2. stack = current /\ current \in Runnable
      BY <2>1, Zenon DEF StackInv, NoThreadLost
    <2>3. current = BOOTSTRAP_ID \/ current \in threads
      BY <2>2, Zenon DEF Runnable, BoxInv
    <2>4. QED
      BY <2>2, <2>3, Zenon DEF CurrentProcess
  <1>6. QED
    BY <1>2, <1>3, <1>4, <1>5, Zenon

\* Type correctness of the scheduler's state.
THEOREM TypeCorrect == Spec => []TypeOK
  <1>1. IInv => TypeOK
    BY Zenon DEF IInv
  <1>2. QED
    BY <1>1, Invariance, PTL

\* No call of spawn, yield_now or exit_thread loses or duplicates a thread.
THEOREM NoThreadIsLost == Spec => []NoThreadLost
  <1>1. IInv => NoThreadLost
    BY Zenon DEF IInv
  <1>2. QED
    BY <1>1, Invariance, PTL

\* No stack is freed while the CPU is on it or a thread will resume on it.
THEOREM StackSafety == Spec => []StacksOutliveUse
  <1>1. IInv => StacksOutliveUse
    BY InvConsequences, Zenon
  <1>2. QED
    BY <1>1, Invariance, PTL

\* exit_thread panics only for the last control flow of the system, and the
\* other assertions of the scheduler never fire.
THEOREM PanicFreedom == Spec => []OnlyLastExitPanics
  <1>1. IInv => OnlyLastExitPanics
    BY InvConsequences, Zenon
  <1>2. QED
    BY <1>1, Invariance, PTL

\* threads_alive is the number of thread stacks that are allocated.
THEOREM ThreadAccounting == Spec => []CountersExact
  <1>1. IInv => CountersExact
    BY InvConsequences
  <1>2. QED
    BY <1>1, Invariance, PTL

\* current_process answers for the thread that is really running.
THEOREM TagCorrect == Spec => []TagIsTheRunners
  <1>1. IInv => TagIsTheRunners
    BY InvConsequences, Zenon
  <1>2. QED
    BY <1>1, Invariance, PTL

\* What one step does to the places in the ready queue.
LEMMA StepKeepsOrder ==
    ASSUME IInv, Next
    PROVE  KeepsOrder
  <1>1. /\ ready \in Seq(Runner) /\ IsInjective(ready)
        /\ current \in Runner /\ current \notin Range(ready)
    BY DEF IInv, TypeOK, NoThreadLost
  <1>2. Len(ready) \in Nat /\ DOMAIN ready = 1 .. Len(ready)
    BY <1>1, LenProperties, Zenon
  <1>3. CASE UNCHANGED <<current, ready>>
    BY <1>3, Zenon DEF KeepsOrder
  <1>4. ASSUME NEW p \in Processes, Spawn(p) PROVE KeepsOrder
    <2>1. CASE ready' = Append(ready, nextId) /\ current' = current
      <3>1. nextId \in Runner
        BY <1>4, ThreadsAssumption DEF IInv, TypeOK, Spawn, Runner, ThreadId
      <3>2. \A i \in 1 .. Len(ready) : Append(ready, nextId)[i] = ready[i]
        BY <1>1, <3>1, AppendProperties
      <3>3. QED
        BY <2>1, <3>2, Zenon DEF KeepsOrder
    <2>2. QED
      BY <1>3, <1>4, <2>1, Zenon DEF Spawn
  <1>5. ASSUME ready # <<>>, current' = Head(ready),
               \A j \in 1 .. Len(ready) - 1 : ready'[j] = ready[j + 1]
        PROVE  KeepsOrder
    <2>1. Head(ready) = ready[1] /\ Head(ready) \in Range(ready)
      BY <1>1, <1>5, PopFront, Zenon
    <2>2. current' # current
      BY <1>1, <1>5, <2>1, Zenon
    <2>3. ASSUME NEW i \in 1 .. Len(ready), i # 1
          PROVE  ready'[i - 1] = ready[i]
      <3>1. i - 1 \in 1 .. Len(ready) - 1 /\ (i - 1) + 1 = i
        BY <1>2, <2>3
      <3>2. QED
        BY <1>5, <3>1, Zenon
    <2>4. QED
      BY <1>5, <2>1, <2>2, <2>3, Zenon DEF KeepsOrder
  <1>6. CASE YieldSelect
    <2>1. CASE ready # <<>>
      <3>1. \A j \in 1 .. Len(ready) - 1 : Append(Tail(ready), current)[j] = ready[j + 1]
        BY <1>1, <2>1, Rotate
      <3>2. ready' = Append(Tail(ready), current) /\ current' = Head(ready)
        BY <1>6, <2>1, Zenon DEF YieldSelect, Requeue
      <3>3. QED
        BY <1>5, <2>1, <3>1, <3>2, Zenon
    <2>2. QED
      BY <1>3, <1>6, <2>1, Zenon DEF YieldSelect
  <1>7. CASE ExitSelect
    <2>1. CASE ready # <<>>
      <3>1. \A j \in 1 .. Len(ready) - 1 : Tail(ready)[j] = ready[j + 1]
        BY <1>1, <2>1, PopFront, Zenon
      <3>2. ready' = Tail(ready) /\ current' = Head(ready)
        BY <1>7, <2>1 DEF ExitSelect
      <3>3. QED
        BY <1>5, <2>1, <3>1, <3>2, Zenon
    <2>2. QED
      BY <1>3, <1>7, <2>1, Zenon DEF ExitSelect
  <1>8. QED
    BY <1>3, <1>4, <1>6, <1>7, Zenon
       DEF Next, DrainReaper, DropReaped, SwitchContext, HltLoop, vars

\* The ready queue is first in, first out.
THEOREM FirstInFirstOut == Spec => NoOvertaking
  <1>1. IInv /\ [Next]_vars => [KeepsOrder]_vars
    BY StepKeepsOrder
  <1>2. QED
    BY <1>1, Invariance, PTL DEF Spec, NoOvertaking

-----------------------------------------------------------------------------
(* Threads implements RoundRobin.                                          *)

\* The first element and the rest make up the queue.
LEMMA HeadAndTail ==
    ASSUME NEW S, NEW q \in Seq(S), q # <<>>
    PROVE  <<Head(q)>> \o Tail(q) = q
  <1>1. Len(q) \in Nat \ {0}
    BY EmptySeq
  <1>2. 1 \in 1 .. Len(q) /\ Len(q) \in 1 .. Len(q)
    BY <1>1
  <1>3. SubSeq(q, 1, Len(q)) = <<q[1]>> \o SubSeq(q, 2, Len(q))
    <2>1. SubSeq(q, 1, Len(q)) = <<q[1]>> \o SubSeq(q, 1 + 1, Len(q))
      BY <1>2, SubSeqRecursiveFirst, Zenon
    <2>2. QED
      BY <2>1
  <1>4. Tail(q) = SubSeq(q, 2, Len(q)) /\ SubSeq(q, 1, Len(q)) = q
    BY TailIsSubSeq, SubSeqFull, Zenon
  <1>5. Head(q) = q[1]
    OBVIOUS
  <1>6. QED
    BY <1>3, <1>4, <1>5, Zenon

\* A queue that has just got a new last element, without it.
LEMMA WithoutLast ==
    ASSUME NEW S, NEW q \in Seq(S), NEW e \in S
    PROVE  SubSeq(Append(q, e), 1, Len(Append(q, e)) - 1) = q
  <1> DEFINE r == Append(q, e)
             f == SubSeq(r, 1, Len(r) - 1)
  <1>1. /\ r \in Seq(S) /\ Len(r) = Len(q) + 1
        /\ \A i \in 1 .. Len(q) : r[i] = q[i]
    BY AppendProperties
  <1>2. Len(q) \in Nat /\ \A i \in 1 .. Len(q) : q[i] \in S
    BY LenProperties, ElementOfSeq, Zenon
  <1> HIDE DEF r
  <1>3. Len(r) - 1 \in Int /\ Len(r) - 1 = Len(q) /\ 1 \in Int
    BY <1>1, <1>2
  <1>4. \A i \in 1 .. Len(r) - 1 : r[i] \in S
    BY <1>1, <1>2, <1>3, Zenon
  <1>5. /\ f \in Seq(S)
        /\ Len(f) = IF 1 <= Len(r) - 1 THEN Len(r) - 1 - 1 + 1 ELSE 0
        /\ \A i \in 1 .. Len(r) - 1 - 1 + 1 : f[i] = r[1 + i - 1]
    BY <1>3, <1>4, SubSeqProperties
  <1> HIDE DEF f
  <1>6. Len(f) = Len(q) /\ \A i \in 1 .. Len(f) : f[i] = q[i]
    BY <1>1, <1>2, <1>5
  <1>7. f = q
    BY <1>5, <1>6, SeqEqual, Zenon
  <1>8. QED
    BY <1>7, Zenon DEF f, r

\* A queue taken apart at its last element and put together again.
LEMMA LastAgain ==
    ASSUME NEW S, NEW q \in Seq(S), q # <<>>
    PROVE  /\ SubSeq(q, 1, Len(q) - 1) \in Seq(S)
           /\ Append(SubSeq(q, 1, Len(q) - 1), q[Len(q)]) = q
  <1>1. PICK s \in Seq(S), e \in S : q = Append(s, e)
    BY SequenceEmptyOrAppend, Zenon
  <1>2. SubSeq(q, 1, Len(q) - 1) = s
    BY <1>1, WithoutLast, Zenon
  <1>3. q[Len(q)] = e
    <2>1. Len(Append(s, e)) = Len(s) + 1 /\ Append(s, e)[Len(s) + 1] = e
      BY AppendProperties
    <2>2. QED
      BY <1>1, <2>1, Zenon
  <1>4. QED
    BY <1>1, <1>2, <1>3

\* A queue with a new front.
LEMMA NewFront ==
    ASSUME NEW S, NEW q \in Seq(S), NEW e \in S
    PROVE  /\ <<e>> \o q # <<>>
           /\ Head(<<e>> \o q) = e
           /\ Tail(<<e>> \o q) = q
  <1> DEFINE r == <<e>> \o q
  <1>1. <<e>> \in Seq(S) /\ Len(<<e>>) = 1 /\ <<e>>[1] = e
    OBVIOUS
  <1>2. Len(q) \in Nat
    BY LenProperties, Zenon
  <1>3. /\ r \in Seq(S)
        /\ Len(r) = Len(<<e>>) + Len(q)
        /\ \A i \in 1 .. Len(<<e>>) + Len(q) :
              r[i] = IF i <= Len(<<e>>) THEN <<e>>[i] ELSE q[i - Len(<<e>>)]
    BY <1>1, ConcatProperties, Zenon
  <1> HIDE DEF r
  <1>4. /\ Len(r) = 1 + Len(q) /\ r[1] = e
        /\ \A i \in 2 .. 1 + Len(q) : r[i] = q[i - 1]
    BY <1>1, <1>2, <1>3
  <1>5. r # <<>>
    BY <1>2, <1>4, EmptySeq
  <1>6. Head(r) = e
    BY <1>4, <1>5
  <1>7. /\ Tail(r) \in Seq(S)
        /\ Len(Tail(r)) = Len(r) - 1
        /\ \A i \in 1 .. Len(Tail(r)) : Tail(r)[i] = r[i + 1]
    BY <1>3, <1>5, HeadTailProperties, Zenon
  <1> DEFINE t == Tail(r)
  <1>8. t = q
    <2> HIDE DEF t
    <2>1. t \in Seq(S) /\ Len(t) = Len(q) /\ \A i \in 1 .. Len(t) : t[i] = r[i + 1]
      BY <1>2, <1>4, <1>7 DEF t
    <2>2. \A i \in 1 .. Len(t) : t[i] = q[i]
      <3>1. SUFFICES ASSUME NEW i \in 1 .. Len(t) PROVE t[i] = q[i]
        OBVIOUS
      <3>2. i + 1 \in 2 .. 1 + Len(q) /\ (i + 1) - 1 = i
        BY <1>2, <2>1
      <3>3. QED
        BY <1>4, <2>1, <3>2, Zenon
    <2>3. QED
      BY <2>1, <2>2, SeqEqual, Zenon
  <1>9. QED
    BY <1>5, <1>6, <1>8, Zenon DEF r

-----------------------------------------------------------------------------

\* What the mapping needs besides the invariant of Threads: from the choice to
\* the switch, the last of the queue is the thread that yields.
YieldLast ==
    pc = "switch" /\ op = "yield" => ready # <<>> /\ ready[Len(ready)] = stack

\* The choice under the lock is the only step after which a switch is due.
LEMMA YieldLastStep == IInv /\ YieldLast /\ [Next]_vars => YieldLast'
  <1> SUFFICES ASSUME IInv, YieldLast, [Next]_vars PROVE YieldLast'
    OBVIOUS
  <1>1. CASE YieldSelect
    <2>1. CASE ready = <<>>
      BY <1>1, <2>1, Zenon DEF YieldSelect, YieldLast
    <2>2. CASE ready # <<>>
      <3> DEFINE r == Append(Tail(ready), current)
      <3>1. /\ ready \in Seq(Runner) /\ IsInjective(ready)
            /\ current \in Runner /\ current \notin Range(ready) /\ stack = current
        BY <1>1, Zenon DEF YieldSelect, IInv, TypeOK, NoThreadLost, StackInv
      <3>2. r \in Seq(Runner) /\ Len(r) = Len(ready) /\ r[Len(ready)] = current
        BY <2>2, <3>1, Rotate
      <3>3. Len(ready) \in Nat \ {0}
        BY <2>2, <3>1, EmptySeq, Zenon
      <3>4. ready' = r /\ stack' = stack
        BY <1>1, <2>2, Zenon DEF YieldSelect, Requeue
      <3> HIDE DEF r
      <3>5. r # <<>>
        BY <3>2, <3>3, EmptySeq, Zenon
      <3>6. QED
        BY <3>1, <3>2, <3>4, <3>5, Zenon DEF YieldLast
    <2>3. QED
      BY <2>1, <2>2, Zenon
  <1>2. CASE ExitSelect
    BY <1>2, Zenon DEF ExitSelect, YieldLast
  <1>3. ASSUME NEW p \in Processes, Spawn(p) PROVE YieldLast'
    BY <1>3, Zenon DEF Spawn, YieldLast
  <1>4. QED
    BY <1>1, <1>2, <1>3, Zenon
    DEF YieldLast, Next, DrainReaper, DropReaped, SwitchContext, HltLoop, Panics, vars

\* Every step of Threads is a step of RoundRobin or invisible there: a spawn
\* creates, the switch passes the CPU on or leaves, nothing else shows.
LEMMA RoundRobinStep ==
    ASSUME IInv, YieldLast, Next, IInv'
    PROVE  RR!Next \/ UNCHANGED <<stack, AbstractQueue, spawned>>
  <1>1. /\ ready \in Seq(Runner) /\ IsInjective(ready)
        /\ current \in Runner /\ stack \in Runner
    BY Zenon DEF IInv, TypeOK, NoThreadLost
  <1>2. ASSUME NEW p \in Processes, Spawn(p)
        PROVE  RR!Next \/ UNCHANGED <<stack, AbstractQueue, spawned>>
    <2>1. CASE Cardinality(Boxes) < StackSlots
      <3>1. spawned + 1 = nextId
        BY DEF IInv, CountInv, TypeOK
      <3>2. AbstractQueue = ready /\ AbstractQueue' = ready'
        BY <1>2, <2>1, Zenon DEF Spawn, AbstractQueue
      <3>3. RR!Create
        BY <1>2, <2>1, <3>1, <3>2, Zenon DEF Spawn, RR!Create
      <3>4. QED
        BY <3>3, Zenon DEF RR!Next
    <2>2. CASE ~ (Cardinality(Boxes) < StackSlots)
      BY <1>2, <2>2, Zenon DEF Spawn, AbstractQueue
    <2>3. QED
      BY <2>1, <2>2, Zenon
  <1>3. ASSUME NEW c \in {"yield", "exit"}, DrainReaper(c)
        PROVE  UNCHANGED <<stack, AbstractQueue, spawned>>
    BY <1>3, Zenon DEF DrainReaper, AbstractQueue
  <1>4. CASE DropReaped
    BY <1>4, Zenon DEF DropReaped, AbstractQueue
  <1>5. CASE YieldSelect
    <2>1. CASE ready = <<>>
      BY <1>5, <2>1, SMTT(30) DEF YieldSelect, AbstractQueue
    <2>2. CASE ready # <<>>
      <3>1. pc' = "switch"
        BY <1>5, <2>2, Zenon DEF YieldSelect, IInv, StackInv
      <3>2. ready' = Append(Tail(ready), current) /\ current' = Head(ready) /\ op' = "yield"
        BY <1>5, <2>2, Zenon DEF YieldSelect, Requeue
      <3>3. Tail(ready) \in Seq(Runner)
        BY <1>1, <2>2, HeadTailProperties, Zenon
      <3> DEFINE r == Append(Tail(ready), current)
      <3>4. SubSeq(r, 1, Len(r) - 1) = Tail(ready)
        BY <1>1, <3>3, WithoutLast, Zenon
      <3>5. <<Head(ready)>> \o Tail(ready) = ready
        BY <1>1, <2>2, HeadAndTail, Zenon
      <3>6. AbstractQueue' = <<Head(ready)>> \o SubSeq(r, 1, Len(r) - 1)
        BY <3>1, <3>2, Zenon DEF AbstractQueue, PendingQueue
      <3>7. AbstractQueue = ready
        BY <1>5, Zenon DEF YieldSelect, AbstractQueue
      <3>8. QED
        BY <1>5, <3>4, <3>5, <3>6, <3>7, Zenon DEF YieldSelect
    <2>3. QED
      BY <2>1, <2>2, Zenon
  <1>6. CASE ExitSelect
    <2>1. AbstractQueue = ready /\ UNCHANGED <<stack, spawned>> /\ op' = "exit"
      BY <1>6, Zenon DEF ExitSelect, AbstractQueue
    <2>2. CASE ready = <<>>
      BY <1>6, <2>1, <2>2, Zenon DEF ExitSelect, AbstractQueue
    <2>3. CASE ready # <<>>
      <3>1. pc' = "switch"
        BY <1>6, <2>3, Zenon DEF ExitSelect, IInv, StackInv
      <3>2. <<Head(ready)>> \o Tail(ready) = ready
        BY <1>1, <2>3, HeadAndTail
      <3>3. AbstractQueue' = <<Head(ready)>> \o Tail(ready)
        BY <1>6, <2>1, <2>3, <3>1, Zenon DEF ExitSelect, AbstractQueue, PendingQueue
      <3>4. QED
        BY <2>1, <3>2, <3>3, Zenon
    <2>4. QED
      BY <2>2, <2>3
  <1>7. CASE SwitchContext
    <2>1. stack' = current
      BY <1>7, Zenon DEF SwitchContext, IInv, StackInv, FrameInv, NoThreadLost
    <2>2. /\ AbstractQueue = PendingQueue /\ AbstractQueue' = ready
          /\ spawned' = spawned
      BY <1>7, Zenon DEF SwitchContext, AbstractQueue
    <2>3. CASE op = "yield"
      <3> DEFINE f == SubSeq(ready, 1, Len(ready) - 1)
      <3>1. ready # <<>> /\ ready[Len(ready)] = stack
        BY <1>7, <2>3, Zenon DEF SwitchContext, YieldLast
      <3>2. f \in Seq(Runner) /\ Append(f, stack) = ready
        BY <1>1, <3>1, LastAgain, Zenon
      <3>3. PendingQueue = <<current>> \o f
        BY <2>3, Zenon DEF PendingQueue
      <3> HIDE DEF f
      <3>4. /\ PendingQueue # <<>>
            /\ Head(PendingQueue) = current
            /\ Tail(PendingQueue) = f
        BY <1>1, <3>2, <3>3, NewFront, Zenon
      <3>5. RR!Pass
        BY <2>1, <2>2, <3>2, <3>4, Zenon DEF RR!Pass
      <3>6. QED
        BY <3>5, Zenon DEF RR!Next
    <2>4. CASE op = "exit"
      <3>1. PendingQueue = <<current>> \o ready
        BY <2>4, Zenon DEF PendingQueue
      <3>2. /\ PendingQueue # <<>>
            /\ Head(PendingQueue) = current
            /\ Tail(PendingQueue) = ready
        BY <1>1, <3>1, NewFront, Zenon
      <3>3. RR!Leave
        BY <2>1, <2>2, <3>2, Zenon DEF RR!Leave
      <3>4. QED
        BY <3>3 DEF RR!Next
    <2>5. QED
      BY <2>3, <2>4, Zenon DEF IInv, TypeOK
  <1>8. CASE HltLoop
    BY <1>8, Zenon DEF HltLoop, AbstractQueue, PendingQueue, vars
  <1>9. QED
    BY <1>2, <1>3, <1>4, <1>5, <1>6, <1>7, <1>8, Zenon DEF Next

\* spawn, yield_now and exit_thread with the switches they end in are a round
\* robin over the stacks the CPU executes on, however many threads there are.
THEOREM RoundRobinRefinement == Spec => ImplementsRoundRobin
  <1>1. Init => RR!Init /\ YieldLast
    BY DEF Init, RR!Init, AbstractQueue, YieldLast
  <1>2. IInv /\ YieldLast /\ [Next]_vars /\ IInv' => [RR!Next]_(RR!vars)
    <2> SUFFICES ASSUME IInv, YieldLast, [Next]_vars, IInv'
                 PROVE  [RR!Next]_(RR!vars)
      BY Zenon
    <2>1. CASE Next
      BY <2>1, RoundRobinStep, Zenon DEF RR!vars
    <2>2. CASE UNCHANGED vars
      BY <2>2 DEF vars, RR!vars, AbstractQueue, PendingQueue
    <2>3. QED
      BY <2>1, <2>2, Zenon
  <1>3. QED
    BY <1>1, <1>2, Invariance, YieldLastStep, PTL
    DEF Spec, ImplementsRoundRobin, RR!Spec
=============================================================================

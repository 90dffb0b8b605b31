-------------------------- MODULE TimerQueueProofs --------------------------
(***************************************************************************)
(* Proofs about TimerQueue.tla, for any addresses, threads and bounds.     *)
(***************************************************************************)
EXTENDS TimerQueue, TLAPS

-----------------------------------------------------------------------------
(* The inductive invariant, besides TypeOK, HeapSafe and CancelIsExact. *)

(* The TimerIds somebody holds or will be given. *)
Named(id) == \/ id \in ids
             \/ \E t \in User : adding[t] = id
             \/ \E i \in 1..Len(queue) : queue[i] = CancelTask(id)

(* s_numCreated_ is ahead of every sequence in use, no two timers share    *)
(* one, and an id whose sequence is that of a live timer has its address.  *)
SequencesInv ==
    /\ \A a \in Addr : heap[a].seq <= numCreated
    /\ \A a, b \in Addr : heap[a] # Free /\ heap[a].seq = heap[b].seq => a = b
    /\ \A s \in added : s <= numCreated
    /\ canceled \subseteq added
    /\ \A id \in TimerIds : Named(id) => id[2] <= numCreated
    /\ \A id \in TimerIds, b \in Addr :
          Named(id) /\ heap[b] # Free /\ heap[b].seq = id[2] => b = id[1]

(* A timer that waits to be added is queued once and was never started. *)
QueueInv ==
    /\ \A i, j \in 1..Len(queue), a \in Addr :
          queue[i] = AddTask(a) /\ queue[j] = AddTask(a) => i = j
    /\ \A a \in Addr : Queued(a) => heap[a].seq \notin added /\ ~heap[a].active

(* An active or expired timer is in validTimers_ and was not canceled, and *)
(* expired timers are left only while the events are handled.              *)
ActiveInv ==
    /\ \A id \in validTimers : id[2] \in added
    /\ \A a \in Addr : heap[a].active =>
          <<a, heap[a].seq>> \in validTimers /\ heap[a].seq \notin canceled
    /\ pending # {} => pc = "events"
    /\ \A a \in pending : heap[a].seq \notin canceled

TimerInv == TypeOK /\ HeapSafe /\ CancelIsExact /\ SequencesInv /\ QueueInv /\ ActiveInv

(* Is the timer at a in validTimers_? *)
Valid(a) == \E id \in validTimers : id[1] = a

-----------------------------------------------------------------------------
(* The conjuncts of HeapSafe; its last one as a choice between two cases. *)
HeapParts ==
    /\ \A id \in validTimers : Live(id)
    /\ \A a \in pending : Valid(a)
    /\ \A a \in Addr : Queued(a) => heap[a] # Free
    /\ \A a \in Addr : heap[a] # Free => Queued(a) \/ Valid(a)
    /\ \A a \in Addr : heap[a] # Free => ~(Queued(a) /\ Valid(a))

LEMMA HeapSafeParts == HeapSafe <=> HeapParts
<1>1. \A a \in Addr : Queued(a) \in BOOLEAN /\ Valid(a) \in BOOLEAN
  BY Zenon DEF Queued, Valid
<1>2. HeapSafe <=> /\ \A id \in validTimers : Live(id)
                   /\ \A a \in pending : Valid(a)
                   /\ \A a \in Addr : Queued(a) => heap[a] # Free
                   /\ \A a \in Addr : heap[a] # Free => Queued(a) # Valid(a)
  BY Zenon DEF HeapSafe, Valid
<1>3. \A a \in Addr : (Queued(a) # Valid(a)) <=> (Queued(a) \/ Valid(a)) /\ ~(Queued(a) /\ Valid(a))
  BY <1>1, Zenon
<1> QED BY <1>2, <1>3, Zenon DEF HeapParts

(* The steps of Next, with the two cases of cancel() and of cancelInLoop() *)
(* told apart.                                                             *)
LEMMA NextCases ==
    ASSUME Next
    PROVE  \/ \E t \in User, a \in Addr, r \in BOOLEAN : AddTimer(t, a, r)
           \/ \E t \in User : AddTimerReturns(t)
           \/ \E a \in Addr, r \in BOOLEAN : AddTimerInLoopThread(a, r)
           \/ \E t \in Threads, id \in ids : Cancel(t, id)
           \/ ClearExpiredTimer \/ AddTimerInLoop \/ RunCancelInLoop \/ EndFunctors
           \/ \E S \in SUBSET Addr : Reify(S)
           \/ NextIteration
           \/ \E a \in Addr : Run(a)
  BY Zenon DEF Next, LoopStep, ReifyAny

(* What the bounds of the model are. *)
LEMMA Bounds == MaxTimers \in Nat /\ MaxTimers > 0 /\ MaxQueue \in Nat
  BY BoundAssumption

(* The fields of a Timer; a free address is told by its sequence 0. *)
LEMMA HeapFields ==
    ASSUME TypeOK, NEW a \in Addr
    PROVE  /\ heap[a].seq \in 0..MaxTimers
           /\ heap[a].repeat \in BOOLEAN /\ heap[a].active \in BOOLEAN
           /\ heap[a] = Free <=> heap[a].seq = 0
           /\ heap[a].active => heap[a].seq # 0
           /\ heap[a] = [seq |-> heap[a].seq, repeat |-> heap[a].repeat,
                         active |-> heap[a].active]
<1>1. CASE heap[a] = Free
  BY <1>1, Bounds DEF Free
<1>2. CASE heap[a] \in Timers
  BY <1>2, Bounds DEF Timers, Sequence, Free
<1> QED BY <1>1, <1>2 DEF TypeOK

(* A pair is not the empty tuple. *)
LEMMA NoTimerIsNoId == \A id \in TimerIds : id # NoTimer
<1>1. \A x, y : Len(<<x, y>>) = 2 OBVIOUS
<1>2. Len(NoTimer) = 0 BY DEF NoTimer
<1> QED BY <1>1, <1>2 DEF TimerIds

(* The two kinds of functor differ, and each determines its argument. *)
LEMMA TaskFields ==
    /\ \A a : AddTask(a).op = "addTimerInLoop" /\ AddTask(a).addr = a
    /\ \A id : CancelTask(id).op = "cancelInLoop" /\ CancelTask(id).id = id
    /\ \A a, id : AddTask(a) # CancelTask(id)
    /\ \A a, b : AddTask(a) = AddTask(b) => a = b
    /\ \A id, jd : CancelTask(id) = CancelTask(jd) => id = jd
<1>1. \A a : AddTask(a).op = "addTimerInLoop" /\ AddTask(a).addr = a
  BY DEF AddTask
<1>2. \A id : CancelTask(id).op = "cancelInLoop" /\ CancelTask(id).id = id
  BY DEF CancelTask
<1>3. "addTimerInLoop" # "cancelInLoop" OBVIOUS
<1> HIDE DEF AddTask, CancelTask
<1> QED BY <1>1, <1>2, <1>3

(* The functor at the head of the queue. *)
LEMMA HeadTask ==
    ASSUME TypeOK, todo > 0
    PROVE  /\ queue # <<>> /\ Len(queue) \in Nat \ {0} /\ Head(queue) = queue[1]
           /\ Tail(queue) \in Seq(Tasks) /\ Len(Tail(queue)) = Len(queue) - 1
           /\ \A i \in 1..Len(Tail(queue)) : Tail(queue)[i] = queue[i + 1]
           /\ Head(queue).op = "addTimerInLoop" =>
                 Head(queue).addr \in Addr /\ Head(queue) = AddTask(Head(queue).addr)
           /\ Head(queue).op = "cancelInLoop" =>
                 Head(queue).id \in TimerIds /\ Head(queue) = CancelTask(Head(queue).id)
<1>1. queue \in Seq(Tasks) /\ todo \in 0..Len(queue) BY DEF TypeOK
<1>2. Len(queue) \in Nat \ {0} BY <1>1
<1>3. queue # <<>> BY <1>1, <1>2
<1>4. Head(queue) = queue[1] /\ queue[1] \in Tasks BY <1>1, <1>2, <1>3
<1>5. "addTimerInLoop" # "cancelInLoop" OBVIOUS
<1>6. /\ Head(queue).op = "addTimerInLoop" =>
            Head(queue).addr \in Addr /\ Head(queue) = AddTask(Head(queue).addr)
      /\ Head(queue).op = "cancelInLoop" =>
            Head(queue).id \in TimerIds /\ Head(queue) = CancelTask(Head(queue).id)
  <2>1. CASE \E a \in Addr : Head(queue) = AddTask(a)
    BY <1>5, <2>1, TaskFields
  <2>2. CASE \E id \in TimerIds : Head(queue) = CancelTask(id)
    BY <1>5, <2>2, TaskFields
  <2> QED BY <1>4, <2>1, <2>2 DEF Tasks
<1> QED BY <1>1, <1>2, <1>3, <1>4, <1>6

(* Which timers and which ids are in the queue after a functor is appended *)
(* and after the first one is taken out.                                   *)
LEMMA QueueAppended ==
    ASSUME TypeOK, NEW task \in Tasks, queue' = Append(queue, task)
    PROVE  /\ queue' \in Seq(Tasks) /\ Len(queue') = Len(queue) + 1
           /\ \A i \in 1..Len(queue) : queue'[i] = queue[i]
           /\ queue'[Len(queue) + 1] = task
           /\ \A x : (\E i \in 1..Len(queue') : queue'[i] = x) <=>
                     (x = task \/ \E i \in 1..Len(queue) : queue[i] = x)
<1>1. queue \in Seq(Tasks) BY DEF TypeOK
<1>2. /\ queue' \in Seq(Tasks) /\ Len(queue') = Len(queue) + 1 /\ Len(queue) \in Nat
      /\ \A i \in 1..Len(queue) : queue'[i] = queue[i]
      /\ queue'[Len(queue) + 1] = task
  BY <1>1
<1>3. \A i : i \in 1..Len(queue') <=> i \in 1..Len(queue) \/ i = Len(queue) + 1
  BY <1>2
<1> QED BY <1>2, <1>3

LEMMA QueueTaken ==
    ASSUME TypeOK, todo > 0, queue' = Tail(queue)
    PROVE  /\ queue' \in Seq(Tasks) /\ Len(queue') = Len(queue) - 1
           /\ \A i \in 1..Len(queue') : i + 1 \in 1..Len(queue) /\ queue'[i] = queue[i + 1]
           /\ \A x : (\E i \in 1..Len(queue') : queue'[i] = x) =>
                     \E i \in 1..Len(queue) : queue[i] = x
           /\ \A x : x # Head(queue) /\ (\E i \in 1..Len(queue) : queue[i] = x) =>
                     \E i \in 1..Len(queue') : queue'[i] = x
<1>1. /\ queue' \in Seq(Tasks) /\ Len(queue) \in Nat \ {0} /\ Len(queue') = Len(queue) - 1
      /\ \A i \in 1..Len(queue') : queue'[i] = queue[i + 1]
      /\ Head(queue) = queue[1]
  BY HeadTask
<1>2. \A i \in 1..Len(queue') : i + 1 \in 1..Len(queue)
  BY <1>1
<1>3. ASSUME NEW x, x # Head(queue), NEW i \in 1..Len(queue), queue[i] = x
      PROVE  \E j \in 1..Len(queue') : queue'[j] = x
  <2>1. i # 1 BY <1>1, <1>3
  <2>2. i - 1 \in 1..Len(queue') /\ (i - 1) + 1 = i BY <1>1, <1>3, <2>1
  <2> QED BY <1>1, <1>3, <2>2
<1> QED BY <1>1, <1>2, <1>3

-----------------------------------------------------------------------------
(* A step that leaves the queue and the ids alone names no new timer. *)
LEMMA NamedSame ==
    ASSUME UNCHANGED <<queue, adding, ids>>
    PROVE  /\ \A id : Named(id)' <=> Named(id)
           /\ \A a : Queued(a)' <=> Queued(a)
  BY DEF Named, Queued

(* A new timer gets the next sequence, which nobody has seen, at an address *)
(* nobody refers to.                                                        *)
LEMMA NewTimerFresh ==
    ASSUME TimerInv, NEW a \in Addr, NewTimer(a)
    PROVE  /\ numCreated \in Nat /\ numCreated + 1 \in Sequence
           /\ numCreated' = numCreated + 1 /\ numCreated' \in 0..MaxTimers
           /\ \A b \in Addr : heap[b].seq # numCreated + 1
           /\ numCreated + 1 \notin added /\ numCreated + 1 \notin canceled
           /\ \A id \in TimerIds : Named(id) => id[2] # numCreated + 1
           /\ ~Queued(a) /\ a \notin pending
           /\ \A id \in validTimers : id[1] # a
<1>1. numCreated \in 0..MaxTimers /\ numCreated < MaxTimers /\ numCreated' = numCreated + 1
  BY DEF TimerInv, TypeOK, NewTimer
<1>2. /\ numCreated \in Nat /\ numCreated + 1 \in Sequence
      /\ numCreated' = numCreated + 1 /\ numCreated' \in 0..MaxTimers
  BY <1>1, Bounds DEF Sequence
<1>3. \A b \in Addr : heap[b].seq # numCreated + 1
  BY <1>2, HeapFields DEF TimerInv, SequencesInv
<1>4. numCreated + 1 \notin added /\ numCreated + 1 \notin canceled
  BY <1>2 DEF TimerInv, SequencesInv
<1>5. \A id \in TimerIds : Named(id) => id[2] # numCreated + 1
  BY <1>2 DEF TimerInv, SequencesInv
<1>6. heap[a] = Free BY DEF NewTimer
<1>7. ~Queued(a) BY <1>6 DEF TimerInv, HeapSafe
<1>8. \A id \in validTimers : id[1] # a BY <1>6 DEF TimerInv, HeapSafe, Live
<1>9. a \notin pending BY <1>8 DEF TimerInv, HeapSafe
<1> QED BY <1>2, <1>3, <1>4, <1>5, <1>7, <1>8, <1>9

(* addTimer() in the loop thread keeps the invariant. *)
LEMMA AddTimerInLoopThreadStep ==
    ASSUME TimerInv, NEW a \in Addr, NEW r \in BOOLEAN, AddTimerInLoopThread(a, r)
    PROVE  TimerInv'
<1> DEFINE n == numCreated + 1
<1>1. /\ n \in Nat /\ n \in Sequence /\ numCreated' = n /\ numCreated' \in 0..MaxTimers
      /\ numCreated \in Nat
      /\ \A b \in Addr : heap[b].seq # n
      /\ n \notin added /\ n \notin canceled
      /\ \A id \in TimerIds : Named(id) => id[2] # n
      /\ ~Queued(a) /\ a \notin pending
      /\ \A id \in validTimers : id[1] # a
      /\ heap[a] = Free
  BY NewTimerFresh DEF AddTimerInLoopThread, NewTimer
<1>2. /\ heap' = [heap EXCEPT ![a] = [seq |-> n, repeat |-> r, active |-> TRUE]]
      /\ validTimers' = validTimers \cup {<<a, n>>}
      /\ ids' = ids \cup {<<a, n>>}
      /\ added' = added \cup {n}
      /\ UNCHANGED <<pc, pending, queue, todo, adding, fired, canceled, late>>
  BY DEF AddTimerInLoopThread, Started
<1>3. TypeOK BY DEF TimerInv
<1>4. heap'[a].seq = n /\ heap'[a].active /\ heap'[a] \in Timers /\ heap'[a] # Free
  BY <1>1, <1>2, <1>3, Bounds DEF TypeOK, Timers, Free, Sequence
<1>5. \A b \in Addr : b # a => heap'[b] = heap[b]
  BY <1>2, <1>3 DEF TypeOK
<1>6. <<a, n>> \in TimerIds /\ <<a, n>> \in Addr \X Sequence
  BY <1>1, Bounds DEF TimerIds, Sequence
<1>7. /\ \A id \in TimerIds : Named(id)' <=> Named(id) \/ id = <<a, n>>
      /\ \A b : Queued(b)' <=> Queued(b)
  BY <1>2 DEF Named, Queued
<1> HIDE DEF n
<1>8. TypeOK'
  <2>1. heap' \in [Addr -> Timers \cup {Free}] BY <1>2, <1>3, <1>4, <1>5 DEF TypeOK
  <2> QED BY <1>1, <1>2, <1>3, <1>6, <2>1 DEF TypeOK
<1>9. HeapSafe'
  <2>1. \A id \in validTimers' : Live(id)'
    BY <1>1, <1>2, <1>3, <1>4, <1>5 DEF TimerInv, TypeOK, HeapSafe, Live
  <2>2. <<a, n>> \in validTimers' /\ <<a, n>>[1] = a BY <1>2
  <2>3. \A b : Valid(b)' <=> b = a \/ Valid(b) BY <1>2, <2>2 DEF Valid
  <2>4. ~Valid(a) BY <1>1 DEF Valid
  <2>5. HeapParts BY HeapSafeParts DEF TimerInv
  <2>6. HeapParts'
    BY <1>1, <1>2, <1>4, <1>5, <1>7, <2>1, <2>3, <2>4, <2>5 DEF HeapParts
  <2> QED BY <2>6, HeapSafeParts, PTL
<1>10. CancelIsExact'
  BY <1>1, <1>2, <1>3, <1>4, <1>5 DEF TimerInv, TypeOK, CancelIsExact
<1>11. SequencesInv'
  <2>1. \A b \in Addr : heap'[b].seq <= numCreated'
    <3>1. n <= numCreated' BY <1>1
    <3>2. \A b \in Addr : heap[b].seq \in Nat /\ heap[b].seq <= numCreated
      <4>1. \A b \in Addr : heap[b].seq \in 0..MaxTimers BY <1>3, HeapFields
      <4>2. \A b \in Addr : heap[b].seq <= numCreated BY DEF TimerInv, SequencesInv
      <4> QED BY <4>1, <4>2, Bounds
    <3>3. \A b \in Addr : heap[b].seq <= numCreated'
      BY <1>1, <3>2 DEF n
    <3> QED BY <1>4, <1>5, <3>1, <3>3
  <2>2. \A b, c \in Addr : heap'[b] # Free /\ heap'[b].seq = heap'[c].seq => b = c
    BY <1>1, <1>4, <1>5 DEF TimerInv, SequencesInv
  <2>3. (\A s \in added' : s <= numCreated') /\ canceled' \subseteq added'
    BY <1>1, <1>2, <1>3 DEF TimerInv, TypeOK, SequencesInv, n, Sequence
  <2>4. \A id \in TimerIds : Named(id)' => id[2] <= numCreated'
    BY <1>1, <1>7, Bounds DEF TimerInv, SequencesInv, n, TimerIds
  <2>5. \A id \in TimerIds, b \in Addr :
          Named(id)' /\ heap'[b] # Free /\ heap'[b].seq = id[2] => b = id[1]
    BY <1>1, <1>4, <1>5, <1>7 DEF TimerInv, SequencesInv
  <2> QED BY <2>1, <2>2, <2>3, <2>4, <2>5 DEF SequencesInv
<1>12. QueueInv'
  BY <1>1, <1>2, <1>5, <1>7 DEF TimerInv, QueueInv
<1>13. ActiveInv'
  BY <1>1, <1>2, <1>3, <1>4, <1>5 DEF TimerInv, TypeOK, ActiveInv
<1> QED BY <1>8, <1>9, <1>10, <1>11, <1>12, <1>13 DEF TimerInv
(* addTimer() in another thread hands the loop a timer it has not seen. *)
LEMMA AddTimerStep ==
    ASSUME TimerInv, NEW t \in User, NEW a \in Addr, NEW r \in BOOLEAN, AddTimer(t, a, r)
    PROVE  TimerInv'
<1> DEFINE n == numCreated + 1
<1>1. /\ n \in Nat /\ n \in Sequence /\ numCreated' = n /\ numCreated' \in 0..MaxTimers
      /\ numCreated \in Nat
      /\ \A b \in Addr : heap[b].seq # n
      /\ n \notin added /\ n \notin canceled
      /\ \A id \in TimerIds : Named(id) => id[2] # n
      /\ ~Queued(a) /\ a \notin pending
      /\ \A id \in validTimers : id[1] # a
      /\ heap[a] = Free
  BY NewTimerFresh DEF AddTimer, NewTimer
<1>2. /\ heap' = [heap EXCEPT ![a] = [seq |-> n, repeat |-> r, active |-> FALSE]]
      /\ queue' = Append(queue, AddTask(a))
      /\ adding' = [adding EXCEPT ![t] = <<a, n>>]
      /\ UNCHANGED <<pc, validTimers, pending, todo, ids, added, fired, canceled, late>>
  BY DEF AddTimer, Created
<1>3. TypeOK BY DEF TimerInv
<1>4. heap'[a].seq = n /\ ~heap'[a].active /\ heap'[a] \in Timers /\ heap'[a] # Free
  BY <1>1, <1>2, <1>3, Bounds DEF TypeOK, Timers, Free, Sequence
<1>5. \A b \in Addr : b # a => heap'[b] = heap[b]
  BY <1>2, <1>3 DEF TypeOK
<1>6. <<a, n>> \in TimerIds /\ <<a, n>> \in Addr \X Sequence
  BY <1>1, Bounds DEF TimerIds, Sequence
<1> HIDE DEF n
<1>7. AddTask(a) \in Tasks BY DEF Tasks
<1>8. /\ queue' \in Seq(Tasks) /\ Len(queue') = Len(queue) + 1 /\ Len(queue) \in Nat
      /\ \A i \in 1..Len(queue) : queue'[i] = queue[i]
      /\ queue'[Len(queue) + 1] = AddTask(a)
      /\ \A x : (\E i \in 1..Len(queue') : queue'[i] = x) <=>
                (x = AddTask(a) \/ \E i \in 1..Len(queue) : queue[i] = x)
  <2>1. queue \in Seq(Tasks) BY <1>3 DEF TypeOK
  <2>2. Len(queue) \in Nat BY <2>1
  <2> QED BY <1>2, <1>3, <1>7, <2>2, QueueAppended
<1>9. \A b : Queued(b)' <=> Queued(b) \/ b = a
  BY <1>8, TaskFields DEF Queued
<1>10. \A id \in TimerIds : Named(id)' => Named(id) \/ id = <<a, n>>
  <2>1. \A id : (\E i \in 1..Len(queue') : queue'[i] = CancelTask(id)) =>
                \E i \in 1..Len(queue) : queue[i] = CancelTask(id)
    BY <1>8, TaskFields
  <2>2. \A u \in User : adding'[u] = adding[u] \/ adding'[u] = <<a, n>>
    BY <1>2, <1>3 DEF TypeOK
  <2> QED BY <1>2, <2>1, <2>2 DEF Named
<1>11. TypeOK'
  <2>1. heap' \in [Addr -> Timers \cup {Free}] BY <1>2, <1>3, <1>4, <1>5 DEF TypeOK
  <2>2. adding' \in [User -> (Addr \X Sequence) \cup {NoTimer}]
    BY <1>2, <1>3, <1>6 DEF TypeOK
  <2>3. todo' \in 0..Len(queue') BY <1>2, <1>3, <1>8 DEF TypeOK
  <2> QED BY <1>1, <1>2, <1>3, <1>8, <2>1, <2>2, <2>3 DEF TypeOK
<1>12. HeapSafe'
  <2>1. \A id \in validTimers' : Live(id)'
    BY <1>1, <1>2, <1>3, <1>4, <1>5 DEF TimerInv, TypeOK, HeapSafe, Live
  <2>2. \A b : Valid(b)' <=> Valid(b) BY <1>2 DEF Valid
  <2>3. ~Valid(a) BY <1>1 DEF Valid
  <2>4. HeapParts BY HeapSafeParts DEF TimerInv
  <2>5. HeapParts'
    BY <1>1, <1>2, <1>4, <1>5, <1>9, <2>1, <2>2, <2>3, <2>4 DEF HeapParts
  <2> QED BY <2>5, HeapSafeParts, PTL
<1>13. CancelIsExact'
  BY <1>1, <1>2, <1>3, <1>4, <1>5 DEF TimerInv, TypeOK, CancelIsExact
<1>14. SequencesInv'
  <2>1. \A b \in Addr : heap'[b].seq <= numCreated'
    <3>1. n <= numCreated' BY <1>1
    <3>2. \A b \in Addr : heap[b].seq \in Nat /\ heap[b].seq <= numCreated
      <4>1. \A b \in Addr : heap[b].seq \in 0..MaxTimers BY <1>3, HeapFields
      <4>2. \A b \in Addr : heap[b].seq <= numCreated BY DEF TimerInv, SequencesInv
      <4> QED BY <4>1, <4>2, Bounds
    <3>3. \A b \in Addr : heap[b].seq <= numCreated'
      BY <1>1, <3>2 DEF n
    <3> QED BY <1>4, <1>5, <3>1, <3>3
  <2>2. \A b, c \in Addr : heap'[b] # Free /\ heap'[b].seq = heap'[c].seq => b = c
    BY <1>1, <1>4, <1>5 DEF TimerInv, SequencesInv
  <2>3. (\A s \in added' : s <= numCreated') /\ canceled' \subseteq added'
    BY <1>1, <1>2, <1>3 DEF TimerInv, TypeOK, SequencesInv, n, Sequence
  <2>4. \A id \in TimerIds : Named(id)' => id[2] <= numCreated'
    BY <1>1, <1>10, Bounds DEF TimerInv, SequencesInv, n, TimerIds
  <2>5. \A id \in TimerIds, b \in Addr :
          Named(id)' /\ heap'[b] # Free /\ heap'[b].seq = id[2] => b = id[1]
    BY <1>1, <1>4, <1>5, <1>10 DEF TimerInv, SequencesInv
  <2> QED BY <2>1, <2>2, <2>3, <2>4, <2>5 DEF SequencesInv
<1>15. QueueInv'
  <2>1. \A i \in 1..Len(queue) : queue[i] # AddTask(a) BY <1>1 DEF Queued
  <2>2. ASSUME NEW i \in 1..Len(queue'), NEW j \in 1..Len(queue'), NEW b \in Addr,
               queue'[i] = AddTask(b), queue'[j] = AddTask(b)
        PROVE  i = j
    <3>1. i \in 1..Len(queue) \/ i = Len(queue) + 1 BY <1>8
    <3>2. j \in 1..Len(queue) \/ j = Len(queue) + 1 BY <1>8
    <3>3. CASE i \in 1..Len(queue) /\ j \in 1..Len(queue)
      BY <1>8, <2>2, <3>3 DEF TimerInv, QueueInv
    <3>4. CASE i = Len(queue) + 1 \/ j = Len(queue) + 1
      BY <1>8, <2>1, <2>2, <3>1, <3>2, <3>4, TaskFields
    <3> QED BY <3>1, <3>2, <3>3, <3>4
  <2>3. \A b \in Addr : Queued(b)' => heap'[b].seq \notin added' /\ ~heap'[b].active
    BY <1>1, <1>2, <1>4, <1>5, <1>9 DEF TimerInv, QueueInv
  <2> QED BY <2>2, <2>3 DEF QueueInv
<1>16. ActiveInv'
  BY <1>1, <1>2, <1>3, <1>4, <1>5 DEF TimerInv, TypeOK, ActiveInv
<1> QED BY <1>11, <1>12, <1>13, <1>14, <1>15, <1>16 DEF TimerInv

(* Whatever addTimer() reads at its end, the id it returns is harmless:    *)
(* its sequence was handed out, and is not that of a timer elsewhere.      *)
LEMMA AddTimerReturnsStep ==
    ASSUME TimerInv, NEW t \in User, AddTimerReturns(t)
    PROVE  TimerInv'
<1>1. TypeOK BY DEF TimerInv
<1>2. adding[t] \in Addr \X Sequence
  BY <1>1 DEF AddTimerReturns, TypeOK
<1> DEFINE a == adding[t][1]
<1>3. PICK s \in IF heap[a] # Free THEN {heap[a].seq} ELSE {adding[t][2], 0} :
              ids' = ids \cup {<<a, s>>}
  BY DEF AddTimerReturns
<1>4. /\ adding' = [adding EXCEPT ![t] = NoTimer]
      /\ UNCHANGED <<pc, heap, numCreated, validTimers, pending, queue, todo, added,
                      fired, canceled, late>>
  BY DEF AddTimerReturns
<1>5. a \in Addr /\ adding[t] = <<a, adding[t][2]>> /\ adding[t][2] \in Sequence
  BY <1>2
<1>6. adding[t] \in TimerIds /\ Named(adding[t])
  BY <1>2, Bounds DEF TimerIds, Sequence, Named
<1> HIDE DEF a
<1>7. s \in 0..MaxTimers /\ (s = 0 \/ s = adding[t][2] \/ (heap[a] # Free /\ s = heap[a].seq))
  <2>1. heap[a].seq \in 0..MaxTimers BY <1>1, <1>5, HeapFields
  <2>2. adding[t][2] \in 0..MaxTimers /\ 0 \in 0..MaxTimers
    BY <1>5, Bounds DEF Sequence
  <2>3. CASE heap[a] # Free BY <1>3, <2>1, <2>3
  <2>4. CASE heap[a] = Free BY <1>3, <2>2, <2>4
  <2> QED BY <2>3, <2>4
<1>8. s <= numCreated
  <2>1. adding[t][2] <= numCreated BY <1>6 DEF TimerInv, SequencesInv
  <2>2. heap[a].seq <= numCreated BY <1>5 DEF TimerInv, SequencesInv
  <2>3. 0 <= numCreated BY <1>1 DEF TypeOK
  <2> QED BY <1>7, <2>1, <2>2, <2>3
<1>9. \A b \in Addr : heap[b] # Free /\ heap[b].seq = s => b = a
  <2>1. \A b \in Addr : heap[b] # Free => heap[b].seq # 0 BY <1>1, HeapFields
  <2>2. \A b \in Addr : heap[b] # Free /\ heap[b].seq = adding[t][2] => b = a
    BY <1>5, <1>6 DEF TimerInv, SequencesInv, a
  <2>3. \A b \in Addr : heap[b] # Free /\ heap[b].seq = heap[a].seq => b = a
    BY <1>5 DEF TimerInv, SequencesInv
  <2> QED BY <1>7, <2>1, <2>2, <2>3
<1>10. <<a, s>> \in TimerIds BY <1>5, <1>7 DEF TimerIds
<1>11. /\ \A id \in TimerIds : Named(id)' => Named(id) \/ id = <<a, s>>
       /\ \A b : Queued(b)' <=> Queued(b)
       /\ \A b : Valid(b)' <=> Valid(b)
  <2>1. \A u \in User : adding'[u] = adding[u] \/ adding'[u] = NoTimer
    BY <1>1, <1>4 DEF TypeOK
  <2> QED BY <1>3, <1>4, <2>1, NoTimerIsNoId DEF Named, Queued, Valid
<1>12. TypeOK'
  <2>1. adding' \in [User -> (Addr \X Sequence) \cup {NoTimer}]
    BY <1>1, <1>4 DEF TypeOK
  <2>2. ids' \subseteq TimerIds BY <1>1, <1>3, <1>10 DEF TypeOK
  <2> QED BY <1>1, <1>4, <2>1, <2>2 DEF TypeOK
<1>13. HeapSafe'
  <2>1. HeapParts BY HeapSafeParts DEF TimerInv
  <2>2. HeapParts' BY <1>4, <1>11, <2>1 DEF HeapParts, Live
  <2> QED BY <2>2, HeapSafeParts, PTL
<1>14. CancelIsExact' BY <1>4 DEF TimerInv, CancelIsExact
<1>15. SequencesInv'
  <2>1. \A id \in TimerIds : Named(id)' => id[2] <= numCreated'
    BY <1>4, <1>8, <1>11 DEF TimerInv, SequencesInv
  <2>2. \A id \in TimerIds, b \in Addr :
          Named(id)' /\ heap'[b] # Free /\ heap'[b].seq = id[2] => b = id[1]
    BY <1>4, <1>9, <1>11 DEF TimerInv, SequencesInv
  <2> QED BY <1>4, <2>1, <2>2 DEF TimerInv, SequencesInv
<1>16. QueueInv' BY <1>4, <1>11 DEF TimerInv, QueueInv
<1>17. ActiveInv' BY <1>4 DEF TimerInv, ActiveInv
<1> QED BY <1>12, <1>13, <1>14, <1>15, <1>16, <1>17 DEF TimerInv
-----------------------------------------------------------------------------
(* cancelInLoop() for an id somebody was given: if the id is in            *)
(* validTimers_, its timer and no other is stopped; if not, no live timer  *)
(* has its sequence, so none is recorded as canceled and goes on.          *)
CancelKeeps ==
    /\ HeapSafe' /\ CancelIsExact' /\ ActiveInv'
    /\ heap' \in [Addr -> Timers \cup {Free}] /\ pending' \subseteq pending
    /\ canceled' \subseteq added
    /\ \A a \in Addr : /\ heap'[a].seq = heap[a].seq
                       /\ heap'[a] = Free <=> heap[a] = Free
                       /\ heap'[a].active => heap[a].active

LEMMA CancelInLoopStep ==
    ASSUME TimerInv, NEW id \in TimerIds, Named(id), CancelInLoop(id),
           UNCHANGED <<pc, validTimers, added, fired, late>>,
           \A a : Queued(a)' <=> Queued(a)
    PROVE  CancelKeeps
<1>1. TypeOK BY DEF TimerInv
<1>2. canceled' = IF id[2] \in added THEN canceled \cup {id[2]} ELSE canceled
  BY DEF CancelInLoop, RecordCancel
<1>3. canceled' \subseteq added /\ canceled \subseteq canceled'
      /\ canceled' \subseteq canceled \cup {id[2]}
  BY <1>2 DEF TimerInv, SequencesInv
<1>4. \A b : Valid(b)' <=> Valid(b) BY DEF Valid
<1>5. HeapParts BY HeapSafeParts DEF TimerInv
<1>6. CASE id \in validTimers /\ Stop(id[1])
  <2> DEFINE a == id[1]
  <2>1. id = <<a, id[2]>> /\ a \in Addr /\ id[2] \in Sequence
    BY <1>1, <1>6 DEF TypeOK
  <2>2. heap[a] # Free /\ heap[a].seq = id[2] BY <1>5, <1>6 DEF HeapParts, Live
  <2>3. heap' = [heap EXCEPT ![a].active = FALSE] /\ pending' = pending \ {a}
    BY <1>6 DEF Stop
  <2>4. id[2] \in added /\ id[2] \in canceled' BY <1>2, <1>6 DEF TimerInv, ActiveInv
  <2> HIDE DEF a
  <2>5. /\ heap'[a].seq = heap[a].seq /\ heap'[a].active = FALSE
        /\ heap'[a] \in Timers /\ heap'[a] # Free
        /\ \A b \in Addr : b # a => heap'[b] = heap[b]
    <3>1. heap[a] \in Timers BY <1>1, <2>1, <2>2 DEF TypeOK
    <3>2. heap'[a] = [heap[a] EXCEPT !.active = FALSE] BY <1>1, <2>1, <2>3 DEF TypeOK
    <3>3. heap'[a] \in Timers /\ heap'[a].seq = heap[a].seq /\ heap'[a].active = FALSE
      BY <3>1, <3>2 DEF Timers
    <3>4. heap'[a] # Free BY <3>3, Bounds DEF Timers, Free, Sequence
    <3> QED BY <1>1, <2>1, <2>3, <3>3, <3>4 DEF TypeOK
  <2>6. heap' \in [Addr -> Timers \cup {Free}]
    BY <1>1, <2>3, <2>5 DEF TypeOK
  <2>7. \A b \in Addr : b # a => heap[b].seq # id[2]
    BY <2>1, <2>2 DEF TimerInv, SequencesInv
  <2>8. HeapParts'
    <3>1. \A jd \in validTimers' : Live(jd)'
      BY <1>1, <1>5, <2>2, <2>5 DEF HeapParts, Live, TypeOK
    <3> QED BY <1>4, <1>5, <2>2, <2>3, <2>5, <3>1 DEF HeapParts
  <2>9. CancelIsExact'
    <3>1. \A jd \in validTimers : jd[1] \in Addr BY <1>1 DEF TypeOK
    <3>2. \A jd \in validTimers : jd[1] = a => jd[2] = id[2]
      BY <1>5, <2>2 DEF HeapParts, Live
    <3> QED BY <1>3, <2>3, <2>4, <2>5, <3>1, <3>2 DEF TimerInv, CancelIsExact
  <2>10. ActiveInv'
    <3>1. pending \subseteq Addr BY <1>1 DEF TypeOK
    <3> QED BY <1>3, <2>3, <2>5, <2>7, <3>1 DEF TimerInv, ActiveInv
  <2>11. HeapSafe' BY <2>8, HeapSafeParts, PTL
  <2> QED BY <1>3, <2>2, <2>3, <2>5, <2>6, <2>9, <2>10, <2>11 DEF CancelKeeps
<1>7. CASE id \notin validTimers /\ UNCHANGED <<heap, pending>>
  <2>1. \A b \in Addr : heap[b].active => heap[b].seq # id[2]
    <3> SUFFICES ASSUME NEW b \in Addr, heap[b].active, heap[b].seq = id[2] PROVE FALSE
      OBVIOUS
    <3>1. heap[b] # Free BY <1>1, HeapFields
    <3>2. b = id[1] BY <3>1 DEF TimerInv, SequencesInv
    <3>3. <<b, heap[b].seq>> \in validTimers BY DEF TimerInv, ActiveInv
    <3>4. id = <<id[1], id[2]>> BY DEF TimerIds
    <3> QED BY <1>7, <3>2, <3>3, <3>4
  <2>2. \A b \in pending : heap[b].seq # id[2]
    <3> SUFFICES ASSUME NEW b \in pending, heap[b].seq = id[2] PROVE FALSE
      OBVIOUS
    <3>1. PICK jd \in validTimers : jd[1] = b BY <1>5 DEF HeapParts, Valid
    <3>2. heap[b] # Free /\ jd[2] = id[2] BY <1>5, <3>1 DEF HeapParts, Live
    <3>3. b \in Addr /\ jd = <<jd[1], jd[2]>> BY <1>1, <3>1 DEF TypeOK
    <3>4. b = id[1] BY <3>2, <3>3 DEF TimerInv, SequencesInv
    <3>5. id = <<id[1], id[2]>> BY DEF TimerIds
    <3> QED BY <1>7, <3>1, <3>2, <3>3, <3>4, <3>5
  <2>3. HeapParts' BY <1>4, <1>5, <1>7 DEF HeapParts, Live
  <2>4. HeapSafe' BY <2>3, HeapSafeParts, PTL
  <2>5. CancelIsExact' BY <1>3, <1>7 DEF TimerInv, CancelIsExact
  <2>6. ActiveInv' BY <1>3, <1>7, <2>1, <2>2 DEF TimerInv, ActiveInv
  <2> QED BY <1>1, <1>3, <1>7, <2>4, <2>5, <2>6 DEF CancelKeeps, TypeOK
<1> QED BY <1>6, <1>7 DEF CancelInLoop

(* What CancelKeeps leaves to show: the sequences and the queue. *)
LEMMA CancelKeepsSequences ==
    ASSUME TimerInv, CancelKeeps, UNCHANGED <<numCreated, added>>,
           \A id \in TimerIds : Named(id)' => Named(id)
    PROVE  SequencesInv'
  BY DEF TimerInv, SequencesInv, CancelKeeps

(* cancel() keeps the invariant, in the loop thread and elsewhere. *)
LEMMA CancelStep ==
    ASSUME TimerInv, NEW t \in Threads, NEW id \in ids, Cancel(t, id)
    PROVE  TimerInv'
<1>1. TypeOK BY DEF TimerInv
<1>2. UNCHANGED <<pc, numCreated, validTimers, todo, adding, ids, added, fired, late>>
  BY DEF Cancel
<1>3. id \in TimerIds /\ Named(id) BY <1>1 DEF TypeOK, Named
<1>4. CASE CancelInLoop(id) /\ UNCHANGED queue
  <2>1. /\ \A jd : Named(jd)' <=> Named(jd)
        /\ \A a : Queued(a)' <=> Queued(a)
    BY <1>2, <1>4, NamedSame
  <2>2. CancelKeeps BY <1>2, <1>3, <1>4, <2>1, CancelInLoopStep
  <2>3. SequencesInv' BY <1>2, <2>1, <2>2, CancelKeepsSequences
  <2>4. QueueInv' BY <1>2, <1>4, <2>1, <2>2 DEF TimerInv, QueueInv, CancelKeeps
  <2>5. TypeOK'
    <3>1. canceled' \subseteq 0..MaxTimers
      BY <1>1, <2>2, Bounds DEF CancelKeeps, TypeOK, Sequence
    <3> QED BY <1>1, <1>2, <1>4, <2>2, <3>1 DEF TypeOK, CancelKeeps
  <2> QED BY <2>2, <2>3, <2>4, <2>5 DEF TimerInv, CancelKeeps
<1>5. CASE queue' = Append(queue, CancelTask(id)) /\ UNCHANGED <<heap, pending, canceled>>
  <2>1. CancelTask(id) \in Tasks BY <1>3 DEF Tasks
  <2>2. /\ queue' \in Seq(Tasks) /\ Len(queue') = Len(queue) + 1 /\ Len(queue) \in Nat
        /\ \A i \in 1..Len(queue) : queue'[i] = queue[i]
        /\ queue'[Len(queue) + 1] = CancelTask(id)
        /\ \A x : (\E i \in 1..Len(queue') : queue'[i] = x) <=>
                  (x = CancelTask(id) \/ \E i \in 1..Len(queue) : queue[i] = x)
    <3>1. queue \in Seq(Tasks) BY <1>1 DEF TypeOK
    <3>2. Len(queue) \in Nat BY <3>1
    <3> QED BY <1>1, <1>5, <2>1, <3>2, QueueAppended
  <2>3. \A a : Queued(a)' <=> Queued(a) BY <2>2, TaskFields DEF Queued
  <2>4. \A jd \in TimerIds : Named(jd)' => Named(jd)
    <3>1. \A jd : (\E i \in 1..Len(queue') : queue'[i] = CancelTask(jd)) =>
                  jd = id \/ \E i \in 1..Len(queue) : queue[i] = CancelTask(jd)
      BY <2>2, TaskFields
    <3> QED BY <1>2, <3>1 DEF Named
  <2>5. TypeOK'
    <3>1. todo' \in 0..Len(queue') BY <1>1, <1>2, <2>2 DEF TypeOK
    <3> QED BY <1>1, <1>2, <1>5, <2>2, <3>1 DEF TypeOK
  <2>6. HeapSafe'
    <3>1. HeapParts BY HeapSafeParts DEF TimerInv
    <3>2. HeapParts' BY <1>2, <1>5, <2>3, <3>1 DEF HeapParts, Live, Valid
    <3> QED BY <3>2, HeapSafeParts, PTL
  <2>7. CancelIsExact' BY <1>2, <1>5 DEF TimerInv, CancelIsExact
  <2>8. SequencesInv' BY <1>2, <1>5, <2>4 DEF TimerInv, SequencesInv
  <2>9. QueueInv'
    <3>1. ASSUME NEW i \in 1..Len(queue'), NEW j \in 1..Len(queue'), NEW b \in Addr,
                 queue'[i] = AddTask(b), queue'[j] = AddTask(b)
          PROVE  i = j
      <4>1. i \in 1..Len(queue) \/ i = Len(queue) + 1 BY <2>2
      <4>2. j \in 1..Len(queue) \/ j = Len(queue) + 1 BY <2>2
      <4>3. i \in 1..Len(queue) /\ j \in 1..Len(queue)
        BY <2>2, <3>1, <4>1, <4>2, TaskFields
      <4> QED BY <2>2, <3>1, <4>3 DEF TimerInv, QueueInv
    <3> QED BY <1>2, <1>5, <2>3, <3>1 DEF TimerInv, QueueInv
  <2>10. ActiveInv' BY <1>2, <1>5 DEF TimerInv, ActiveInv
  <2> QED BY <2>5, <2>6, <2>7, <2>8, <2>9, <2>10 DEF TimerInv
<1> QED BY <1>4, <1>5 DEF Cancel

(* The functor of a cancel() call. *)
LEMMA RunCancelInLoopStep ==
    ASSUME TimerInv, RunCancelInLoop
    PROVE  TimerInv'
<1>1. TypeOK BY DEF TimerInv
<1> DEFINE id == Head(queue).id
<1>2. /\ todo > 0 /\ Head(queue).op = "cancelInLoop" /\ CancelInLoop(id)
      /\ queue' = Tail(queue) /\ todo' = todo - 1
      /\ UNCHANGED <<pc, numCreated, validTimers, adding, ids, added, fired, late>>
  BY DEF RunCancelInLoop
<1>3. /\ id \in TimerIds /\ Head(queue) = CancelTask(id) /\ Head(queue) = queue[1]
      /\ Len(queue) \in Nat \ {0}
  BY <1>1, <1>2, HeadTask
<1>4. Named(id) BY <1>3 DEF Named
<1> HIDE DEF id
<1>5. /\ queue' \in Seq(Tasks) /\ Len(queue') = Len(queue) - 1
      /\ \A i \in 1..Len(queue') : i + 1 \in 1..Len(queue) /\ queue'[i] = queue[i + 1]
      /\ \A x : (\E i \in 1..Len(queue') : queue'[i] = x) =>
                \E i \in 1..Len(queue) : queue[i] = x
      /\ \A x : x # Head(queue) /\ (\E i \in 1..Len(queue) : queue[i] = x) =>
                \E i \in 1..Len(queue') : queue'[i] = x
  BY <1>1, <1>2, QueueTaken
<1>6. \A a : Queued(a)' <=> Queued(a) BY <1>3, <1>5, TaskFields DEF Queued
<1>7. \A jd : Named(jd)' => Named(jd) BY <1>2, <1>5 DEF Named
<1>8. CancelKeeps BY <1>2, <1>3, <1>4, <1>6, CancelInLoopStep
<1>9. SequencesInv' BY <1>2, <1>7, <1>8, CancelKeepsSequences
<1>10. QueueInv'
  <2>1. \A i, j \in 1..Len(queue'), a \in Addr :
           queue'[i] = AddTask(a) /\ queue'[j] = AddTask(a) => i = j
    <3>1. \A i, j \in 1..Len(queue') : i + 1 = j + 1 => i = j BY <1>3, <1>5
    <3> QED BY <1>5, <3>1 DEF TimerInv, QueueInv
  <2> QED BY <1>2, <1>6, <1>8, <2>1 DEF TimerInv, QueueInv, CancelKeeps
<1>11. TypeOK'
  <2>1. canceled' \subseteq 0..MaxTimers
    BY <1>1, <1>8, Bounds DEF CancelKeeps, TypeOK, Sequence
  <2>2. todo' \in 0..Len(queue') BY <1>1, <1>2, <1>3, <1>5 DEF TypeOK
  <2> QED BY <1>1, <1>2, <1>5, <1>8, <2>1, <2>2 DEF TypeOK, CancelKeeps
<1> QED BY <1>8, <1>9, <1>10, <1>11 DEF TimerInv, CancelKeeps

-----------------------------------------------------------------------------
(* clearExpiredTimer() deletes exactly the timers of validTimers_ that are *)
(* not active, and doPendingFunctors() takes what is queued.               *)
LEMMA ClearExpiredTimerStep ==
    ASSUME TimerInv, ClearExpiredTimer
    PROVE  TimerInv'
<1>1. TypeOK BY DEF TimerInv
<1>2. /\ pc = "prepare" /\ pc' = "functors" /\ todo' = Len(queue)
      /\ validTimers' = {id \in validTimers : ~Expired(id)}
      /\ heap' = [a \in Addr |-> IF \E id \in validTimers : id[1] = a /\ Expired(id)
                                 THEN Free ELSE heap[a]]
      /\ UNCHANGED <<numCreated, pending, queue, adding, ids, added, fired,
                     canceled, late>>
  BY DEF ClearExpiredTimer
<1>3. pending = {} BY <1>2 DEF TimerInv, ActiveInv
<1>4. HeapParts BY HeapSafeParts DEF TimerInv
<1>5. \A id \in validTimers : id[1] \in Addr BY <1>1 DEF TypeOK
<1>6. \A a \in Addr : IF Valid(a) /\ ~heap[a].active THEN heap'[a] = Free
                                                     ELSE heap'[a] = heap[a]
  BY <1>2 DEF Valid, Expired
<1>7. \A a \in Addr : Valid(a)' <=> Valid(a) /\ heap[a].active
  BY <1>2 DEF Valid, Expired
<1>8. /\ \A id : Named(id)' <=> Named(id)
      /\ \A a : Queued(a)' <=> Queued(a)
  BY <1>2, NamedSame
<1>9. Free.seq = 0 /\ Free.active = FALSE BY DEF Free
<1>10. TypeOK'
  <2>1. heap' \in [Addr -> Timers \cup {Free}] BY <1>1, <1>2 DEF TypeOK
  <2>2. todo' \in 0..Len(queue') /\ pc' \in {"prepare", "functors", "poll", "events"}
    <3>1. queue \in Seq(Tasks) BY <1>1 DEF TypeOK
    <3>2. Len(queue) \in Nat BY <3>1
    <3> QED BY <1>2, <3>2
  <2>3. validTimers' \subseteq Addr \X Sequence BY <1>1, <1>2 DEF TypeOK
  <2> QED BY <1>1, <1>2, <2>1, <2>2, <2>3 DEF TypeOK
<1>11. HeapSafe'
  <2>1. \A id \in validTimers' : id \in validTimers /\ heap[id[1]].active
    BY <1>2 DEF Expired
  <2>2. \A id \in validTimers' : heap'[id[1]] = heap[id[1]]
    BY <1>5, <1>6, <2>1
  <2>3. \A id \in validTimers' : Live(id)'
    BY <1>4, <2>1, <2>2 DEF HeapParts, Live
  <2>4. \A a \in Addr : Queued(a)' => heap'[a] # Free
    BY <1>4, <1>6, <1>8 DEF HeapParts
  <2>5. \A a \in Addr : heap'[a] # Free => heap[a] # Free /\ (Valid(a)' <=> Valid(a))
    BY <1>6, <1>7
  <2>6. HeapParts' BY <1>2, <1>3, <1>4, <1>8, <2>3, <2>4, <2>5 DEF HeapParts
  <2> QED BY <2>6, HeapSafeParts, PTL
<1>12. CancelIsExact'
  <2>1. \A id \in validTimers' : id \in validTimers /\ heap[id[1]].active
    BY <1>2 DEF Expired
  <2>2. \A id \in validTimers' : heap'[id[1]] = heap[id[1]]
    BY <1>5, <1>6, <2>1
  <2> QED BY <1>2, <2>1, <2>2 DEF TimerInv, CancelIsExact
<1>13. SequencesInv'
  <2>1. \A a \in Addr : heap'[a].seq = 0 \/ heap'[a] = heap[a] BY <1>6, <1>9
  <2>2. \A a \in Addr : heap'[a] # Free => heap'[a] = heap[a] BY <1>6
  <2>3. 0 <= numCreated BY <1>1 DEF TypeOK
  <2>4. \A a \in Addr : heap'[a] # Free => heap'[a].seq # 0 BY <1>1, <2>2, HeapFields
  <2>5. \A a \in Addr : heap'[a].seq <= numCreated'
    BY <1>2, <2>1, <2>3 DEF TimerInv, SequencesInv
  <2>6. \A a, b \in Addr : heap'[a] # Free /\ heap'[a].seq = heap'[b].seq => a = b
    BY <2>1, <2>2, <2>4 DEF TimerInv, SequencesInv
  <2>7. \A id \in TimerIds, b \in Addr :
          Named(id)' /\ heap'[b] # Free /\ heap'[b].seq = id[2] => b = id[1]
    BY <1>8, <2>2 DEF TimerInv, SequencesInv
  <2>8. \A id \in TimerIds : Named(id)' => id[2] <= numCreated'
    BY <1>2, <1>8 DEF TimerInv, SequencesInv
  <2> QED BY <1>2, <2>5, <2>6, <2>7, <2>8 DEF TimerInv, SequencesInv
<1>14. QueueInv'
  <2>1. \A a \in Addr : Queued(a) => heap'[a] = heap[a] BY <1>4, <1>6 DEF HeapParts
  <2> QED BY <1>2, <1>8, <2>1 DEF TimerInv, QueueInv
<1>15. ActiveInv'
  <2>1. \A a \in Addr : heap'[a].active =>
           heap'[a] = heap[a] /\ <<a, heap[a].seq>> \in validTimers
    BY <1>6, <1>9 DEF TimerInv, ActiveInv
  <2>2. \A a \in Addr : heap'[a].active => <<a, heap'[a].seq>> \in validTimers'
    BY <1>2, <2>1 DEF Expired
  <2> QED BY <1>2, <1>3, <2>1, <2>2 DEF TimerInv, ActiveInv
<1> QED BY <1>10, <1>11, <1>12, <1>13, <1>14, <1>15 DEF TimerInv

(* addTimerInLoop() starts a timer the loop has not seen before. *)
LEMMA AddTimerInLoopStep ==
    ASSUME TimerInv, AddTimerInLoop
    PROVE  TimerInv'
<1>1. TypeOK BY DEF TimerInv
<1> DEFINE a == Head(queue).addr
           s == heap[a].seq
<1>2. /\ todo > 0 /\ Head(queue).op = "addTimerInLoop"
      /\ heap' = [heap EXCEPT ![a].active = TRUE]
      /\ validTimers' = validTimers \cup {<<a, s>>}
      /\ added' = added \cup {s}
      /\ queue' = Tail(queue) /\ todo' = todo - 1
      /\ UNCHANGED <<pc, numCreated, pending, adding, ids, fired, canceled, late>>
  BY DEF AddTimerInLoop
<1>3. /\ a \in Addr /\ Head(queue) = AddTask(a) /\ Head(queue) = queue[1]
      /\ Len(queue) \in Nat \ {0}
  BY <1>1, <1>2, HeadTask
<1> HIDE DEF a
<1>4. HeapParts BY HeapSafeParts DEF TimerInv
<1>5. Queued(a) BY <1>3 DEF Queued
<1>6. /\ heap[a] # Free /\ ~Valid(a) /\ a \notin pending
      /\ s \notin added /\ s \notin canceled
  BY <1>3, <1>4, <1>5 DEF HeapParts, TimerInv, QueueInv, SequencesInv
<1>7. /\ heap'[a].seq = s /\ heap'[a].active = TRUE
      /\ heap'[a] \in Timers /\ heap'[a] # Free /\ s \in Sequence
      /\ \A b \in Addr : b # a => heap'[b] = heap[b]
  <2>1. heap[a] \in Timers BY <1>1, <1>3, <1>6 DEF TypeOK
  <2>2. heap'[a] = [heap[a] EXCEPT !.active = TRUE] BY <1>1, <1>2, <1>3 DEF TypeOK
  <2>3. heap'[a] \in Timers /\ heap'[a].seq = heap[a].seq /\ heap'[a].active = TRUE
    BY <2>1, <2>2 DEF Timers
  <2>4. heap'[a] # Free BY <2>3, Bounds DEF Timers, Free, Sequence
  <2> QED BY <1>1, <1>2, <1>3, <2>1, <2>3, <2>4 DEF TypeOK, Timers
<1>8. \A b \in Addr : b # a => heap[b].seq # s
  BY <1>3, <1>6 DEF TimerInv, SequencesInv
<1> HIDE DEF s
<1>9. /\ queue' \in Seq(Tasks) /\ Len(queue') = Len(queue) - 1
      /\ \A i \in 1..Len(queue') : i + 1 \in 1..Len(queue) /\ queue'[i] = queue[i + 1]
      /\ \A x : (\E i \in 1..Len(queue') : queue'[i] = x) =>
                \E i \in 1..Len(queue) : queue[i] = x
      /\ \A x : x # Head(queue) /\ (\E i \in 1..Len(queue) : queue[i] = x) =>
                \E i \in 1..Len(queue') : queue'[i] = x
  BY <1>1, <1>2, QueueTaken
<1>10. \A id : Named(id)' => Named(id) BY <1>2, <1>9 DEF Named
<1>11. \A b \in Addr : b = a => ~Queued(b)'
  <2> SUFFICES ASSUME NEW i \in 1..Len(queue'), queue'[i] = AddTask(a) PROVE FALSE
    BY DEF Queued
  <2>1. i + 1 \in 1..Len(queue) /\ queue[i + 1] = AddTask(a) /\ queue[1] = AddTask(a)
    BY <1>3, <1>9
  <2>2. i + 1 = 1 BY <1>3, <2>1 DEF TimerInv, QueueInv
  <2> QED BY <1>3, <1>9, <2>2
<1>12. \A b \in Addr : b # a => (Queued(b)' <=> Queued(b))
  BY <1>3, <1>9, TaskFields DEF Queued
<1>13. \A b : Valid(b)' <=> b = a \/ Valid(b)
  <2>1. <<a, s>> \in validTimers' /\ <<a, s>>[1] = a BY <1>2
  <2> QED BY <1>2, <2>1 DEF Valid
<1>14. TypeOK'
  <2>1. heap' \in [Addr -> Timers \cup {Free}] BY <1>1, <1>2, <1>7 DEF TypeOK
  <2>2. todo' \in 0..Len(queue') BY <1>1, <1>2, <1>3, <1>9 DEF TypeOK
  <2>3. validTimers' \subseteq Addr \X Sequence /\ added' \subseteq Sequence
    BY <1>1, <1>2, <1>3, <1>7 DEF TypeOK
  <2> QED BY <1>1, <1>2, <1>9, <2>1, <2>2, <2>3 DEF TypeOK
<1>15. HeapSafe'
  <2>1. \A id \in validTimers : id[1] \in Addr /\ id[1] # a
    BY <1>1, <1>6 DEF TypeOK, Valid
  <2>2. \A id \in validTimers' : Live(id)'
    BY <1>2, <1>4, <1>7, <2>1 DEF HeapParts, Live
  <2>3. \A b \in Addr : heap'[b] # Free => Queued(b)' \/ Valid(b)'
    BY <1>4, <1>7, <1>12, <1>13 DEF HeapParts
  <2>4. \A b \in Addr : heap'[b] # Free => ~(Queued(b)' /\ Valid(b)')
    BY <1>4, <1>7, <1>11, <1>12, <1>13 DEF HeapParts
  <2>5. \A b \in Addr : Queued(b)' => heap'[b] # Free
    BY <1>4, <1>7, <1>12 DEF HeapParts
  <2>6. HeapParts' BY <1>2, <1>4, <1>13, <2>2, <2>3, <2>4, <2>5 DEF HeapParts
  <2> QED BY <2>6, HeapSafeParts, PTL
<1>16. CancelIsExact'
  <2>1. \A id \in validTimers : id[1] \in Addr /\ id[1] # a
    BY <1>1, <1>6 DEF TypeOK, Valid
  <2> QED BY <1>2, <1>7, <2>1 DEF TimerInv, CancelIsExact
<1>17. SequencesInv'
  <2>1. \A b \in Addr : heap'[b].seq = heap[b].seq /\ (heap'[b] # Free => heap[b] # Free)
    BY <1>6, <1>7 DEF s
  <2>2. s <= numCreated BY <1>3 DEF TimerInv, SequencesInv, s
  <2> QED BY <1>2, <1>10, <2>1, <2>2 DEF TimerInv, SequencesInv
<1>18. QueueInv'
  <2>1. \A i, j \in 1..Len(queue'), b \in Addr :
           queue'[i] = AddTask(b) /\ queue'[j] = AddTask(b) => i = j
    <3>1. \A i, j \in 1..Len(queue') : i + 1 = j + 1 => i = j BY <1>3, <1>9
    <3> QED BY <1>9, <3>1 DEF TimerInv, QueueInv
  <2>2. \A b \in Addr : Queued(b)' => heap'[b].seq \notin added' /\ ~heap'[b].active
    BY <1>2, <1>7, <1>8, <1>11, <1>12 DEF TimerInv, QueueInv
  <2> QED BY <2>1, <2>2 DEF QueueInv
<1>19. ActiveInv'
  <2>1. pending \subseteq Addr BY <1>1 DEF TypeOK
  <2> QED BY <1>2, <1>6, <1>7, <2>1 DEF TimerInv, ActiveInv
<1> QED BY <1>14, <1>15, <1>16, <1>17, <1>18, <1>19 DEF TimerInv

(* timers_reify: a timer in S is active, so it is valid and not canceled. *)
LEMMA ReifyStep ==
    ASSUME TimerInv, NEW S \in SUBSET Addr, Reify(S)
    PROVE  TimerInv'
<1>1. TypeOK BY DEF TimerInv
<1>2. /\ pc = "poll" /\ pc' = "events" /\ \A a \in S : heap[a].active
      /\ pending' = S
      /\ heap' = [a \in Addr |-> IF a \in S /\ ~heap[a].repeat
                                 THEN [heap[a] EXCEPT !.active = FALSE] ELSE heap[a]]
      /\ UNCHANGED <<numCreated, validTimers, queue, todo, adding, ids, added, fired,
                     canceled, late>>
  BY DEF Reify
<1>3. pending = {} BY <1>2 DEF TimerInv, ActiveInv
<1>4. HeapParts BY HeapSafeParts DEF TimerInv
<1>5. \A a \in Addr : a \notin S => heap'[a] = heap[a] BY <1>2
<1>6. \A a \in Addr : /\ heap'[a] \in Timers \cup {Free}
                      /\ heap'[a].seq = heap[a].seq
                      /\ heap'[a] = Free <=> heap[a] = Free
                      /\ heap'[a].active => heap[a].active
  <2> SUFFICES ASSUME NEW a \in Addr
               PROVE  /\ heap'[a] \in Timers \cup {Free}
                      /\ heap'[a].seq = heap[a].seq
                      /\ heap'[a] = Free <=> heap[a] = Free
                      /\ heap'[a].active => heap[a].active
    OBVIOUS
  <2>1. CASE heap'[a] = heap[a] BY <1>1, <2>1 DEF TypeOK
  <2>2. CASE a \in S /\ heap'[a] = [heap[a] EXCEPT !.active = FALSE]
    <3>1. heap[a].active BY <1>2, <2>2
    <3>2. heap[a] # Free BY <3>1 DEF Free
    <3>3. heap[a] \in Timers BY <1>1, <3>2 DEF TypeOK
    <3>4. heap'[a] \in Timers /\ heap'[a].seq = heap[a].seq /\ ~heap'[a].active
      BY <2>2, <3>3 DEF Timers
    <3>5. heap'[a] # Free BY <3>4, Bounds DEF Timers, Free, Sequence
    <3> QED BY <3>1, <3>2, <3>4, <3>5
  <2> QED BY <1>2, <2>1, <2>2
<1>7. /\ \A id : Named(id)' <=> Named(id)
      /\ \A a : Queued(a)' <=> Queued(a)
      /\ \A a : Valid(a)' <=> Valid(a)
  BY <1>2, NamedSame DEF Valid
<1>8. \A a \in S : Valid(a) /\ heap[a].seq \notin canceled
  BY <1>2 DEF TimerInv, ActiveInv, Valid
<1>9. TypeOK'
  <2>1. heap' \in [Addr -> Timers \cup {Free}] BY <1>2, <1>6
  <2> QED BY <1>1, <1>2, <2>1 DEF TypeOK
<1>10. HeapSafe'
  <2>1. \A id \in validTimers : id[1] \in Addr BY <1>1 DEF TypeOK
  <2>2. \A id \in validTimers' : Live(id)' BY <1>2, <1>4, <1>6, <2>1 DEF HeapParts, Live
  <2>3. HeapParts' BY <1>2, <1>4, <1>6, <1>7, <1>8, <2>2 DEF HeapParts
  <2> QED BY <2>3, HeapSafeParts, PTL
<1>11. CancelIsExact'
  <2>1. \A id \in validTimers : id[1] \in Addr BY <1>1 DEF TypeOK
  <2> QED BY <1>2, <1>3, <1>5, <2>1 DEF TimerInv, CancelIsExact
<1>12. SequencesInv' BY <1>2, <1>6, <1>7 DEF TimerInv, SequencesInv
<1>13. QueueInv' BY <1>2, <1>6, <1>7 DEF TimerInv, QueueInv
<1>14. ActiveInv' BY <1>2, <1>6, <1>8 DEF TimerInv, ActiveInv
<1> QED BY <1>9, <1>10, <1>11, <1>12, <1>13, <1>14 DEF TimerInv

(* Timer::run() for an expired timer, which was not canceled since. *)
LEMMA RunStep ==
    ASSUME TimerInv, NEW a \in Addr, Run(a)
    PROVE  TimerInv'
<1>1. TypeOK BY DEF TimerInv
<1>2. /\ pc = "events" /\ a \in pending /\ pending' = pending \ {a}
      /\ fired' = fired \cup {heap[a].seq}
      /\ late' = IF heap[a].seq \in canceled THEN late \cup {heap[a].seq} ELSE late
      /\ UNCHANGED <<pc, heap, numCreated, validTimers, queue, todo, adding, ids,
                     added, canceled>>
  BY DEF Run
<1>3. HeapParts BY HeapSafeParts DEF TimerInv
<1>4. heap[a].seq \notin canceled BY <1>2 DEF TimerInv, ActiveInv
<1>5. late' = {} BY <1>2, <1>4 DEF TimerInv, CancelIsExact
<1>6. heap[a].seq \in Sequence
  <2>1. PICK id \in validTimers : id[1] = a BY <1>2, <1>3 DEF HeapParts, Valid
  <2>2. heap[a].seq = id[2] /\ id[2] \in Sequence
    BY <1>1, <1>3, <2>1 DEF HeapParts, Live, TypeOK
  <2> QED BY <2>2
<1>7. /\ \A id : Named(id)' <=> Named(id)
      /\ \A b : Queued(b)' <=> Queued(b)
      /\ \A b : Valid(b)' <=> Valid(b)
  BY <1>2, NamedSame DEF Valid
<1>8. TypeOK' BY <1>1, <1>2, <1>5, <1>6 DEF TypeOK
<1>9. HeapSafe'
  <2>1. HeapParts' BY <1>2, <1>3, <1>7 DEF HeapParts, Live
  <2> QED BY <2>1, HeapSafeParts, PTL
<1>10. CancelIsExact'
  <2>1. \A id \in validTimers : id[1] = a => id[2] = heap[a].seq
    BY <1>3 DEF HeapParts, Live
  <2> QED BY <1>2, <1>5, <2>1 DEF TimerInv, CancelIsExact
<1>11. SequencesInv' BY <1>2, <1>7 DEF TimerInv, SequencesInv
<1>12. QueueInv' BY <1>2, <1>7 DEF TimerInv, QueueInv
<1>13. ActiveInv' BY <1>2 DEF TimerInv, ActiveInv
<1> QED BY <1>8, <1>9, <1>10, <1>11, <1>12, <1>13 DEF TimerInv

(* A step that changes only the loop's phase. *)
LEMMA PhaseStep ==
    ASSUME TimerInv, pc' \in {"prepare", "functors", "poll", "events"},
           pending = {} \/ pc' = "events",
           UNCHANGED <<heap, numCreated, validTimers, pending, queue, todo, adding, ids,
                       added, fired, canceled, late>>
    PROVE  TimerInv'
<1>1. /\ \A id : Named(id)' <=> Named(id)
      /\ \A b : Queued(b)' <=> Queued(b)
      /\ \A b : Valid(b)' <=> Valid(b)
  BY NamedSame DEF Valid
<1>2. TypeOK' BY DEF TimerInv, TypeOK
<1>3. HeapSafe'
  <2>1. HeapParts BY HeapSafeParts DEF TimerInv
  <2>2. HeapParts' BY <1>1, <2>1 DEF HeapParts, Live
  <2> QED BY <2>2, HeapSafeParts, PTL
<1>4. CancelIsExact' BY DEF TimerInv, CancelIsExact
<1>5. SequencesInv' BY <1>1 DEF TimerInv, SequencesInv
<1>6. QueueInv' BY <1>1 DEF TimerInv, QueueInv
<1>7. ActiveInv' BY DEF TimerInv, ActiveInv
<1> QED BY <1>2, <1>3, <1>4, <1>5, <1>6, <1>7 DEF TimerInv

(* The invariant holds at the start, when there is no timer. *)
LEMMA TimerInvInit == Init => TimerInv
<1> SUFFICES ASSUME Init PROVE TimerInv
  OBVIOUS
<1>1. TypeOK
  <2>1. queue \in Seq(Tasks) /\ todo \in 0..Len(queue) BY DEF Init
  <2>2. numCreated \in 0..MaxTimers BY Bounds DEF Init
  <2> QED BY <2>1, <2>2 DEF Init, TypeOK
<1>2. \A a \in Addr : heap[a] = Free /\ heap[a].seq = 0 /\ ~heap[a].active
  BY DEF Init, Free
<1>3. \A i : i \notin 1..Len(queue) BY DEF Init
<1>4. \A a : ~Queued(a) BY <1>3 DEF Queued
<1>5. \A id \in TimerIds : ~Named(id)
  BY <1>3, NoTimerIsNoId DEF Named, Init
<1>6. HeapSafe
  <2>1. HeapParts BY <1>2, <1>4 DEF Init, HeapParts
  <2> QED BY <2>1, HeapSafeParts
<1>7. CancelIsExact BY DEF Init, CancelIsExact
<1>8. SequencesInv BY <1>2, <1>5 DEF Init, SequencesInv
<1>9. QueueInv BY <1>3, <1>4 DEF QueueInv
<1>10. ActiveInv BY <1>2 DEF Init, ActiveInv
<1> QED BY <1>1, <1>6, <1>7, <1>8, <1>9, <1>10 DEF TimerInv

(* Every step of any thread and of the loop keeps the invariant. *)
LEMMA TimerInvStep == TimerInv /\ [Next]_vars => TimerInv'
<1> SUFFICES ASSUME TimerInv, [Next]_vars PROVE TimerInv'
  OBVIOUS
<1>1. CASE UNCHANGED vars
  <2>1. pc \in {"prepare", "functors", "poll", "events"} BY DEF TimerInv, TypeOK
  <2>2. pending = {} \/ pc = "events" BY DEF TimerInv, ActiveInv
  <2> QED BY <1>1, <2>1, <2>2, PhaseStep DEF vars
<1>2. CASE EndFunctors
  <2>1. pending = {} BY <1>2 DEF EndFunctors, TimerInv, ActiveInv
  <2> QED BY <1>2, <2>1, PhaseStep DEF EndFunctors
<1>3. CASE NextIteration
  BY <1>3, PhaseStep DEF NextIteration
<1>4. CASE Next
  BY <1>2, <1>3, <1>4, NextCases, AddTimerStep, AddTimerReturnsStep,
     AddTimerInLoopThreadStep, CancelStep, ClearExpiredTimerStep, AddTimerInLoopStep,
     RunCancelInLoopStep, ReifyStep, RunStep
<1> QED BY <1>1, <1>4

-----------------------------------------------------------------------------
(* The inductive invariant holds in every reachable state. *)
LEMMA TimerInvariant == Spec => []TimerInv
  BY TimerInvInit, TimerInvStep, PTL DEF Spec

(* The timer queue's state is well typed, the batch within the queue. *)
THEOREM TypeCorrect == Spec => []TypeOK
<1>1. TimerInv => TypeOK BY DEF TimerInv
<1> QED BY <1>1, TimerInvariant, PTL

(* validTimers_, the expired watchers and the queued functors refer to live *)
(* timers only, and no timer is lost or in two places: whoever calls        *)
(* addTimer() and cancel(), and however addresses are reused.               *)
THEOREM HeapIsSafe == Spec => []HeapSafe
<1>1. TimerInv => HeapSafe BY DEF TimerInv
<1> QED BY <1>1, TimerInvariant, PTL

(* A timer that was started never runs after its cancelInLoop(), and a     *)
(* timer that is stopped without having fired was canceled by its own id.  *)
THEOREM CancelExact == Spec => []CancelIsExact
<1>1. TimerInv => CancelIsExact BY DEF TimerInv
<1> QED BY <1>1, TimerInvariant, PTL
=============================================================================

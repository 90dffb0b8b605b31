----------------------------- MODULE TimerQueue -----------------------------
(***************************************************************************)
(* net/TimerQueue.{h,cc}, net/Timer.{h,cc} and net/TimerId.h: the timers   *)
(* of one event loop.  Timer objects live on the heap, whose addresses are *)
(* reused; the loop's set validTimers_ holds (address, sequence) pairs.    *)
(*                                                                         *)
(* The loop is taken at its contract (FunctorQueue.tla) with the phases    *)
(* that matter here: clearExpiredTimer() in prepareCallBack(), one batch   *)
(* of functors, then libev's timers_reify and the expired callbacks.       *)
(* Time is abstract: any set of active timers may be due when poll returns.*)
(***************************************************************************)
EXTENDS Naturals, Sequences, FiniteSets

CONSTANTS
    Addr,        \* heap addresses a Timer may get
    User,        \* threads other than the loop's
    LoopUser,    \* user code in the loop thread
    MaxTimers,   \* bound: timers ever created
    MaxQueue     \* bound: functors waiting in the loop

ASSUME UserAssumption == LoopUser \notin User
ASSUME BoundAssumption == MaxTimers \in Nat \ {0} /\ MaxQueue \in Nat \ {0}

VARIABLES
    pc,           \* the loop's phase
    heap,         \* the Timer at each address, or Free
    numCreated,   \* Timer::s_numCreated_
    validTimers,  \* validTimers_
    pending,      \* timers libev found expired, callback not called yet
    queue,        \* functors of addTimer() and cancel() waiting in the loop
    todo,         \* how many of them the current batch still runs
    adding,       \* per thread: the timer of its addTimer() call that was
                  \* handed to the loop and not read back yet, or NoTimer
    ids,          \* the TimerIds addTimer() has returned
    added,        \* history: sequences addTimerInLoop() has started
    fired,        \* history: sequences whose callback ran
    canceled,     \* history: started timers cancelInLoop() was executed for
    late          \* history: sequences in canceled whose callback ran afterwards

vars == <<pc, heap, numCreated, validTimers, pending, queue, todo, adding, ids,
          added, fired, canceled, late>>

Threads == User \cup {LoopUser}
Sequence == 1..MaxTimers
TimerIds == Addr \X (0..MaxTimers)
Free == [seq |-> 0, repeat |-> FALSE, active |-> FALSE]
Timers == [seq : Sequence, repeat : BOOLEAN, active : BOOLEAN]
NoTimer == <<>>

AddTask(a) == [op |-> "addTimerInLoop", addr |-> a]
CancelTask(id) == [op |-> "cancelInLoop", id |-> id]
Tasks == {AddTask(a) : a \in Addr} \cup {CancelTask(id) : id \in TimerIds}

TypeOK ==
    /\ pc \in {"prepare", "functors", "poll", "events"}
    /\ heap \in [Addr -> Timers \cup {Free}]
    /\ numCreated \in 0..MaxTimers
    /\ validTimers \subseteq Addr \X Sequence
    /\ pending \subseteq Addr
    /\ queue \in Seq(Tasks)
    /\ todo \in 0..Len(queue)
    /\ adding \in [User -> (Addr \X Sequence) \cup {NoTimer}]
    /\ ids \subseteq TimerIds
    /\ added \subseteq Sequence /\ fired \subseteq Sequence /\ late \subseteq Sequence
    /\ canceled \subseteq 0..MaxTimers

-----------------------------------------------------------------------------
Init ==
    /\ pc = "prepare"
    /\ heap = [a \in Addr |-> Free]
    /\ numCreated = 0
    /\ validTimers = {}
    /\ pending = {}
    /\ queue = <<>>
    /\ todo = 0
    /\ adding = [t \in User |-> NoTimer]
    /\ ids = {}
    /\ added = {} /\ fired = {} /\ canceled = {} /\ late = {}

MayCall(t) ==
    \/ t = LoopUser /\ pc \in {"functors", "events"}
    \/ t \in User /\ adding[t] = NoTimer

(* new Timer(...): a free address, the next sequence number, not started. *)
NewTimer(a) ==
    /\ heap[a] = Free
    /\ numCreated < MaxTimers
    /\ numCreated' = numCreated + 1

Started(a, repeat) == [heap EXCEPT ![a] = [seq |-> numCreated + 1, repeat |-> repeat,
                                           active |-> TRUE]]
(* Mutant: the constructor numbers the timer before it counts it, so that  *)
(* the first one has the sequence of a default TimerId.                    *)
CreatedUncounted(a, repeat) == [heap EXCEPT ![a] = [seq |-> numCreated, repeat |-> repeat,
                                                    active |-> FALSE]]

Created(a, repeat) == [heap EXCEPT ![a] = [seq |-> numCreated + 1, repeat |-> repeat,
                                           active |-> FALSE]]

(* addTimer() in the loop thread: addTimerInLoop() runs at once. *)
AddTimerInLoopThread(a, repeat) ==
    /\ MayCall(LoopUser)
    /\ NewTimer(a)
    /\ heap' = Started(a, repeat)
    /\ validTimers' = validTimers \cup {<<a, numCreated + 1>>}
    /\ ids' = ids \cup {<<a, numCreated + 1>>}
    /\ added' = added \cup {numCreated + 1}
    /\ UNCHANGED <<pc, pending, queue, todo, adding, fired, canceled, late>>

(* addTimer() in another thread, up to runInLoop(). *)
AddTimer(t, a, repeat) ==
    /\ MayCall(t) /\ t # LoopUser
    /\ NewTimer(a)
    /\ Len(queue) < MaxQueue
    /\ heap' = Created(a, repeat)
    /\ queue' = Append(queue, AddTask(a))
    /\ adding' = [adding EXCEPT ![t] = <<a, numCreated + 1>>]
    /\ UNCHANGED <<pc, validTimers, pending, todo, ids, added, fired, canceled, late>>

(* Its last line, "return TimerId(timer, timer->sequence())": if the loop  *)
(* has deleted the timer meanwhile, what is read is a new timer's sequence *)
(* or freed memory, which the allocator may have overwritten (0).          *)
AddTimerReturns(t) ==
    /\ adding[t] # NoTimer
    /\ LET a == adding[t][1] IN
       \E s \in IF heap[a] # Free THEN {heap[a].seq} ELSE {adding[t][2], 0} :
          ids' = ids \cup {<<a, s>>}
    /\ adding' = [adding EXCEPT ![t] = NoTimer]
    /\ UNCHANGED <<pc, heap, numCreated, validTimers, pending, queue, todo, added,
                   fired, canceled, late>>

-----------------------------------------------------------------------------
RecordCancel(s) ==
    canceled' = IF s \in added THEN canceled \cup {s} ELSE canceled

(* Timer::stop(): stopping a watcher also clears its pending event. *)
Stop(a) ==
    /\ heap' = [heap EXCEPT ![a].active = FALSE]
    /\ pending' = pending \ {a}

(* Mutant: cancelInLoop() that looks up the address and not the sequence. *)
CancelByAddress(id) ==
    /\ RecordCancel(id[2])
    /\ \/ /\ \E s \in Sequence : <<id[1], s>> \in validTimers
          /\ Stop(id[1])
       \/ /\ ~\E s \in Sequence : <<id[1], s>> \in validTimers
          /\ UNCHANGED <<heap, pending>>

(* cancelInLoop() *)
CancelInLoop(id) ==
    /\ RecordCancel(id[2])
    /\ \/ id \in validTimers /\ Stop(id[1])
       \/ id \notin validTimers /\ UNCHANGED <<heap, pending>>

(* cancel() *)
Cancel(t, id) ==
    /\ MayCall(t)
    /\ id \in ids
    /\ \/ t = LoopUser /\ CancelInLoop(id) /\ UNCHANGED queue
       \/ /\ t # LoopUser /\ Len(queue) < MaxQueue
          /\ queue' = Append(queue, CancelTask(id))
          /\ UNCHANGED <<heap, pending, canceled>>
    /\ UNCHANGED <<pc, numCreated, validTimers, todo, adding, ids, added, fired, late>>

-----------------------------------------------------------------------------
(* The loop thread. *)

Expired(id) == ~heap[id[1]].active

(* Mutant: an expired timer is deleted and its entry stays in the set. *)
ClearExpiredKeepsEntry ==
    /\ pc = "prepare"
    /\ heap' = [a \in Addr |-> IF \E id \in validTimers : id[1] = a /\ Expired(id)
                               THEN Free ELSE heap[a]]
    /\ pc' = "functors"
    /\ todo' = Len(queue)
    /\ UNCHANGED <<numCreated, validTimers, pending, queue, adding, ids, added,
                   fired, canceled, late>>

(* prepareCallBack(): clearExpiredTimer() deletes the timers that are not  *)
(* active, then doPendingFunctors() takes the functors that are queued.    *)
ClearExpiredTimer ==
    /\ pc = "prepare"
    /\ validTimers' = {id \in validTimers : ~Expired(id)}
    /\ heap' = [a \in Addr |-> IF \E id \in validTimers : id[1] = a /\ Expired(id)
                               THEN Free ELSE heap[a]]
    /\ pc' = "functors"
    /\ todo' = Len(queue)
    /\ UNCHANGED <<numCreated, pending, queue, adding, ids, added, fired,
                   canceled, late>>

(* Mutant: addTimerInLoop() without timer->start(). *)
AddTimerInLoopNotStarted ==
    /\ pc = "functors" /\ todo > 0
    /\ Head(queue).op = "addTimerInLoop"
    /\ LET a == Head(queue).addr IN
         /\ validTimers' = validTimers \cup {<<a, heap[a].seq>>}
         /\ added' = added \cup {heap[a].seq}
    /\ queue' = Tail(queue)
    /\ todo' = todo - 1
    /\ UNCHANGED <<pc, heap, numCreated, pending, adding, ids, fired, canceled, late>>

AddTimerInLoop ==
    /\ pc = "functors" /\ todo > 0
    /\ Head(queue).op = "addTimerInLoop"
    /\ LET a == Head(queue).addr IN
         /\ heap' = [heap EXCEPT ![a].active = TRUE]
         /\ validTimers' = validTimers \cup {<<a, heap[a].seq>>}
         /\ added' = added \cup {heap[a].seq}
    /\ queue' = Tail(queue)
    /\ todo' = todo - 1
    /\ UNCHANGED <<pc, numCreated, pending, adding, ids, fired, canceled, late>>

RunCancelInLoop ==
    /\ pc = "functors" /\ todo > 0
    /\ Head(queue).op = "cancelInLoop"
    /\ CancelInLoop(Head(queue).id)
    /\ queue' = Tail(queue)
    /\ todo' = todo - 1
    /\ UNCHANGED <<pc, numCreated, validTimers, adding, ids, added, fired, late>>

EndFunctors ==
    /\ pc = "functors" /\ todo = 0
    /\ pc' = "poll"
    /\ UNCHANGED <<heap, numCreated, validTimers, pending, queue, todo, adding, ids,
                   added, fired, canceled, late>>

(* poll returns and libev's timers_reify collects the expired timers; a    *)
(* one-shot timer is stopped before its callback is called.                *)
Reify(S) ==
    /\ pc = "poll"
    /\ \A a \in S : heap[a].active
    /\ pending' = S
    /\ heap' = [a \in Addr |-> IF a \in S /\ ~heap[a].repeat
                               THEN [heap[a] EXCEPT !.active = FALSE] ELSE heap[a]]
    /\ pc' = "events"
    /\ UNCHANGED <<numCreated, validTimers, queue, todo, adding, ids, added, fired,
                   canceled, late>>

(* Timer::run() *)
Run(a) ==
    /\ pc = "events"
    /\ a \in pending
    /\ pending' = pending \ {a}
    /\ fired' = fired \cup {heap[a].seq}
    /\ late' = IF heap[a].seq \in canceled THEN late \cup {heap[a].seq} ELSE late
    /\ UNCHANGED <<pc, heap, numCreated, validTimers, queue, todo, adding, ids,
                   added, canceled>>

NextIteration ==
    /\ pc = "events" /\ pending = {}
    /\ pc' = "prepare"
    /\ UNCHANGED <<heap, numCreated, validTimers, pending, queue, todo, adding, ids,
                   added, fired, canceled, late>>

-----------------------------------------------------------------------------
ReifyAny == \E S \in SUBSET Addr : Reify(S)
ReifyTimer(a) == \E S \in SUBSET Addr : a \in S /\ Reify(S)

LoopStep ==
    \/ ClearExpiredTimer \/ AddTimerInLoop \/ RunCancelInLoop \/ EndFunctors
    \/ ReifyAny \/ NextIteration
    \/ \E a \in Addr : Run(a)

Next ==
    \/ \E t \in User, a \in Addr, r \in BOOLEAN : AddTimer(t, a, r)
    \/ \E t \in User : AddTimerReturns(t)
    \/ \E a \in Addr, r \in BOOLEAN : AddTimerInLoopThread(a, r)
    \/ \E t \in Threads, id \in ids : Cancel(t, id)
    \/ LoopStep

Spec == Init /\ [][Next]_vars

(* The loop keeps iterating, and time passes: a timer that stays active is *)
(* due in some iteration.                                                  *)
FairSpec == /\ Spec
            /\ WF_vars(LoopStep)
            /\ \A a \in Addr : SF_vars(ReifyTimer(a))

-----------------------------------------------------------------------------
(* Properties. *)

Live(id) == heap[id[1]] # Free /\ heap[id[1]].seq = id[2]
Queued(a) == \E i \in 1..Len(queue) : queue[i] = AddTask(a)

(* The loop never touches a timer it has deleted, and never loses one:     *)
(* every entry of validTimers_, every expired watcher and every queued     *)
(* addTimerInLoop() refers to a live timer, and every timer on the heap is *)
(* in exactly one of validTimers_ and the queue, whoever added or canceled *)
(* it and however addresses are reused.                                    *)
HeapSafe ==
    /\ \A id \in validTimers : Live(id)
    /\ \A a \in pending : \E id \in validTimers : id[1] = a
    /\ \A a \in Addr : Queued(a) => heap[a] # Free
    /\ \A a \in Addr : heap[a] # Free =>
          (Queued(a) # \E id \in validTimers : id[1] = a)

(* cancel() stops the timer it names and no other.  A timer that was       *)
(* started before cancelInLoop() ran for it never fires again, not even    *)
(* when it had already expired in the same iteration; and a one-shot timer *)
(* that is stopped without having fired was canceled by its own id,        *)
(* although its address may be that of an earlier, canceled timer.         *)
CancelIsExact ==
    /\ late = {}
    /\ \A id \in validTimers :
          ~heap[id[1]].active /\ id[1] \notin pending =>
              id[2] \in fired \cup canceled

(* A started timer fires unless it is canceled. *)
TimersFire == \A s \in Sequence : (s \in added) ~> (s \in fired \cup canceled)

(* addTimer() is documented as thread safe: when it reads timer->sequence() *)
(* the timer it created is still there.                                     *)
AddTimerReadsItsTimer == \A t \in User : adding[t] # NoTimer => Live(adding[t])
=============================================================================

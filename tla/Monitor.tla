------------------------------ MODULE Monitor ------------------------------
(***************************************************************************)
(* The monitors of base/: BlockingQueue.h, BoundedBlockingQueue.h and      *)
(* CountDownLatch.cc, over Mutex.h (with its record of the holder) and     *)
(* Condition.h.  A behaviour is about one of the three.                    *)
(*                                                                         *)
(* A putter calls put(), or countDown(); a taker calls take(), or wait().  *)
(* So a putter waits on notFull_ only, and a taker on notEmpty_ (of a      *)
(* queue) or condition_ (of a latch) only.                                 *)
(***************************************************************************)
EXTENDS Integers, Sequences, FiniteSets

CONSTANTS
    Putter, Taker,   \* threads
    None,            \* no thread
    Capacity,        \* maxSize of the bounded queue
    MaxCalls,        \* bound: calls of the putters, and of the takers
    MaxSpurious      \* bound: spurious wakeups

ASSUME MonitorAssumption ==
    /\ Putter \cap Taker = {} /\ None \notin Putter \cup Taker
    /\ IsFiniteSet(Putter) /\ IsFiniteSet(Taker)
    /\ Capacity \in Nat \ {0} /\ MaxCalls \in Nat /\ MaxSpurious \in Nat

Thread == Putter \cup Taker
Kind == {"BlockingQueue", "BoundedBlockingQueue", "CountDownLatch"}

VARIABLES
    kind,            \* which monitor
    pc,              \* per thread: where it is
    owner,           \* the thread that has the pthread mutex
    holder,          \* MutexLock::holder_
    queue,           \* queue_
    count,           \* count_
    puts,            \* history: items put, numbered from 1
    taken,           \* history: items taken, in order
    calls,           \* calls begun by the putters and by the takers
    spurious         \* spurious wakeups so far

lockVars == <<owner, holder>>
dataVars == <<queue, count, puts, taken>>
boundVars == <<calls, spurious>>
vars == <<kind, pc, lockVars, dataVars, boundVars>>

Role(t) == IF t \in Putter THEN "put" ELSE "take"

TypeOK ==
    /\ kind \in Kind
    /\ pc \in [Thread -> {"idle", "locked", "body", "waiting", "signaled", "leave", "unlock"}]
    /\ owner \in Thread \cup {None} /\ holder \in Thread \cup {None}
    /\ queue \in Seq(1..MaxCalls) /\ taken \in Seq(1..MaxCalls)
    /\ kind = "BoundedBlockingQueue" => Len(queue) <= Capacity
    /\ kind # "BoundedBlockingQueue" => \A t \in Putter : pc[t] \notin {"waiting", "signaled"}
    /\ count \in -MaxCalls..MaxCalls /\ puts \in 0..MaxCalls
    /\ calls \in [{"put", "take"} -> 0..MaxCalls]
    /\ spurious \in 0..MaxSpurious

Init ==
    /\ kind \in Kind
    /\ pc = [t \in Thread |-> "idle"]
    /\ owner = None /\ holder = None
    /\ queue = <<>> /\ puts = 0 /\ taken = <<>>
    /\ IF kind = "CountDownLatch" THEN count \in 0..MaxCalls ELSE count = 0
    /\ calls = [r \in {"put", "take"} |-> 0]
    /\ spurious = 0

-----------------------------------------------------------------------------
(* MutexLock and Condition *)

(* A thread begins a call: MutexLockGuard takes the mutex. *)
Call(t) ==
    /\ pc[t] = "idle" /\ owner = None
    /\ calls[Role(t)] < MaxCalls
    /\ calls' = [calls EXCEPT ![Role(t)] = @ + 1]
    /\ owner' = t
    /\ pc' = [pc EXCEPT ![t] = "locked"]
    /\ UNCHANGED <<kind, holder, dataVars, spurious>>

(* pthread_cond_wait() returns to a thread that was woken, with the mutex. *)
Return(t) ==
    /\ pc[t] = "signaled" /\ owner = None
    /\ owner' = t
    /\ pc' = [pc EXCEPT ![t] = "locked"]
    /\ UNCHANGED <<kind, holder, dataVars, boundVars>>

(* assignHolder(), at the end of lock() and of ~UnassignGuard() *)
AssignHolder(t) ==
    /\ pc[t] = "locked"
    /\ holder' = t
    /\ pc' = [pc EXCEPT ![t] = "body"]
    /\ UNCHANGED <<kind, owner, dataVars, boundVars>>

(* Mutant: the mutex is released before its holder is forgotten. *)
UnlockLate(t) ==
    /\ \/ /\ pc[t] = "leave" /\ owner' = None
          /\ pc' = [pc EXCEPT ![t] = "unlock"] /\ UNCHANGED holder
       \/ /\ pc[t] = "unlock" /\ holder' = None
          /\ pc' = [pc EXCEPT ![t] = "idle"] /\ UNCHANGED owner
    /\ UNCHANGED <<kind, dataVars, boundVars>>

(* unlock(): unassignHolder(), then pthread_mutex_unlock() *)
Unlock(t) ==
    /\ \/ /\ pc[t] = "leave" /\ holder' = None
          /\ pc' = [pc EXCEPT ![t] = "unlock"] /\ UNCHANGED owner
       \/ /\ pc[t] = "unlock" /\ owner' = None
          /\ pc' = [pc EXCEPT ![t] = "idle"] /\ UNCHANGED holder
    /\ UNCHANGED <<kind, dataVars, boundVars>>

(* Condition::wait() up to the wait: the mutex is released with it. *)
Wait(t) ==
    /\ holder' = None /\ owner' = None
    /\ pc' = [pc EXCEPT ![t] = "waiting"]
    /\ UNCHANGED <<kind, dataVars, boundVars>>

Waiting(S) == {t \in S : pc[t] = "waiting"}

(* t leaves its critical section, having woken the threads of W. *)
Leave(t, W) ==
    pc' = [u \in Thread |-> IF u = t THEN "leave"
                            ELSE IF u \in W THEN "signaled" ELSE pc[u]]

(* notify(): some waiting thread is woken, if there is one. *)
Notify(t, S) ==
    \/ Waiting(S) = {} /\ Leave(t, {})
    \/ \E w \in Waiting(S) : Leave(t, {w})

NotifyAll(t, S) == Leave(t, Waiting(S))

SpuriousWakeUp(t) ==
    /\ pc[t] = "waiting" /\ spurious < MaxSpurious
    /\ spurious' = spurious + 1
    /\ pc' = [pc EXCEPT ![t] = "signaled"]
    /\ UNCHANGED <<kind, lockVars, dataVars, calls>>

-----------------------------------------------------------------------------
(* The queues.  circular_buffer::push_back() on a full buffer drops the    *)
(* front.                                                                  *)
Full == kind = "BoundedBlockingQueue" /\ Len(queue) = Capacity

PushBack == queue' = Append(IF Full THEN Tail(queue) ELSE queue, puts + 1)

(* Mutant: put() does not wait. *)
PutAtOnce(t) ==
    /\ pc[t] = "body"
    /\ PushBack /\ puts' = puts + 1 /\ Notify(t, Taker)
    /\ UNCHANGED <<kind, lockVars, count, taken, boundVars>>

(* Mutant: put() notifies only if the queue was empty. *)
PutNotifiesFirst(t) ==
    /\ pc[t] = "body"
    /\ \/ Full /\ Wait(t)
       \/ /\ ~Full
          /\ PushBack /\ puts' = puts + 1
          /\ IF queue = <<>> THEN Notify(t, Taker) ELSE Leave(t, {})
          /\ UNCHANGED <<kind, lockVars, count, taken, boundVars>>

Put(t) ==
    /\ pc[t] = "body"
    /\ \/ Full /\ Wait(t)
       \/ /\ ~Full
          /\ PushBack /\ puts' = puts + 1 /\ Notify(t, Taker)
          /\ UNCHANGED <<kind, lockVars, count, taken, boundVars>>

(* take(); of the unbounded queue nobody waits for notFull_. *)
Take(t) ==
    /\ pc[t] = "body"
    /\ \/ queue = <<>> /\ Wait(t)
       \/ /\ queue # <<>>
          /\ queue' = Tail(queue) /\ taken' = Append(taken, Head(queue))
          /\ Notify(t, Putter)
          /\ UNCHANGED <<kind, lockVars, count, puts, boundVars>>

-----------------------------------------------------------------------------
(* The latch. *)

(* Mutant: countDown() wakes one thread. *)
CountDownOne(t) ==
    /\ pc[t] = "body"
    /\ count' = count - 1
    /\ IF count' = 0 THEN Notify(t, Taker) ELSE Leave(t, {})
    /\ UNCHANGED <<kind, lockVars, queue, puts, taken, boundVars>>

CountDown(t) ==
    /\ pc[t] = "body"
    /\ count' = count - 1
    /\ IF count' = 0 THEN NotifyAll(t, Taker) ELSE Leave(t, {})
    /\ UNCHANGED <<kind, lockVars, queue, puts, taken, boundVars>>

(* CountDownLatch::wait() *)
LatchWait(t) ==
    /\ pc[t] = "body"
    /\ \/ count > 0 /\ Wait(t)
       \/ /\ count <= 0
          /\ Leave(t, {}) /\ UNCHANGED <<kind, lockVars, dataVars, boundVars>>

-----------------------------------------------------------------------------
(* What a thread does in its critical section.  put() and take() of a      *)
(* BlockingQueue are the bounded queue's, with a buffer that is never full.*)
Body(t) ==
    \/ kind # "CountDownLatch" /\ t \in Putter /\ Put(t)
    \/ kind # "CountDownLatch" /\ t \in Taker /\ Take(t)
    \/ kind = "CountDownLatch" /\ t \in Putter /\ CountDown(t)
    \/ kind = "CountDownLatch" /\ t \in Taker /\ LatchWait(t)

Step(t) == Call(t) \/ Return(t) \/ AssignHolder(t) \/ Body(t) \/ Unlock(t)

Next == \E t \in Thread : Step(t) \/ SpuriousWakeUp(t)

(* Some thread runs when one can, and makes the calls it is there for. *)
Spec == Init /\ [][Next]_vars /\ WF_vars(\E t \in Thread : Step(t))

-----------------------------------------------------------------------------
(* Properties. *)

(* holder_ is right where assertLocked() may be called: in its critical    *)
(* section, also after a wait, a thread finds itself the holder, and no    *)
(* other thread ever does.                                                 *)
HolderIsOwner ==
    /\ \A t \in Thread : pc[t] = "body" => owner = t /\ holder = t
    /\ holder # None => holder = owner

(* A queue delivers every item once, in the order of the put()s.  A put()  *)
(* that met a full circular_buffer would drop the oldest item instead.     *)
Delivered == taken \o queue = [i \in 1..puts |-> i]

Running(S) == {t \in S : pc[t] \in {"signaled", "locked", "body"}}

(* notify(), for one thread at a time, forgets nobody: if a taker waits,   *)
(* there are as many takers on their way as items in the queue, and if a   *)
(* putter waits, as many putters on their way as free places.              *)
NoWaiterForgotten ==
    /\ kind # "CountDownLatch" /\ Waiting(Taker) # {} =>
          Len(queue) <= Cardinality(Running(Taker))
    /\ Waiting(Putter) # {} => Capacity - Len(queue) <= Cardinality(Running(Putter))

(* Every call returns, when there are as many put()s as take()s, or enough *)
(* countDown()s for the latch: no interleaving of waits and notifications  *)
(* leaves a thread behind.                                                 *)
EveryCallReturns == \A t \in Thread : pc[t] # "idle" ~> pc[t] = "idle"
=============================================================================

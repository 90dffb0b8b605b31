--------------------------- MODULE MonitorProofs ---------------------------
(***************************************************************************)
(* For any number of threads, any capacity and any number of calls: the    *)
(* record of the mutex's holder is right, a queue delivers everything once *)
(* and in order, and notifying one thread at a time forgets no waiter.     *)
(***************************************************************************)
EXTENDS Monitor, TLAPS, FiniteSetTheorems

PC == {"idle", "locked", "body", "waiting", "signaled", "leave", "unlock"}
Holding == {"locked", "body", "leave", "unlock"}

(* Exactly the thread inside lock() .. unlock() has the mutex, and holder_ *)
(* names it from assignHolder() to unassignHolder().                       *)
LockInv ==
    /\ pc \in [Thread -> PC]
    /\ owner \in Thread \cup {None} /\ holder \in Thread \cup {None}
    /\ \A t \in Thread : pc[t] \in Holding <=> owner = t
    /\ \A t \in Thread : pc[t] \in {"body", "leave"} <=> holder = t

(* Every step is an action of some thread. *)
LEMMA NextCases ==
  ASSUME NEW P, Next,
         \A t \in Thread : Call(t) => P,
         \A t \in Thread : Return(t) => P,
         \A t \in Thread : AssignHolder(t) => P,
         \A t \in Thread : Unlock(t) => P,
         \A t \in Thread : SpuriousWakeUp(t) => P,
         \A t \in Thread : Put(t) => P,
         \A t \in Thread : Take(t) => P,
         \A t \in Thread : CountDown(t) => P,
         \A t \in Thread : LatchWait(t) => P
  PROVE  P
BY DEF Next, Step, Body

(* Going to wait gives up the mutex and its record together. *)
LEMMA WaitStep ==
  ASSUME LockInv, NEW t \in Thread, pc[t] = "body", Wait(t)
  PROVE  LockInv'
BY MonitorAssumption DEF LockInv, Wait, Thread, PC, Holding

(* Leaving the body changes neither, whoever is woken by it. *)
LEMMA LeaveStep ==
  ASSUME LockInv, NEW t \in Thread, pc[t] = "body", NEW W,
         \A w \in W : pc[w] = "waiting", Leave(t, W), UNCHANGED lockVars
  PROVE  LockInv'
<1>1. pc' \in [Thread -> PC]
  BY DEF LockInv, Leave, PC
<1>2. \A u \in Thread : pc'[u] = IF u = t THEN "leave" ELSE IF u \in W THEN "signaled" ELSE pc[u]
  BY DEF Leave
<1>3. \A u \in Thread : pc'[u] \in Holding <=> owner = u
  BY <1>2 DEF LockInv, Holding
<1>4. \A u \in Thread : pc'[u] \in {"body", "leave"} <=> holder = u
  BY <1>2 DEF LockInv
<1> QED BY <1>1, <1>3, <1>4 DEF LockInv, lockVars

(* The same for every way to leave: notify(), notifyAll(), or neither. *)
LEMMA NotifyStep ==
  ASSUME LockInv, NEW t \in Thread, pc[t] = "body", NEW S,
         Notify(t, S) \/ NotifyAll(t, S) \/ Leave(t, {}), UNCHANGED lockVars
  PROVE  LockInv'
<1>1. PICK W \in SUBSET Waiting(S) : Leave(t, W)
  BY DEF Notify, NotifyAll
<1>2. \A w \in W : pc[w] = "waiting"
  BY DEF Waiting
<1> QED BY <1>1, <1>2, LeaveStep

(* LockInv is inductive. *)
LEMMA LockStep == LockInv /\ [Next]_vars => LockInv'
<1> SUFFICES ASSUME LockInv, [Next]_vars PROVE LockInv'
  OBVIOUS
<1>1. ASSUME NEW t \in Thread, Call(t) PROVE LockInv'
  BY <1>1, MonitorAssumption DEF LockInv, Call, PC, Holding, Thread
<1>2. ASSUME NEW t \in Thread, Return(t) PROVE LockInv'
  BY <1>2, MonitorAssumption DEF LockInv, Return, PC, Holding, Thread
<1>3. ASSUME NEW t \in Thread, AssignHolder(t) PROVE LockInv'
  BY <1>3 DEF LockInv, AssignHolder, PC, Holding
<1>4. ASSUME NEW t \in Thread, Unlock(t) PROVE LockInv'
  BY <1>4, MonitorAssumption DEF LockInv, Unlock, PC, Holding, Thread
<1>5. ASSUME NEW t \in Thread, SpuriousWakeUp(t) PROVE LockInv'
  BY <1>5 DEF LockInv, SpuriousWakeUp, lockVars, PC, Holding
<1>6. ASSUME NEW t \in Thread, Put(t) PROVE LockInv'
  BY <1>6, WaitStep, NotifyStep DEF Put
<1>7. ASSUME NEW t \in Thread, Take(t) PROVE LockInv'
  BY <1>7, WaitStep, NotifyStep DEF Take
<1>8. ASSUME NEW t \in Thread, CountDown(t) PROVE LockInv'
  BY <1>8, NotifyStep DEF CountDown
<1>9. ASSUME NEW t \in Thread, LatchWait(t) PROVE LockInv'
  BY <1>9, WaitStep, NotifyStep DEF LatchWait
<1>10. CASE UNCHANGED vars
  BY <1>10 DEF LockInv, vars, lockVars
<1> QED BY <1>1, <1>2, <1>3, <1>4, <1>5, <1>6, <1>7, <1>8, <1>9, <1>10, NextCases

(* holder_ is right in every critical section, after a wait too, for any   *)
(* number of threads.                                                      *)
THEOREM HolderIsRight == Spec => []HolderIsOwner
<1>1. Init => LockInv
  BY MonitorAssumption DEF Init, LockInv, PC, Holding, Thread
<1>2. LockInv => HolderIsOwner
  BY MonitorAssumption DEF LockInv, HolderIsOwner, Holding, Thread
<1> QED BY <1>1, <1>2, LockStep, PTL DEF Spec

-----------------------------------------------------------------------------
(* Delivered, with the types that its induction needs. *)
DataInv ==
    /\ queue \in Seq(Nat) /\ taken \in Seq(Nat) /\ puts \in Nat
    /\ Delivered

(* 1..n, and one more. *)
LEMMA UpTo ==
  ASSUME NEW n \in Nat
  PROVE  Append([i \in 1..n |-> i], n + 1) = [i \in 1..(n + 1) |-> i]
OBVIOUS

(* Putting at the end of the second of two sequences, and moving the head *)
(* of the second to the end of the first.                                  *)
LEMMA ConcatAppend ==
  ASSUME NEW s \in Seq(Nat), NEW q \in Seq(Nat), NEW x \in Nat
  PROVE  s \o Append(q, x) = Append(s \o q, x)
OBVIOUS

LEMMA ConcatHeadTail ==
  ASSUME NEW s \in Seq(Nat), NEW q \in Seq(Nat), q # <<>>
  PROVE  Append(s, Head(q)) \o Tail(q) = s \o q
OBVIOUS

(* A put() that found room. *)
LEMMA PushBackStep ==
  ASSUME DataInv, ~Full, PushBack, puts' = puts + 1, taken' = taken
  PROVE  DataInv'
<1>1. queue' = Append(queue, puts + 1)
  BY DEF PushBack
<1>2. puts' \in Nat /\ queue' \in Seq(Nat) /\ taken' \in Seq(Nat)
  BY <1>1 DEF DataInv
<1>3. taken \o Append(queue, puts + 1) = Append(taken \o queue, puts + 1)
  BY ConcatAppend DEF DataInv
<1>4. Append(taken \o queue, puts + 1) = [i \in 1..(puts + 1) |-> i]
  BY UpTo DEF DataInv, Delivered
<1> QED BY <1>1, <1>2, <1>3, <1>4 DEF DataInv, Delivered

(* A take() that found an item. *)
LEMMA PopFrontStep ==
  ASSUME DataInv, queue # <<>>, queue' = Tail(queue),
         taken' = Append(taken, Head(queue)), puts' = puts
  PROVE  DataInv'
<1>1. queue' \in Seq(Nat) /\ taken' \in Seq(Nat) /\ puts' \in Nat
  BY DEF DataInv
<1>2. taken' \o queue' = taken \o queue
  BY ConcatHeadTail DEF DataInv
<1> QED BY <1>1, <1>2 DEF DataInv, Delivered

(* DataInv is inductive. *)
LEMMA DataStep == DataInv /\ [Next]_vars => DataInv'
<1> SUFFICES ASSUME DataInv, [Next]_vars PROVE DataInv'
  OBVIOUS
<1>0. ASSUME UNCHANGED <<queue, puts, taken>> PROVE DataInv'
  BY <1>0 DEF DataInv, Delivered
<1>1. ASSUME NEW t \in Thread, Call(t) \/ Return(t) \/ AssignHolder(t) \/ Unlock(t)
                               \/ SpuriousWakeUp(t)
      PROVE  DataInv'
  BY <1>1, <1>0 DEF Call, Return, AssignHolder, Unlock, SpuriousWakeUp, dataVars
<1>2. ASSUME NEW t \in Thread, Put(t) PROVE DataInv'
  BY <1>2, <1>0, PushBackStep DEF Put, Wait, dataVars
<1>3. ASSUME NEW t \in Thread, Take(t) PROVE DataInv'
  BY <1>3, <1>0, PopFrontStep DEF Take, Wait, dataVars
<1>4. ASSUME NEW t \in Thread, CountDown(t) PROVE DataInv'
  BY <1>4, <1>0 DEF CountDown
<1>5. ASSUME NEW t \in Thread, LatchWait(t) PROVE DataInv'
  BY <1>5, <1>0 DEF LatchWait, Wait, dataVars
<1>6. CASE UNCHANGED vars
  BY <1>6, <1>0 DEF vars, dataVars
<1> QED BY <1>1, <1>2, <1>3, <1>4, <1>5, <1>6, NextCases

(* A queue of any capacity, with any number of putters and takers, loses,  *)
(* repeats and reorders nothing.                                           *)
THEOREM QueueDelivers == Spec => []Delivered
<1>1. Init => DataInv
  BY DEF Init, DataInv, Delivered
<1>2. DataInv => Delivered
  BY DEF DataInv
<1> QED BY <1>1, <1>2, DataStep, PTL DEF Spec

-----------------------------------------------------------------------------
(* Notification.  NoWaiterForgotten counts threads, so a step is judged by *)
(* what it does to the sets Waiting and Running of the two roles.          *)

(* Nobody waits for room in a queue that has no limit.                     *)
NoPutterWaits ==
    kind # "BoundedBlockingQueue" => \A t \in Putter : pc[t] # "waiting"

WaitInv ==
    /\ LockInv /\ DataInv /\ kind \in Kind
    /\ NoPutterWaits /\ NoWaiterForgotten

LEMMA RunningFinite ==
    ASSUME NEW S \in {Putter, Taker}
    PROVE  IsFiniteSet(Running(S)) /\ Cardinality(Running(S)) \in Nat
<1>1. IsFiniteSet(S) BY MonitorAssumption
<1>2. Running(S) \in SUBSET S BY DEF Running
<1>3. IsFiniteSet(Running(S)) BY <1>1, <1>2, FS_Subset
<1> QED BY <1>3, FS_CardinalityType

LEMMA RunningFiniteNext ==
    ASSUME NEW S \in {Putter, Taker}
    PROVE  IsFiniteSet(Running(S)') /\ Cardinality(Running(S)') \in Nat
<1>1. IsFiniteSet(S) BY MonitorAssumption
<1>2. Running(S)' \in SUBSET S BY DEF Running
<1>3. IsFiniteSet(Running(S)') BY <1>1, <1>2, FS_Subset
<1> QED BY <1>3, FS_CardinalityType

(* A step in which nobody starts to wait, and no running thread leaves.    *)
LEMMA NobodyLeaves ==
    ASSUME NEW S \in {Putter, Taker},
           \A t \in Thread : pc'[t] = "waiting" => pc[t] = "waiting",
           \A t \in Thread : pc[t] \in {"signaled", "locked", "body"}
                             => pc'[t] \in {"signaled", "locked", "body"}
    PROVE  /\ Waiting(S)' \subseteq Waiting(S)
           /\ Cardinality(Running(S)) <= Cardinality(Running(S)')
<1>1. S \subseteq Thread BY DEF Thread
<1>2. Waiting(S)' \subseteq Waiting(S) BY <1>1 DEF Waiting
<1>3. Running(S) \in SUBSET Running(S)' BY <1>1 DEF Running
<1>4. IsFiniteSet(Running(S)') BY RunningFiniteNext
<1>5. Cardinality(Running(S)) <= Cardinality(Running(S)') BY <1>3, <1>4, FS_Subset
<1> QED BY <1>2, <1>5

(* Steps that change neither the queue nor, to the worse, the threads.     *)
LEMMA QuietStep ==
    ASSUME WaitInv, LockInv', DataInv', UNCHANGED <<kind, queue>>,
           \A t \in Thread : pc'[t] = "waiting" => pc[t] = "waiting",
           \A t \in Thread : pc[t] \in {"signaled", "locked", "body"}
                             => pc'[t] \in {"signaled", "locked", "body"}
    PROVE  WaitInv'
<1>1. /\ Waiting(Taker)' \subseteq Waiting(Taker)
      /\ Cardinality(Running(Taker)) <= Cardinality(Running(Taker)')
  BY NobodyLeaves
<1>2. /\ Waiting(Putter)' \subseteq Waiting(Putter)
      /\ Cardinality(Running(Putter)) <= Cardinality(Running(Putter)')
  BY NobodyLeaves
<1>3. /\ Cardinality(Running(Taker)) \in Nat /\ Cardinality(Running(Taker)') \in Nat
      /\ Cardinality(Running(Putter)) \in Nat /\ Cardinality(Running(Putter)') \in Nat
  BY RunningFinite, RunningFiniteNext
<1>4. Len(queue) \in Nat /\ Capacity \in Nat BY MonitorAssumption DEF WaitInv, DataInv
<1>5. /\ kind # "CountDownLatch" /\ Waiting(Taker) # {} =>
            Len(queue) <= Cardinality(Running(Taker))
      /\ Waiting(Putter) # {} => Capacity - Len(queue) <= Cardinality(Running(Putter))
  BY DEF WaitInv, NoWaiterForgotten
<1>6. kind # "CountDownLatch" /\ Waiting(Taker)' # {} =>
         Len(queue) <= Cardinality(Running(Taker)')
  BY <1>1, <1>3, <1>4, <1>5
<1>7. Waiting(Putter)' # {} => Capacity - Len(queue) <= Cardinality(Running(Putter)')
  BY <1>2, <1>3, <1>4, <1>5
<1>8. NoWaiterForgotten' BY <1>6, <1>7 DEF NoWaiterForgotten
<1>9. NoPutterWaits' BY DEF WaitInv, NoPutterWaits, Thread
<1> QED BY <1>8, <1>9 DEF WaitInv

(* t goes to wait, which it does when there is nothing in the queue, or no *)
(* room.                                                                   *)
LEMMA GoesToWait ==
    ASSUME WaitInv, LockInv', DataInv', NEW t \in Thread, pc[t] = "body", Wait(t),
           \/ t \in Taker /\ (queue = <<>> \/ kind = "CountDownLatch")
           \/ t \in Putter /\ Full
    PROVE  WaitInv'
<1>1. /\ UNCHANGED <<kind, queue>>
      /\ \A u \in Thread : pc'[u] = IF u = t THEN "waiting" ELSE pc[u]
  BY DEF Wait, dataVars, WaitInv, LockInv
<1>2. /\ Cardinality(Running(Taker)') \in Nat /\ Cardinality(Running(Putter)') \in Nat
  BY RunningFiniteNext
<1>3. Putter \subseteq Thread /\ Taker \subseteq Thread /\ Putter \cap Taker = {}
  BY MonitorAssumption DEF Thread
<1>4. /\ kind # "CountDownLatch" /\ Waiting(Taker) # {} =>
            Len(queue) <= Cardinality(Running(Taker))
      /\ Waiting(Putter) # {} => Capacity - Len(queue) <= Cardinality(Running(Putter))
  BY DEF WaitInv, NoWaiterForgotten
<1>5. CASE t \in Taker
  <2>1. queue = <<>> \/ kind = "CountDownLatch" BY <1>3, <1>5
  <2>2. Waiting(Putter)' = Waiting(Putter) /\ Running(Putter)' = Running(Putter)
    BY <1>1, <1>3, <1>5 DEF Waiting, Running
  <2>3. queue = <<>> => Len(queue) = 0 OBVIOUS
  <2>4. NoWaiterForgotten' BY <1>1, <1>2, <1>4, <2>1, <2>2, <2>3 DEF NoWaiterForgotten
  <2>5. NoPutterWaits' BY <1>1, <1>3, <1>5 DEF WaitInv, NoPutterWaits
  <2> QED BY <1>1, <2>4, <2>5 DEF WaitInv
<1>6. CASE t \in Putter
  <2>1. Full BY <1>3, <1>6
  <2>2. Waiting(Taker)' = Waiting(Taker) /\ Running(Taker)' = Running(Taker)
    BY <1>1, <1>3, <1>6 DEF Waiting, Running
  <2>3. Capacity - Len(queue) = 0 BY <2>1, MonitorAssumption DEF Full
  <2>4. NoWaiterForgotten' BY <1>1, <1>2, <1>4, <2>2, <2>3 DEF NoWaiterForgotten
  <2>5. NoPutterWaits' BY <1>1, <2>1 DEF NoPutterWaits, Full
  <2> QED BY <1>1, <2>4, <2>5 DEF WaitInv
<1> QED BY <1>5, <1>6 DEF Thread

(* t of role S leaves its critical section and notifies the other role O:  *)
(* one fewer of S runs, and one more of O unless none waits.               *)
LEMMA NotifyCounts ==
    ASSUME LockInv, NEW S \in {Putter, Taker}, NEW O \in {Putter, Taker}, S # O,
           NEW t \in S, pc[t] = "body", Notify(t, O)
    PROVE  /\ Waiting(S)' = Waiting(S)
           /\ Cardinality(Running(S)') = Cardinality(Running(S)) - 1
           /\ Waiting(O)' \subseteq Waiting(O)
           /\ Waiting(O)' # {} => Cardinality(Running(O)') = Cardinality(Running(O)) + 1
<1>1. S \subseteq Thread /\ O \subseteq Thread /\ S \cap O = {}
  BY MonitorAssumption DEF Thread
<1>2. PICK W \in SUBSET Waiting(O) :
         /\ Leave(t, W)
         /\ Waiting(O) # {} => \E w \in Waiting(O) : W = {w}
  BY DEF Notify
<1>3. \A u \in Thread : pc'[u] = IF u = t THEN "leave" ELSE IF u \in W THEN "signaled" ELSE pc[u]
  BY <1>2 DEF Leave
<1>4. W \subseteq O /\ t \notin W /\ t \notin O /\ \A w \in W : pc[w] = "waiting"
  BY <1>1, <1>2 DEF Waiting
<1>5. Waiting(S)' = Waiting(S) BY <1>1, <1>3, <1>4 DEF Waiting
<1>6. Running(S)' = Running(S) \ {t} BY <1>1, <1>3, <1>4 DEF Running
<1>7. t \in Running(S) BY DEF Running
<1>8. IsFiniteSet(Running(S)) /\ IsFiniteSet(Running(O)) BY RunningFinite
<1>9. Cardinality(Running(S)') = Cardinality(Running(S)) - 1
  BY <1>6, <1>7, <1>8, FS_RemoveElement
<1>10. Waiting(O)' \subseteq Waiting(O) BY <1>1, <1>3, <1>4 DEF Waiting
<1>11. ASSUME Waiting(O)' # {}
       PROVE  Cardinality(Running(O)') = Cardinality(Running(O)) + 1
  <2>1. PICK w \in Waiting(O) : W = {w} BY <1>2, <1>10, <1>11
  <2>2. Running(O)' = Running(O) \cup {w} BY <1>1, <1>3, <1>4, <2>1 DEF Running, Waiting
  <2>3. w \notin Running(O) BY DEF Running, Waiting
  <2> QED BY <1>8, <2>2, <2>3, FS_AddElement
<1> QED BY <1>5, <1>9, <1>10, <1>11

LEMMA PutWakes ==
    ASSUME WaitInv, LockInv', DataInv', NEW t \in Putter, pc[t] = "body", kind # "CountDownLatch",
           ~Full, PushBack, Notify(t, Taker), UNCHANGED kind
    PROVE  WaitInv'
<1>1. LockInv /\ DataInv BY DEF WaitInv
<1>2. /\ Waiting(Putter)' = Waiting(Putter)
      /\ Cardinality(Running(Putter)') = Cardinality(Running(Putter)) - 1
      /\ Waiting(Taker)' \subseteq Waiting(Taker)
      /\ Waiting(Taker)' # {} => Cardinality(Running(Taker)') = Cardinality(Running(Taker)) + 1
  <2>1. Putter # Taker BY MonitorAssumption
  <2> QED BY <1>1, <2>1, NotifyCounts
<1>3. Len(queue) \in Nat /\ Len(queue') = Len(queue) + 1 /\ Capacity \in Nat
  BY <1>1, MonitorAssumption DEF PushBack, DataInv
<1>4. Cardinality(Running(Taker)) \in Nat /\ Cardinality(Running(Putter)) \in Nat
  BY RunningFinite
<1>5. /\ Waiting(Taker) # {} => Len(queue) <= Cardinality(Running(Taker))
      /\ Waiting(Putter) # {} => Capacity - Len(queue) <= Cardinality(Running(Putter))
  BY DEF WaitInv, NoWaiterForgotten
<1>6. Waiting(Taker)' # {} => Len(queue') <= Cardinality(Running(Taker)')
  BY <1>2, <1>3, <1>4, <1>5
<1>7. Waiting(Putter)' # {} => Capacity - Len(queue') <= Cardinality(Running(Putter)')
  BY <1>2, <1>3, <1>4, <1>5
<1>8. NoWaiterForgotten' BY <1>6, <1>7 DEF NoWaiterForgotten
<1>9. NoPutterWaits'
  <2>1. kind # "BoundedBlockingQueue" => Waiting(Putter) = {} BY DEF WaitInv, NoPutterWaits, Waiting
  <2> QED BY <1>2, <2>1 DEF NoPutterWaits, Waiting
<1> QED BY <1>8, <1>9 DEF WaitInv

LEMMA TakeWakes ==
    ASSUME WaitInv, LockInv', DataInv', NEW t \in Taker, pc[t] = "body", kind # "CountDownLatch",
           queue # <<>>, queue' = Tail(queue), Notify(t, Putter), UNCHANGED kind
    PROVE  WaitInv'
<1>1. LockInv /\ DataInv BY DEF WaitInv
<1>2. /\ Waiting(Taker)' = Waiting(Taker)
      /\ Cardinality(Running(Taker)') = Cardinality(Running(Taker)) - 1
      /\ Waiting(Putter)' \subseteq Waiting(Putter)
      /\ Waiting(Putter)' # {} => Cardinality(Running(Putter)') = Cardinality(Running(Putter)) + 1
  <2>1. Putter # Taker BY MonitorAssumption
  <2> QED BY <1>1, <2>1, NotifyCounts
<1>3. Len(queue) \in Nat /\ Len(queue') = Len(queue) - 1 /\ Capacity \in Nat
  BY <1>1, MonitorAssumption DEF DataInv
<1>4. Cardinality(Running(Taker)) \in Nat /\ Cardinality(Running(Putter)) \in Nat
  BY RunningFinite
<1>5. /\ Waiting(Taker) # {} => Len(queue) <= Cardinality(Running(Taker))
      /\ Waiting(Putter) # {} => Capacity - Len(queue) <= Cardinality(Running(Putter))
  BY DEF WaitInv, NoWaiterForgotten
<1>6. Waiting(Taker)' # {} => Len(queue') <= Cardinality(Running(Taker)')
  BY <1>2, <1>3, <1>4, <1>5
<1>7. Waiting(Putter)' # {} => Capacity - Len(queue') <= Cardinality(Running(Putter)')
  BY <1>2, <1>3, <1>4, <1>5
<1>8. NoWaiterForgotten' BY <1>6, <1>7 DEF NoWaiterForgotten
<1>9. NoPutterWaits'
  <2>1. kind # "BoundedBlockingQueue" => Waiting(Putter) = {} BY DEF WaitInv, NoPutterWaits, Waiting
  <2> QED BY <1>2, <2>1 DEF NoPutterWaits, Waiting
<1> QED BY <1>8, <1>9 DEF WaitInv

(* The latch: putters never wait, and takers are not counted.              *)
LEMMA LatchStep ==
    ASSUME WaitInv, LockInv', DataInv', kind = "CountDownLatch", UNCHANGED kind,
           \A u \in Putter : pc'[u] = "waiting" => pc[u] = "waiting"
    PROVE  WaitInv'
<1>1. NoPutterWaits' BY DEF WaitInv, NoPutterWaits
<1>2. Waiting(Putter)' = {} BY <1>1 DEF NoPutterWaits, Waiting
<1>3. NoWaiterForgotten' BY <1>2 DEF NoWaiterForgotten
<1> QED BY <1>1, <1>3 DEF WaitInv

LEMMA WaitStepKeeps == WaitInv /\ [Next]_vars => WaitInv'
<1> SUFFICES ASSUME WaitInv, [Next]_vars PROVE WaitInv'
  OBVIOUS
<1>1. LockInv' /\ DataInv' BY LockStep, DataStep DEF WaitInv
<1>2. pc \in [Thread -> PC] BY DEF WaitInv, LockInv
<1>3. ASSUME NEW t \in Thread, Call(t) \/ Return(t) \/ AssignHolder(t) \/ Unlock(t)
                               \/ SpuriousWakeUp(t)
      PROVE  WaitInv'
  <2>1. /\ UNCHANGED <<kind, queue>>
        /\ \A u \in Thread : pc'[u] = "waiting" => pc[u] = "waiting"
        /\ \A u \in Thread : pc[u] \in {"signaled", "locked", "body"}
                             => pc'[u] \in {"signaled", "locked", "body"}
    BY <1>2, <1>3 DEF Call, Return, AssignHolder, Unlock, SpuriousWakeUp, dataVars
  <2> QED BY <1>1, <2>1, QuietStep
<1>4. ASSUME NEW t \in Putter, Put(t), kind # "CountDownLatch" PROVE WaitInv'
  <2>1. t \in Thread /\ pc[t] = "body" BY <1>4 DEF Put, Thread
  <2>2. CASE Full /\ Wait(t) BY <1>1, <2>1, <2>2, GoesToWait
  <2>3. CASE ~Full /\ PushBack /\ Notify(t, Taker) /\ kind' = kind
    BY <1>1, <1>4, <2>1, <2>3, PutWakes
  <2> QED BY <1>4, <2>2, <2>3 DEF Put
<1>5. ASSUME NEW t \in Taker, Take(t), kind # "CountDownLatch" PROVE WaitInv'
  <2>1. t \in Thread /\ pc[t] = "body" BY <1>5 DEF Take, Thread
  <2>2. CASE queue = <<>> /\ Wait(t) BY <1>1, <2>1, <2>2, GoesToWait
  <2>3. CASE queue # <<>> /\ queue' = Tail(queue) /\ Notify(t, Putter) /\ kind' = kind
    BY <1>1, <1>5, <2>1, <2>3, TakeWakes
  <2> QED BY <1>5, <2>2, <2>3 DEF Take
<1>6. ASSUME NEW t \in Putter, CountDown(t), kind = "CountDownLatch" PROVE WaitInv'
  <2>1. \E W \in SUBSET Thread : Leave(t, W)
    <3>1. Waiting(Taker) \subseteq Thread BY DEF Waiting, Thread
    <3> QED BY <1>6, <3>1 DEF CountDown, NotifyAll
  <2>2. \A u \in Thread : pc'[u] = "waiting" => pc[u] = "waiting" BY <2>1 DEF Leave
  <2>3. kind' = kind BY <1>6 DEF CountDown
  <2> QED BY <1>1, <1>6, <2>2, <2>3, LatchStep DEF Thread
<1>7. ASSUME NEW t \in Taker, LatchWait(t), kind = "CountDownLatch" PROVE WaitInv'
  <2>1. \A u \in Putter : u \in Thread /\ u # t BY MonitorAssumption DEF Thread
  <2>2. \A u \in Thread : u # t => pc'[u] = pc[u] BY <1>2, <1>7 DEF LatchWait, Wait, Leave
  <2>3. kind' = kind BY <1>7 DEF LatchWait, Wait
  <2> QED BY <1>1, <1>7, <2>1, <2>2, <2>3, LatchStep
<1>8. CASE UNCHANGED vars
  <2>1. UNCHANGED <<kind, queue, pc>> BY <1>8 DEF vars, dataVars
  <2> QED BY <1>1, <2>1, QuietStep
<1> QED BY <1>3, <1>4, <1>5, <1>6, <1>7, <1>8 DEF Next, Step, Body

(* notify(), for one thread at a time, is enough: for any number of        *)
(* threads and any capacity, while a taker waits there is a taker on its   *)
(* way for every item, and while a putter waits a putter for every place.  *)
THEOREM NobodyForgotten == Spec => []NoWaiterForgotten
<1>1. Init => WaitInv
  <2> SUFFICES ASSUME Init PROVE WaitInv OBVIOUS
  <2>1. LockInv BY MonitorAssumption DEF Init, LockInv, PC, Holding, Thread
  <2>2. DataInv BY DEF Init, DataInv, Delivered
  <2>3. \A t \in Thread : pc[t] # "waiting" BY DEF Init
  <2>4. Waiting(Taker) = {} /\ Waiting(Putter) = {} BY <2>3 DEF Waiting, Thread
  <2>5. NoWaiterForgotten BY <2>4 DEF NoWaiterForgotten
  <2>6. NoPutterWaits BY <2>3 DEF NoPutterWaits, Thread
  <2> QED BY <2>1, <2>2, <2>5, <2>6 DEF WaitInv, Init
<1>2. WaitInv => NoWaiterForgotten BY DEF WaitInv
<1> QED BY <1>1, <1>2, WaitStepKeeps, PTL DEF Spec
=============================================================================

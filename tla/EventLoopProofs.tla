-------------------------- MODULE EventLoopProofs --------------------------
(***************************************************************************)
(* Proofs about EventLoop.tla, for any threads, functors and bounds.       *)
(***************************************************************************)
EXTENDS EventLoop, TLAPS

-----------------------------------------------------------------------------
(* The steps of Next, as one disjunction the proofs split on. *)

LEMMA NextCases ==
    ASSUME Next
    PROVE  \/ \E t \in Threads, f \in Functor :
                 PushFunctor(t, f) /\ InUserCode(t) /\ UNCHANGED unannounced
           \/ \E f \in Functor : DestructorQueueInLoop(f)
           \/ \E t \in Threads : Quit(t)
           \/ \E t \in Threads : Wakeup(t)
           \/ Loop \/ DoPendingFunctors \/ RunFunctor \/ EndFunctor
           \/ FinishFunctors \/ CheckQuit \/ PollReturn \/ HandleRead
           \/ BeginEvent \/ EndEvent \/ NextIteration \/ EnvEvent
           \/ UNCHANGED vars
  BY Zenon DEF Next, LoopStep, QueueInLoop, RunInLoop

(* The loop's state is well typed in every reachable state. *)
THEOREM TypeCorrect == Spec => []TypeOK
<1>1. Init => TypeOK
  <2> SUFFICES ASSUME Init PROVE TypeOK
    OBVIOUS
  <2>1. /\ looping \in BOOLEAN /\ quit \in BOOLEAN
        /\ callingPendingFunctors \in BOOLEAN
        /\ batch \in BOOLEAN /\ ioReady \in BOOLEAN
    BY Zenon DEF Init
  <2>2. /\ pc \in PC /\ current \in Functor \cup {NoFunctor}
        /\ revents \in SUBSET {"wakeup", "event"}
    BY Zenon DEF Init, PC
  <2>3. pendingFunctors \in Seq(Functor) /\ functors \in Seq(Functor)
    BY DEF Init
  <2>4. wakeupFd \in 0..EventfdMax
    BY EventfdMaxAssumption DEF Init
  <2>5. caller \in [Threads -> {"out", "wakeup"}] /\ owed \in Nat /\ unannounced \in Nat
    BY DEF Init
  <2> QED  BY <2>1, <2>2, <2>3, <2>4, <2>5, Zenon DEF TypeOK
<1>2. TypeOK /\ [Next]_vars => TypeOK'
  <2> SUFFICES ASSUME TypeOK, [Next]_vars PROVE TypeOK'
    OBVIOUS
  <2> USE DEF TypeOK, loopVars, ioVars
  <2>1. CASE UNCHANGED vars
    BY <2>1 DEF vars
  <2>2. ASSUME NEW t \in Threads, NEW f \in Functor, PushFunctor(t, f),
               unannounced' \in Nat
        PROVE  TypeOK'
    BY <2>2 DEF PushFunctor
  <2>3. ASSUME NEW t \in Threads, Quit(t) PROVE TypeOK'
    <3>1. owed' \in Nat
      BY <2>3 DEF Quit
    <3> QED  BY <2>3, <3>1 DEF Quit
  <2>4. ASSUME NEW t \in Threads, Wakeup(t) PROVE TypeOK'
    BY <2>4, EventfdMaxAssumption DEF Wakeup
  <2>5. CASE Loop
    BY <2>5 DEF Loop, PC
  <2>6. CASE DoPendingFunctors
    <3>1. /\ callingPendingFunctors' \in BOOLEAN
          /\ batch' \in BOOLEAN
      BY <2>6, Zenon DEF DoPendingFunctors
    <3> QED  BY <2>6, <3>1 DEF DoPendingFunctors, PC
  <2>7. CASE RunFunctor
    BY <2>7 DEF RunFunctor
  <2>8. CASE EndFunctor
    BY <2>8 DEF EndFunctor
  <2>9. CASE FinishFunctors
    BY <2>9 DEF FinishFunctors, PC
  <2>10. CASE CheckQuit
    BY <2>10 DEF CheckQuit, PC
  <2>11. CASE PollReturn
    BY <2>11 DEF PollReturn, Ready, PC
  <2>12. CASE HandleRead
    BY <2>12, EventfdMaxAssumption DEF HandleRead
  <2>13. CASE BeginEvent
    BY <2>13 DEF BeginEvent, PC
  <2>14. CASE EndEvent
    BY <2>14 DEF EndEvent, PC
  <2>15. CASE NextIteration
    BY <2>15 DEF NextIteration, PC
  <2>16. CASE EnvEvent
    BY <2>16 DEF EnvEvent
  <2>17. ASSUME NEW f \in Functor, DestructorQueueInLoop(f) PROVE TypeOK'
    <3>1. PushFunctor(LoopThread, f) /\ LoopThread \in Threads
      BY <2>17 DEF DestructorQueueInLoop, Threads
    <3>2. unannounced' \in Nat
      BY <2>17 DEF DestructorQueueInLoop
    <3> QED  BY <3>1, <3>2, <2>2
  <2>18. unannounced \in Nat
    OBVIOUS
  <2> HIDE DEF TypeOK, loopVars, ioVars
  <2> QED
    BY <2>1, <2>2, <2>3, <2>4, <2>5, <2>6, <2>7, <2>8, <2>9, <2>10, <2>11,
       <2>12, <2>13, <2>14, <2>15, <2>16, <2>17, <2>18, NextCases
<1> QED  BY <1>1, <1>2, PTL DEF Spec

-----------------------------------------------------------------------------
(* The loop thread's position determines callingPendingFunctors_, looping_ *)
(* and whether doPendingFunctors() has a batch in hand.                    *)
LEMMA PhaseStep ==
    ASSUME TypeOK, PhaseInv, [Next]_vars
    PROVE  PhaseInv'
<1> USE DEF PhaseInv, loopVars, ioVars
<1>1. CASE UNCHANGED vars
  BY <1>1 DEF vars
<1>2. ASSUME NEW t \in Threads, NEW f \in Functor, PushFunctor(t, f) PROVE PhaseInv'
  BY <1>2 DEF PushFunctor
<1>3. ASSUME NEW t \in Threads, Quit(t) PROVE PhaseInv'
  BY <1>3 DEF Quit
<1>4. ASSUME NEW t \in Threads, Wakeup(t) PROVE PhaseInv'
  BY <1>4 DEF Wakeup
<1>5. CASE Loop
  BY <1>5 DEF Loop, AtStep
<1>6. CASE DoPendingFunctors
  BY <1>6 DEF DoPendingFunctors, AtStep
<1>7. CASE RunFunctor
  BY <1>7 DEF RunFunctor, AtStep
<1>8. CASE EndFunctor
  BY <1>8 DEF EndFunctor, AtStep
<1>9. CASE FinishFunctors
  BY <1>9 DEF FinishFunctors, AtStep
<1>10. CASE CheckQuit
  BY <1>10 DEF CheckQuit, AtStep
<1>11. CASE PollReturn
  BY <1>11 DEF PollReturn, AtStep
<1>12. CASE HandleRead
  BY <1>12 DEF HandleRead, AtStep
<1>13. CASE BeginEvent
  BY <1>13 DEF BeginEvent, AtStep
<1>14. CASE EndEvent
  BY <1>14 DEF EndEvent, AtStep
<1>15. CASE NextIteration
  BY <1>15 DEF NextIteration, AtStep
<1>16. CASE EnvEvent
  BY <1>16 DEF EnvEvent
<1>17. ASSUME NEW f \in Functor, DestructorQueueInLoop(f) PROVE PhaseInv'
  <2>1. PushFunctor(LoopThread, f) /\ LoopThread \in Threads
    BY <1>17 DEF DestructorQueueInLoop, Threads
  <2> QED  BY <2>1, <1>2
<1> HIDE DEF PhaseInv, loopVars, ioVars
<1> QED
  BY <1>1, <1>2, <1>3, <1>4, <1>5, <1>6, <1>7, <1>8, <1>9, <1>10, <1>11,
     <1>12, <1>13, <1>14, <1>15, <1>16, <1>17, NextCases

THEOREM PhaseCorrect == Spec => []PhaseInv
<1>1. Init => PhaseInv
  BY DEF Init, PhaseInv
<1> QED  BY <1>1, PhaseStep, TypeCorrect, PTL DEF Spec

-----------------------------------------------------------------------------
(* What the write of a thread that is about to call wakeup() establishes. *)
LEMMA WakeupDueByCaller ==
    ASSUME NEW t \in Threads, caller'[t] = "wakeup"
    PROVE  WakeupDue'
  BY DEF WakeupDue

(* A step that leaves the eventfd and the callers alone keeps a wakeup due. *)
LEMMA WakeupDueStable ==
    ASSUME wakeupFd' = wakeupFd, caller' = caller, WakeupDue
    PROVE  WakeupDue'
  BY DEF WakeupDue

(* So does a step of one thread into its second half. *)
LEMMA WakeupDueGrows ==
    ASSUME TypeOK, wakeupFd' = wakeupFd, WakeupDue,
           NEW t \in Threads, NEW c, caller[t] = "out",
           caller' = [caller EXCEPT ![t] = c]
    PROVE  WakeupDue'
  BY DEF WakeupDue, TypeOK

LEMMA NoLostWakeupStep ==
    ASSUME TypeOK, PhaseInv, NoLostWakeup, [Next]_vars
    PROVE  NoLostWakeup'
<1> USE DEF NoLostWakeup
<1>1. CASE UNCHANGED vars
  BY <1>1 DEF vars, WakeupDue
<1>2. ASSUME NEW t \in Threads, NEW f \in Functor, PushFunctor(t, f), InUserCode(t)
      PROVE NoLostWakeup'
  <2>1. UNCHANGED <<pc, quit, wakeupFd>>
    BY <1>2 DEF PushFunctor, loopVars, ioVars
  <2>2. CASE ~isInLoopThread(t) \/ callingPendingFunctors
    <3>1. caller'[t] = "wakeup"
      BY <1>2, <2>2 DEF PushFunctor, TypeOK
    <3> QED  BY <3>1, WakeupDueByCaller
  <2>3. CASE isInLoopThread(t) /\ ~callingPendingFunctors
    <3>1. pc \notin {"functors", "checkQuit", "poll"}
      BY <1>2, <2>3 DEF InUserCode, PhaseInv
    <3> QED  BY <2>1, <3>1
  <2> QED  BY <2>2, <2>3
<1>3. ASSUME NEW t \in Threads, Quit(t) PROVE NoLostWakeup'
  <2>1. UNCHANGED <<pc, pendingFunctors, wakeupFd, unannounced>> /\ caller[t] = "out"
    BY <1>3 DEF Quit, InUserCode, loopVars, ioVars
  <2>2. CASE isInLoopThread(t)
    <3>1. pc # "poll"
      BY <1>3, <2>2 DEF Quit, InUserCode, PhaseInv
    <3>2. WakeupDue => WakeupDue'
      BY <1>3, <2>1, WakeupDueGrows DEF Quit
    <3> QED  BY <2>1, <3>1, <3>2
  <2>3. CASE ~isInLoopThread(t)
    <3>1. caller'[t] = "wakeup"
      BY <1>3, <2>3 DEF Quit, TypeOK
    <3> QED  BY <3>1, WakeupDueByCaller
  <2> QED  BY <2>2, <2>3
<1>4. ASSUME NEW t \in Threads, Wakeup(t) PROVE NoLostWakeup'
  <2>1. wakeupFd' > 0
    BY <1>4, EventfdMaxAssumption DEF Wakeup, TypeOK
  <2> QED  BY <2>1 DEF WakeupDue
<1>5. CASE Loop
  BY <1>5 DEF Loop
<1>6. CASE DoPendingFunctors
  BY <1>6 DEF DoPendingFunctors
<1>7. CASE RunFunctor
  BY <1>7, WakeupDueStable DEF RunFunctor, ioVars
<1>8. CASE EndFunctor
  BY <1>8, WakeupDueStable DEF EndFunctor, ioVars
<1>9. CASE FinishFunctors
  BY <1>9, WakeupDueStable DEF FinishFunctors, AtStep, ioVars
<1>10. CASE CheckQuit
  BY <1>10, WakeupDueStable DEF CheckQuit, AtStep, ioVars
<1>11. CASE PollReturn
  BY <1>11 DEF PollReturn
<1>12. CASE HandleRead
  BY <1>12 DEF HandleRead, AtStep, loopVars
<1>13. CASE BeginEvent
  BY <1>13 DEF BeginEvent
<1>14. CASE EndEvent
  BY <1>14 DEF EndEvent
<1>15. CASE NextIteration
  BY <1>15 DEF NextIteration
<1>16. CASE EnvEvent
  BY <1>16, WakeupDueStable DEF EnvEvent, loopVars
<1>17. ASSUME NEW f \in Functor, DestructorQueueInLoop(f) PROVE NoLostWakeup'
  <2>1. /\ pc = "checkQuit" /\ pc' = pc /\ wakeupFd' = wakeupFd
        /\ pendingFunctors' = Append(pendingFunctors, f)
        /\ unannounced' = unannounced + 1
        /\ LoopThread \in Threads /\ caller[LoopThread] = "out"
        /\ \E c : caller' = [caller EXCEPT ![LoopThread] = c]
    BY <1>17 DEF DestructorQueueInLoop, PushFunctor, loopVars, ioVars, Threads
  <2>2. WakeupDue => WakeupDue'
    BY <2>1, WakeupDueGrows
  <2>3. Len(pendingFunctors') = Len(pendingFunctors) + 1 /\ unannounced \in Nat
    BY <2>1 DEF TypeOK
  <2> QED  BY <2>1, <2>2, <2>3 DEF TypeOK
<1> HIDE DEF NoLostWakeup
<1> QED
  BY <1>1, <1>2, <1>3, <1>4, <1>5, <1>6, <1>7, <1>8, <1>9, <1>10, <1>11,
     <1>12, <1>13, <1>14, <1>15, <1>16, <1>17, NextCases

(* For any number of threads and any eventfd limit, queueInLoop() and      *)
(* quit() never leave the loop asleep in poll; only functors queued while  *)
(* executed functors are destroyed can be left waiting, all by themselves. *)
THEOREM NoWakeupIsLost == Spec => []NoLostWakeup
<1>1. Init => NoLostWakeup
  BY DEF Init, NoLostWakeup
<1>2. TypeOK /\ PhaseInv /\ NoLostWakeup /\ [Next]_vars => NoLostWakeup'
  BY NoLostWakeupStep
<1> QED  BY <1>1, <1>2, TypeCorrect, PhaseCorrect, PTL DEF Spec

-----------------------------------------------------------------------------
LEMMA OwedStep ==
    ASSUME TypeOK, PhaseInv, OwedInv, [Next]_vars
    PROVE  OwedInv'
<1> USE DEF OwedInv, loopVars, ioVars
<1>0. /\ owed \in Nat
      /\ Len(functors) \in Nat /\ Len(pendingFunctors) \in Nat
  BY DEF TypeOK
<1>1. CASE UNCHANGED vars
  BY <1>1 DEF vars
<1>2. ASSUME NEW t \in Threads, NEW f \in Functor, PushFunctor(t, f) PROVE OwedInv'
  <2>1. Len(pendingFunctors') = Len(pendingFunctors) + 1
    BY <1>2 DEF PushFunctor, TypeOK
  <2> QED  BY <1>0, <1>2, <2>1 DEF PushFunctor
<1>3. ASSUME NEW t \in Threads, Quit(t) PROVE OwedInv'
  <2>1. CASE Draining
    <3>1. owed' = owed
      BY <1>3, <2>1 DEF Quit, Draining
    <3> QED  BY <1>3, <3>1 DEF Quit
  <2>2. CASE ~Draining
    <3>1. owed' = Len(functors) + Len(pendingFunctors)
      BY <1>3, <2>2 DEF Quit, Draining
    <3> QED  BY <1>0, <1>3, <2>2, <3>1 DEF Quit, Draining
  <2> QED  BY <2>1, <2>2
<1>4. ASSUME NEW t \in Threads, Wakeup(t) PROVE OwedInv'
  BY <1>4 DEF Wakeup
<1>5. CASE Loop
  BY <1>5 DEF Loop
<1>6. CASE DoPendingFunctors
  <2>1. functors = <<>> /\ functors' = pendingFunctors /\ pendingFunctors' = <<>>
    BY <1>6 DEF DoPendingFunctors, AtStep, PhaseInv
  <2>2. owed <= Len(pendingFunctors)
    BY <1>0, <2>1
  <2> QED  BY <1>0, <1>6, <2>1, <2>2 DEF DoPendingFunctors
<1>7. CASE RunFunctor
  <2>1. Len(functors') = Len(functors) - 1 /\ Len(functors) > 0
    BY <1>7 DEF RunFunctor, TypeOK
  <2>2. owed' = IF owed > 0 THEN owed - 1 ELSE 0
    BY <1>7 DEF RunFunctor
  <2> QED  BY <1>0, <1>7, <2>1, <2>2 DEF RunFunctor, AtStep
<1>8. CASE EndFunctor
  BY <1>8 DEF EndFunctor
<1>9. CASE FinishFunctors
  <2>1. owed = 0
    BY <1>0, <1>9 DEF FinishFunctors, AtStep
  <2> QED  BY <1>0, <1>9, <2>1 DEF FinishFunctors
<1>10. CASE CheckQuit
  BY <1>10 DEF CheckQuit
<1>11. CASE PollReturn
  BY <1>11 DEF PollReturn
<1>12. CASE HandleRead
  BY <1>12 DEF HandleRead
<1>13. CASE BeginEvent
  BY <1>13 DEF BeginEvent
<1>14. CASE EndEvent
  BY <1>14 DEF EndEvent
<1>15. CASE NextIteration
  BY <1>15 DEF NextIteration
<1>16. CASE EnvEvent
  BY <1>16 DEF EnvEvent
<1>17. ASSUME NEW f \in Functor, DestructorQueueInLoop(f) PROVE OwedInv'
  <2>1. PushFunctor(LoopThread, f) /\ LoopThread \in Threads
    BY <1>17 DEF DestructorQueueInLoop, Threads
  <2> QED  BY <2>1, <1>2
<1> HIDE DEF OwedInv, loopVars, ioVars
<1> QED
  BY <1>1, <1>2, <1>3, <1>4, <1>5, <1>6, <1>7, <1>8, <1>9, <1>10, <1>11,
     <1>12, <1>13, <1>14, <1>15, <1>16, <1>17, NextCases

(* Only CheckQuit ends a loop. *)
LEMMA ExitIsCheckQuit ==
    ASSUME Next, looping, ~looping'
    PROVE  CheckQuit
  BY NextCases
  DEF PushFunctor, DestructorQueueInLoop, Quit, Wakeup, Loop, DoPendingFunctors,
      RunFunctor, EndFunctor, FinishFunctors, PollReturn, HandleRead, BeginEvent,
      EndEvent, NextIteration, EnvEvent, vars, loopVars

(* For any threads and bounds: a quit() outside doPendingFunctors() lets   *)
(* every functor queued before it run before loop() returns, because       *)
(* prepareCallBack() drains the queue before it tests quit_.               *)
THEOREM QuitDrainsTheQueue == Spec => QuitDrains
<1>1. Init => OwedInv
  <2> SUFFICES ASSUME Init PROVE OwedInv
    OBVIOUS
  <2>1. owed = 0
    BY DEF Init
  <2> QED  BY <2>1 DEF Init, OwedInv
<1>2. TypeOK /\ PhaseInv /\ OwedInv /\ [Next]_vars => OwedInv'
  BY OwedStep
<1>3. OwedInv /\ [Next]_vars => [looping /\ ~looping' => owed = 0]_vars
  <2> SUFFICES ASSUME OwedInv, Next, looping, ~looping'
               PROVE  owed = 0
    BY DEF vars
  <2>1. pc = "checkQuit"
    BY ExitIsCheckQuit DEF CheckQuit, AtStep
  <2> QED  BY <2>1 DEF OwedInv
<1> QED  BY <1>1, <1>2, <1>3, TypeCorrect, PhaseCorrect, PTL DEF Spec, QuitDrains

-----------------------------------------------------------------------------
(* Appending to the second of two sequences appends to their concatenation, *)
(* and taking the head of a non-empty first one takes the head of both.     *)
LEMMA ConcatAppend ==
    ASSUME NEW S, NEW a \in Seq(S), NEW b \in Seq(S), NEW x \in S
    PROVE  a \o Append(b, x) = Append(a \o b, x)
  OBVIOUS

LEMMA ConcatHeadTail ==
    ASSUME NEW S, NEW a \in Seq(S), NEW b \in Seq(S), a # <<>>
    PROVE  /\ a \o b # <<>>
           /\ Head(a \o b) = Head(a)
           /\ Tail(a \o b) = Tail(a) \o b
  OBVIOUS

LEMMA ConcatEmpty ==
    ASSUME NEW S, NEW a \in Seq(S)
    PROVE  <<>> \o a = a /\ a \o <<>> = a
  OBVIOUS

(* For any threads, functors and bounds, the loop implements a FIFO queue  *)
(* that executes each functor once.                                        *)
THEOREM LoopImplementsFunctorQueue == Spec => ImplementsFunctorQueue
<1>1. Init => Queue!Init
  BY DEF Init, Queue!Init
<1>2. TypeOK /\ PhaseInv /\ [Next]_vars => [Queue!Next]_(Queue!vars)
  <2> SUFFICES ASSUME TypeOK, PhaseInv, [Next]_vars
               PROVE  Queue!Next \/ UNCHANGED Queue!vars
    OBVIOUS
  <2> USE DEF Queue!vars, loopVars, ioVars
  <2>0. functors \in Seq(Functor) /\ pendingFunctors \in Seq(Functor)
    BY DEF TypeOK
  <2>1. CASE UNCHANGED vars
    BY <2>1 DEF vars
  <2>2. ASSUME NEW t, NEW f \in Functor, PushFunctor(t, f) PROVE Queue!Next
    <3>1. Queue!Submit(f)
      BY <2>0, <2>2, ConcatAppend DEF PushFunctor, Queue!Submit
    <3> QED  BY <3>1 DEF Queue!Next
  <2>3. ASSUME NEW t \in Threads, Quit(t) PROVE UNCHANGED Queue!vars
    BY <2>3 DEF Quit
  <2>4. ASSUME NEW t \in Threads, Wakeup(t) PROVE UNCHANGED Queue!vars
    BY <2>4 DEF Wakeup
  <2>5. CASE Loop
    BY <2>5 DEF Loop
  <2>6. CASE DoPendingFunctors
    BY <2>0, <2>6, ConcatEmpty DEF DoPendingFunctors, AtStep, PhaseInv
  <2>7. CASE RunFunctor
    <3>1. Queue!Start
      BY <2>0, <2>7, ConcatHeadTail DEF RunFunctor, Queue!Start
    <3> QED  BY <3>1 DEF Queue!Next
  <2>8. CASE EndFunctor
    <3>1. Queue!Finish
      BY <2>8 DEF EndFunctor, Queue!Finish
    <3> QED  BY <3>1 DEF Queue!Next
  <2>9. CASE FinishFunctors
    BY <2>9 DEF FinishFunctors
  <2>10. CASE CheckQuit
    BY <2>10 DEF CheckQuit
  <2>11. CASE PollReturn
    BY <2>11 DEF PollReturn
  <2>12. CASE HandleRead
    BY <2>12 DEF HandleRead
  <2>13. CASE BeginEvent
    BY <2>13 DEF BeginEvent
  <2>14. CASE EndEvent
    BY <2>14 DEF EndEvent
  <2>15. CASE NextIteration
    BY <2>15 DEF NextIteration
  <2>16. CASE EnvEvent
    BY <2>16 DEF EnvEvent
  <2>17. ASSUME NEW f \in Functor, DestructorQueueInLoop(f) PROVE Queue!Next
    BY <2>2, <2>17 DEF DestructorQueueInLoop
  <2> HIDE DEF Queue!vars, loopVars, ioVars
  <2> QED
    BY <2>1, <2>2, <2>3, <2>4, <2>5, <2>6, <2>7, <2>8, <2>9, <2>10, <2>11,
       <2>12, <2>13, <2>14, <2>15, <2>16, <2>17, NextCases
<1> QED
  BY <1>1, <1>2, TypeCorrect, PhaseCorrect, PTL
  DEF Spec, ImplementsFunctorQueue, Queue!Spec
=============================================================================

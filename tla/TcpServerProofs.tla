--------------------------- MODULE TcpServerProofs ---------------------------
(***************************************************************************)
(* Proofs about TcpServer.tla, for every number of loop threads, of        *)
(* descriptors and of waiting peers.                                       *)
(***************************************************************************)
EXTENDS TcpServer, TLAPS

Starting == {"create", "await", "wait"}
Serving == {"serve"} \cup EmfileSteps
Stopping == {"quit", "wakeup", "join", "done"}
ThreadStates == {"none", "created", "published", "prepare", "poll", "ended"}

FirstLoops(n) == [i \in 1..n |-> i]

(* Where the base thread is tells how many loops it has collected.         *)
PhaseInv ==
    /\ pc \in {"new"} \cup Starting \cup Serving \cup Stopping
    /\ loops = FirstLoops(Len(loops)) /\ Len(loops) \in Nat
    /\ numThreads \in 0..MaxThreads /\ Len(loops) <= numThreads
    /\ cur \in Nat /\ 1 <= cur /\ cur <= Len(loops) + 1
    /\ pc = "new" => loops = <<>>
    /\ pc \in Starting => cur = Len(loops) + 1
    /\ pc \in {"await", "wait"} => cur <= numThreads
    /\ pc \in {"new"} \cup Starting => next = 0
    /\ pc \in Serving => Len(loops) = numThreads
    /\ pc \in {"wakeup", "join"} => cur <= Len(loops)

(* loop_ is not NULL exactly while the EventLoop exists, a thread ends only *)
(* because it was told to, and quit() is called for one loop at a time.     *)
ThreadInv ==
    /\ thread \in [Pool -> ThreadStates]
    /\ loopPtr \in [Pool -> BOOLEAN]
    /\ quit \in [Pool -> BOOLEAN]
    /\ \A i \in Pool : loopPtr[i] <=> Alive(i)
    /\ \A i \in Pool : At(i, "ended") => quit[i]
    /\ \A i \in 1..Len(loops) : thread[i] \notin {"none", "created"}
    /\ \A i \in Pool : \/ pc \in {"new", "create"} /\ cur <= i
                       \/ pc \in {"await", "wait"} /\ cur < i
                       => At(i, "none")
    /\ \A i \in Pool : quit[i] => /\ pc \in Stopping /\ i <= cur
                                  /\ pc = "quit" => i < cur

(* The loops before next_ have got one connection more than the others.    *)
LoadInv ==
    /\ next \in Nat /\ (next = 0 \/ next < numThreads)
    /\ load = [i \in Pool |-> IF i <= next THEN 1 ELSE 0]

(* No more descriptors are held than there are.                            *)
FdInv ==
    /\ backlog \in 0..MaxBacklog
    /\ conns \in Nat /\ others \in Nat /\ Used <= MaxFds
    /\ spare \in BOOLEAN

FlagInv ==
    /\ woken \in [Pool -> BOOLEAN]
    /\ signaled \in BOOLEAN /\ listening \in BOOLEAN /\ intruded \in BOOLEAN

ServerInv == PhaseInv /\ ThreadInv /\ LoadInv /\ FdInv /\ FlagInv

-----------------------------------------------------------------------------
(* The loops are those of threads 1, 2, ... in this order.                 *)
LEMMA FirstLoopsFacts ==
    ASSUME NEW n \in Nat
    PROVE  /\ Len(FirstLoops(n)) = n
           /\ \A i \in 1..n : FirstLoops(n)[i] = i
           /\ Append(FirstLoops(n), n + 1) = FirstLoops(n + 1)
  BY DEF FirstLoops

LEMMA LoopFacts ==
    ASSUME PhaseInv
    PROVE  /\ Len(loops) \in Nat /\ \A i \in 1..Len(loops) : loops[i] = i
           /\ cur = Len(loops) + 1 => /\ Append(loops, cur) = FirstLoops(Len(loops) + 1)
                                      /\ Len(Append(loops, cur)) = Len(loops) + 1
           /\ \A i \in 1..Len(loops) : i \in Pool
           /\ pc \in {"await", "wait"} => cur \in Pool
           /\ pc \in {"wakeup", "join"} => cur \in Pool
           /\ cur \in Nat /\ numThreads \in Nat /\ MaxThreads \in Nat
<1>1. Len(loops) \in Nat /\ loops = FirstLoops(Len(loops)) BY DEF PhaseInv
<1>2. \A i \in 1..Len(loops) : loops[i] = i BY <1>1, FirstLoopsFacts
<1>3. MaxThreads \in Nat BY BoundAssumption
<1>4. /\ numThreads \in Nat /\ numThreads <= MaxThreads /\ Len(loops) <= numThreads
      /\ cur \in Nat /\ 1 <= cur
  BY <1>3 DEF PhaseInv
<1>5. \A i \in 1..Len(loops) : i \in Pool BY <1>1, <1>3, <1>4 DEF Pool
<1>6. pc \in {"await", "wait"} => cur <= numThreads BY DEF PhaseInv
<1>7. pc \in {"wakeup", "join"} => cur <= Len(loops) BY DEF PhaseInv
<1>8. cur <= MaxThreads => cur \in Pool BY <1>4 DEF Pool
<1>9. pc \in {"await", "wait", "wakeup", "join"} => cur \in Pool
  BY <1>1, <1>3, <1>4, <1>6, <1>7, <1>8
<1>10. cur = Len(loops) + 1 => /\ Append(loops, cur) = FirstLoops(Len(loops) + 1)
                               /\ Len(Append(loops, cur)) = Len(loops) + 1
  <2>1. Append(FirstLoops(Len(loops)), Len(loops) + 1) = FirstLoops(Len(loops) + 1)
    BY <1>1, FirstLoopsFacts
  <2>2. Len(loops) + 1 \in Nat BY <1>1
  <2>3. Len(FirstLoops(Len(loops) + 1)) = Len(loops) + 1 BY <2>2, FirstLoopsFacts
  <2> QED BY <1>1, <2>1, <2>3, Zenon
<1> QED BY <1>1, <1>2, <1>3, <1>4, <1>5, <1>9, <1>10

(* The kinds of steps: within the descriptor dance, by a pool thread, by    *)
(* the rest of the world, and those that move the base thread through      *)
(* starting, serving and stopping.                                         *)
EmfileStep ==
    /\ pc \in Serving /\ pc' \in Serving
    /\ UNCHANGED <<baseVars, threadVars, listening, conns, others, intruded, load>>
    /\ backlog' = backlog \/ (backlog > 0 /\ backlog' = backlog - 1)
    /\ spare' \in BOOLEAN /\ (spare' => Used < MaxFds \/ spare)

OutsideStep ==
    /\ UNCHANGED <<pc, baseVars, threadVars, load, spare>>
    /\ StartAgain \/ PeerArrives \/ ConnectionEnds \/ OthersOpen \/ OthersClose

LEMMA EmfileSteps1 ==
    ASSUME FdInv, AcceptFails \/ CloseSpare \/ AcceptSpare \/ CloseAccepted \/ OpenSpare
    PROVE  EmfileStep
<1>1. {"serve", "closeSpare", "acceptSpare", "closeAccepted", "openSpare"} = Serving
  BY DEF Serving, EmfileSteps
<1>2. spare \in BOOLEAN /\ backlog \in Nat BY BoundAssumption DEF FdInv
<1>3. CASE AcceptFails
  BY <1>1, <1>2, <1>3 DEF AcceptFails, EmfileStep, fdVars
<1>4. CASE CloseSpare
  <2>1. ~spare' BY <1>4 DEF CloseSpare
  <2>2. spare' \in BOOLEAN BY <1>4 DEF CloseSpare
  <2> QED BY <1>1, <1>4, <2>1, <2>2 DEF CloseSpare, EmfileStep
<1>5. CASE AcceptSpare
  <2>1. pc \in Serving /\ pc' \in Serving BY <1>1, <1>5 DEF AcceptSpare
  <2>2. CASE UNCHANGED <<backlog, spare>>
    BY <1>2, <1>5, <2>1, <2>2 DEF AcceptSpare, EmfileStep
  <2>3. CASE /\ Used < MaxFds /\ backlog > 0 /\ backlog' = backlog - 1 /\ spare' = TRUE
    <3>1. spare' \in BOOLEAN BY <2>3
    <3> QED BY <1>5, <2>1, <2>3, <3>1 DEF AcceptSpare, EmfileStep
  <2> QED BY <1>5, <2>2, <2>3 DEF AcceptSpare
<1>6. CASE CloseAccepted
  <2>1. ~spare' BY <1>6 DEF CloseAccepted
  <2>2. spare' \in BOOLEAN BY <1>6 DEF CloseAccepted
  <2> QED BY <1>1, <1>6, <2>1, <2>2 DEF CloseAccepted, EmfileStep
<1>7. CASE OpenSpare
  <2> DEFINE room == Used < MaxFds
  <2>1. spare' = room /\ room \in BOOLEAN BY <1>7 DEF OpenSpare
  <2> HIDE DEF room
  <2>a. spare' \in BOOLEAN /\ (spare' => room) BY <2>1, Zenon
  <2>2. spare' \in BOOLEAN /\ (spare' => Used < MaxFds) BY <2>a DEF room
  <2> QED BY <1>1, <1>7, <2>2 DEF OpenSpare, EmfileStep
<1> QED BY <1>3, <1>4, <1>5, <1>6, <1>7

LEMMA NextCases ==
    ASSUME FdInv, Next
    PROVE  \/ \E n \in 0..MaxThreads : SetThreadNum(n)
           \/ Start \/ CreateThread \/ AwaitLoop \/ WakeUp \/ SpuriousWakeUp \/ Listen
           \/ Destroy \/ QuitLoop \/ WakeupLoop \/ JoinThread \/ CloseAcceptor
           \/ \E i \in Pool : ThreadStep(i)
           \/ Accept \/ EmfileStep \/ OutsideStep
<1>1. CASE StartAgain \/ PeerArrives \/ ConnectionEnds \/ OthersOpen \/ OthersClose
  BY <1>1 DEF OutsideStep, StartAgain, PeerArrives, ConnectionEnds, OthersOpen, OthersClose,
     fdVars
<1> QED BY <1>1, EmfileSteps1 DEF Next, BaseStep

-----------------------------------------------------------------------------
LEMMA PhaseStep ==
    ASSUME ServerInv, [Next]_vars
    PROVE  PhaseInv'
<1> DEFINE Phases == {"new"} \cup Starting \cup Serving \cup Stopping
<1>1. PhaseInv /\ FdInv BY DEF ServerInv
<1>2. CASE UNCHANGED <<pc, numThreads, loops, next, cur>> BY <1>1, <1>2 DEF PhaseInv
<1>3. CASE \E n \in 0..MaxThreads : SetThreadNum(n)
  <2>1. PICK n \in 0..MaxThreads : SetThreadNum(n) BY <1>3
  <2>2. n \in Nat /\ loops = <<>> BY <1>1, <2>1, BoundAssumption DEF SetThreadNum, PhaseInv
  <2>3. pc = "new" /\ UNCHANGED <<pc, loops, next, cur>> /\ numThreads' = n
    BY <2>1 DEF SetThreadNum
  <2> QED BY <1>1, <2>1, <2>2, <2>3 DEF PhaseInv, Starting, Serving, Stopping, EmfileSteps
<1>4. CASE Start
  <2>1. Len(loops) = 0 BY <1>1, <1>4 DEF Start, PhaseInv
  <2>2. cur = Len(loops) + 1 BY <1>1, <2>1 DEF PhaseInv
  <2> QED BY <1>1, <1>4, <2>2
          DEF Start, PhaseInv, baseVars, Starting, Serving, Stopping, EmfileSteps
<1>5. CASE CreateThread
  BY <1>1, <1>5 DEF CreateThread, PhaseInv, baseVars, Starting, Serving, Stopping, EmfileSteps
<1>6. CASE AwaitLoop
  <2>1. CASE UNCHANGED <<loops, cur>> /\ pc' = "wait"
    BY <1>1, <1>6, <2>1 DEF AwaitLoop, PhaseInv, Starting, Serving, Stopping, EmfileSteps
  <2>2. CASE loops' = Append(loops, cur) /\ cur' = cur + 1 /\ pc' = "create"
    <3>1. cur = Len(loops) + 1 /\ cur <= numThreads /\ next = 0 /\ Len(loops) \in Nat
          /\ numThreads \in 0..MaxThreads
      BY <1>1, <1>6 DEF AwaitLoop, PhaseInv, Starting
    <3>2. loops' = FirstLoops(Len(loops) + 1) /\ Len(loops') = Len(loops) + 1
      BY <1>1, <2>2, <3>1, LoopFacts
    <3>3. numThreads' = numThreads /\ next' = next BY <1>6 DEF AwaitLoop
    <3> QED BY <2>2, <3>1, <3>2, <3>3
            DEF PhaseInv, Starting, Serving, Stopping, EmfileSteps
  <2> QED BY <1>6, <2>1, <2>2 DEF AwaitLoop
<1>7. CASE WakeUp \/ SpuriousWakeUp
  BY <1>1, <1>7 DEF WakeUp, SpuriousWakeUp, PhaseInv, baseVars, Starting, Serving, Stopping,
     EmfileSteps
<1>8. CASE Listen
  <2>1. cur = Len(loops) + 1 /\ ~(cur <= numThreads) /\ Len(loops) <= numThreads
        /\ Len(loops) \in Nat /\ numThreads \in Nat
    BY <1>1, <1>8, LoopFacts DEF Listen, PhaseInv, Starting
  <2>2. Len(loops) = numThreads BY <2>1
  <2> QED BY <1>1, <1>8, <2>2
          DEF Listen, PhaseInv, baseVars, Starting, Serving, Stopping, EmfileSteps
<1>9. CASE Destroy
  <2>1. Len(loops) \in Nat /\ cur' = 1 /\ pc' = "quit" BY <1>1, <1>9 DEF Destroy, PhaseInv
  <2> QED BY <1>1, <1>9, <2>1
          DEF Destroy, PhaseInv, Starting, Serving, Stopping, EmfileSteps
<1>10. CASE QuitLoop \/ WakeupLoop
  BY <1>1, <1>10 DEF QuitLoop, WakeupLoop, PhaseInv, baseVars, Starting, Serving, Stopping,
     EmfileSteps
<1>11. CASE JoinThread
  <2>1. cur <= Len(loops) /\ cur \in Nat /\ 1 <= cur /\ Len(loops) \in Nat
    BY <1>1, <1>11 DEF JoinThread, PhaseInv
  <2>2. cur' \in Nat /\ 1 <= cur' /\ cur' <= Len(loops) + 1 BY <1>11, <2>1 DEF JoinThread
  <2> QED BY <1>1, <1>11, <2>2
          DEF JoinThread, PhaseInv, Starting, Serving, Stopping, EmfileSteps
<1>12. CASE CloseAcceptor
  BY <1>1, <1>12 DEF CloseAcceptor, PhaseInv, baseVars, Starting, Serving, Stopping,
     EmfileSteps
<1>13. CASE \E i \in Pool : ThreadStep(i)
  BY <1>2, <1>13 DEF ThreadStep, Publish, EnterLoop, Prepare, PollReturn, baseVars
<1>14. CASE Accept
  BY <1>1, <1>14 DEF Accept, PhaseInv, Starting, Serving, Stopping, EmfileSteps
<1>15. CASE EmfileStep
  BY <1>1, <1>15 DEF EmfileStep, PhaseInv, baseVars, Starting, Serving, Stopping, EmfileSteps
<1>16. CASE OutsideStep BY <1>2, <1>16 DEF OutsideStep, baseVars
<1>17. CASE UNCHANGED vars BY <1>2, <1>17 DEF vars, baseVars
<1> QED
  BY <1>1, <1>3, <1>4, <1>5, <1>6, <1>7, <1>8, <1>9, <1>10, <1>11, <1>12, <1>13, <1>14, <1>15,
     <1>16, <1>17, NextCases

-----------------------------------------------------------------------------
(* The parts of ThreadInv one thread at a time. *)
ThreadOK(i) ==
    /\ loopPtr[i] <=> Alive(i)
    /\ At(i, "ended") => quit[i]
    /\ i <= Len(loops) => thread[i] \notin {"none", "created"}
    /\ \/ pc \in {"new", "create"} /\ cur <= i
       \/ pc \in {"await", "wait"} /\ cur < i
       => At(i, "none")
    /\ quit[i] => pc \in Stopping /\ i <= cur /\ (pc = "quit" => i < cur)

ThreadTypes ==
    /\ thread \in [Pool -> ThreadStates]
    /\ loopPtr \in [Pool -> BOOLEAN]
    /\ quit \in [Pool -> BOOLEAN]

LEMMA ThreadInvParts == ASSUME PhaseInv
                        PROVE  ThreadInv <=> ThreadTypes /\ \A i \in Pool : ThreadOK(i)
<1>1. \A i \in 1..Len(loops) : i \in Pool BY LoopFacts
<1>2. Len(loops) \in Nat BY LoopFacts
<1>3. \A i \in Pool : i \in Nat /\ 1 <= i BY BoundAssumption DEF Pool
<1>4. \A i \in Pool : i \in 1..Len(loops) <=> i <= Len(loops) BY <1>2, <1>3
<1> QED BY <1>1, <1>4, Zenon DEF ThreadInv, ThreadTypes, ThreadOK

(* A pool thread's own steps. *)
LEMMA PoolThreadStep ==
    ASSUME PhaseInv, ThreadInv, NEW t \in Pool, ThreadStep(t)
    PROVE  ThreadTypes' /\ \A i \in Pool : ThreadOK(i)'
<1>1. ThreadTypes /\ \A i \in Pool : ThreadOK(i) BY ThreadInvParts
<1>2. UNCHANGED <<pc, loops, cur, quit>>
  BY DEF ThreadStep, Publish, EnterLoop, Prepare, PollReturn, baseVars
<1>3. /\ thread' = [thread EXCEPT ![t] = thread'[t]] /\ thread'[t] \in ThreadStates
      /\ loopPtr' = [loopPtr EXCEPT ![t] = loopPtr'[t]] /\ loopPtr'[t] \in BOOLEAN
      /\ loopPtr'[t] <=> thread'[t] \in {"published", "prepare", "poll"}
      /\ thread[t] # "none" /\ thread'[t] \notin {"none", "created"}
      /\ thread'[t] = "ended" => quit[t]
  <2>1. loopPtr[t] <=> thread[t] \in {"published", "prepare", "poll"}
    BY <1>1 DEF ThreadOK, Alive
  <2>2. CASE Publish(t)
    <3>1. thread'[t] = "published" /\ loopPtr'[t] BY <1>1, <2>2 DEF Publish, Goto, ThreadTypes
    <3>2. loopPtr'[t] \in BOOLEAN BY <1>1, <2>2 DEF Publish, ThreadTypes
    <3> QED BY <1>1, <2>2, <3>1, <3>2 DEF Publish, Goto, At, ThreadTypes, ThreadStates
  <2>3. CASE EnterLoop(t)
    <3>1. thread'[t] = "prepare" /\ loopPtr' = loopPtr
      BY <1>1, <2>3 DEF EnterLoop, Goto, ThreadTypes
    <3> QED BY <1>1, <2>1, <2>3, <3>1 DEF EnterLoop, Goto, At, ThreadTypes, ThreadStates
  <2>4. CASE Prepare(t) /\ ~quit[t] /\ Goto(t, "poll") /\ UNCHANGED loopPtr
    <3>1. thread'[t] = "poll" BY <1>1, <2>4 DEF Goto, ThreadTypes
    <3> QED BY <1>1, <2>1, <2>4, <3>1 DEF Prepare, Goto, At, ThreadTypes, ThreadStates
  <2>5. CASE Prepare(t) /\ quit[t] /\ ThreadFuncReturns(t)
    <3>1. thread'[t] = "ended" /\ ~loopPtr'[t]
      BY <1>1, <2>5 DEF ThreadFuncReturns, EndThread, Goto, ThreadTypes
    <3>2. loopPtr'[t] \in BOOLEAN BY <1>1, <2>5 DEF ThreadFuncReturns, ThreadTypes
    <3> QED BY <1>1, <2>5, <3>1, <3>2
            DEF ThreadFuncReturns, EndThread, Prepare, Goto, At, ThreadTypes, ThreadStates
  <2>6. CASE PollReturn(t)
    <3>1. thread'[t] = "prepare" /\ loopPtr' = loopPtr
      BY <1>1, <2>6 DEF PollReturn, Goto, ThreadTypes
    <3> QED BY <1>1, <2>1, <2>6, <3>1 DEF PollReturn, Goto, At, ThreadTypes, ThreadStates
  <2> QED BY <2>2, <2>3, <2>4, <2>5, <2>6 DEF ThreadStep, Prepare
<1>4. ThreadTypes' BY <1>1, <1>2, <1>3 DEF ThreadTypes
<1>5. ASSUME NEW i \in Pool PROVE ThreadOK(i)'
  <2>1. CASE i # t
    <3>1. thread'[i] = thread[i] /\ loopPtr'[i] = loopPtr[i] BY <1>1, <1>3, <2>1 DEF ThreadTypes
    <3>2. ThreadOK(i) BY <1>1
    <3> QED BY <1>2, <3>1, <3>2 DEF ThreadOK, Alive, At
  <2>2. CASE i = t
    <3>1. ThreadOK(t) BY <1>1
    <3> QED BY <1>2, <1>3, <2>2, <3>1 DEF ThreadOK, Alive, At
  <2> QED BY <2>1, <2>2
<1> QED BY <1>4, <1>5

LEMMA ThreadInvStep ==
    ASSUME ServerInv, [Next]_vars
    PROVE  ThreadInv'
<1>1. PhaseInv /\ FdInv /\ ThreadInv BY DEF ServerInv
<1>2. ThreadTypes /\ \A i \in Pool : ThreadOK(i) BY <1>1, ThreadInvParts
<1>3. PhaseInv' BY PhaseStep
<1> SUFFICES ThreadTypes' /\ \A i \in Pool : ThreadOK(i)'
  <2>1. /\ Len(loops)' \in Nat /\ Len(loops)' <= numThreads' /\ numThreads' \in 0..MaxThreads
    BY <1>3 DEF PhaseInv
  <2>2. \A i \in 1..Len(loops)' : i \in Pool /\ i <= Len(loops)'
    BY <2>1, BoundAssumption DEF Pool
  <2> QED BY <2>2, Zenon DEF ThreadInv, ThreadTypes, ThreadOK
<1>4. \A i \in Pool : i \in Nat /\ 1 <= i BY BoundAssumption DEF Pool
<1>5. /\ Len(loops) \in Nat /\ cur \in Nat /\ \A i \in 1..Len(loops) : loops[i] = i
      /\ pc \in {"await", "wait", "wakeup", "join"} => cur \in Pool
  BY <1>1, LoopFacts
(* Steps that only move the base thread. *)
<1>6. ASSUME UNCHANGED <<thread, loopPtr, quit>>
      PROVE  ThreadTypes'
  BY <1>2, <1>6 DEF ThreadTypes
<1>7. ASSUME UNCHANGED <<thread, loopPtr, quit, loops>>,
             \A i \in Pool : \/ pc' \in {"new", "create"} /\ cur' <= i
                             \/ pc' \in {"await", "wait"} /\ cur' < i
                             => At(i, "none"),
             \A i \in Pool : quit[i] => pc' \in Stopping /\ i <= cur' /\ (pc' = "quit" => i < cur')
      PROVE  ThreadTypes' /\ \A i \in Pool : ThreadOK(i)'
  <2>1. ASSUME NEW i \in Pool PROVE ThreadOK(i)'
    <3>1. ThreadOK(i) BY <1>2
    <3> QED BY <1>7, <3>1 DEF ThreadOK, Alive, At
  <2> QED BY <1>6, <1>7, <2>1
<1>8. ASSUME UNCHANGED <<thread, loopPtr, quit, loops, pc, cur>>
      PROVE  ThreadTypes' /\ \A i \in Pool : ThreadOK(i)'
  BY <1>2, <1>7, <1>8 DEF ThreadOK
<1>9. CASE (\E n \in 0..MaxThreads : SetThreadNum(n)) \/ OutsideStep \/ UNCHANGED vars
  BY <1>8, <1>9 DEF SetThreadNum, OutsideStep, vars, baseVars, threadVars
<1>10. CASE Start
  <2>1. UNCHANGED <<thread, loopPtr, quit, loops, cur>> /\ pc = "new" /\ pc' = "create"
    BY <1>10 DEF Start, baseVars, threadVars
  <2> QED BY <1>2, <1>7, <2>1 DEF ThreadOK, Stopping
<1>11. CASE WakeUp \/ SpuriousWakeUp
  <2>1. UNCHANGED <<thread, loopPtr, quit, loops, cur>> /\ pc = "wait" /\ pc' = "await"
    BY <1>11 DEF WakeUp, SpuriousWakeUp, baseVars, threadVars
  <2> QED BY <1>2, <1>7, <2>1 DEF ThreadOK, Stopping
<1>12. CASE Listen \/ Accept \/ EmfileStep
  <2>1. UNCHANGED <<thread, loopPtr, quit, loops, cur>> /\ pc \notin Stopping
        /\ pc' \in Serving
    BY <1>12 DEF Listen, Accept, EmfileStep, baseVars, threadVars, Serving, Stopping,
       EmfileSteps
  <2>2. pc' \notin {"new", "create", "await", "wait"}
    BY <2>1 DEF Serving, EmfileSteps
  <2> QED BY <1>2, <1>7, <2>1, <2>2 DEF ThreadOK
<1>13. CASE Destroy
  <2>1. UNCHANGED <<thread, loopPtr, quit, loops>> /\ pc \notin Stopping /\ pc' = "quit"
    BY <1>13 DEF Destroy, threadVars, Stopping
  <2> QED BY <1>2, <1>7, <2>1 DEF ThreadOK
<1>14. CASE WakeupLoop
  <2>1. UNCHANGED <<thread, loopPtr, quit, loops, cur>> /\ pc = "wakeup" /\ pc' = "join"
    BY <1>14 DEF WakeupLoop, baseVars
  <2> QED BY <1>2, <1>7, <2>1 DEF ThreadOK, Stopping
<1>15. CASE JoinThread
  <2>1. UNCHANGED <<thread, loopPtr, quit, loops>> /\ pc = "join" /\ pc' = "quit"
        /\ cur' = cur + 1
    BY <1>15 DEF JoinThread, threadVars
  <2>2. \A i \in Pool : quit[i] => i <= cur' /\ i < cur'
    BY <1>2, <1>4, <1>5, <2>1 DEF ThreadOK
  <2> QED BY <1>7, <2>1, <2>2 DEF Stopping
<1>16. CASE CloseAcceptor
  <2>1. UNCHANGED <<thread, loopPtr, quit, loops, cur>> /\ pc = "quit" /\ pc' = "done"
    BY <1>16 DEF CloseAcceptor, baseVars, threadVars
  <2> QED BY <1>2, <1>7, <2>1 DEF ThreadOK, Stopping
(* Steps that touch a thread. *)
<1>17. CASE CreateThread
  <2>1. /\ pc = "create" /\ pc' = "await" /\ cur <= numThreads
        /\ thread' = [thread EXCEPT ![cur] = "created"]
        /\ UNCHANGED <<loopPtr, quit, loops, cur, numThreads>>
    BY <1>17 DEF CreateThread, baseVars
  <2>2. cur \in Pool /\ cur = Len(loops) + 1
    <3>1. numThreads \in 0..MaxThreads /\ 1 <= cur /\ cur = Len(loops) + 1
      BY <1>1, <2>1 DEF PhaseInv, Starting
    <3> QED BY <1>5, <2>1, <3>1, BoundAssumption DEF Pool
  <2>3. At(cur, "none") BY <1>2, <1>5, <2>1, <2>2 DEF ThreadOK
  <2>4. ThreadTypes' BY <1>2, <2>1, <2>2 DEF ThreadTypes, ThreadStates
  <2>5. ASSUME NEW i \in Pool PROVE ThreadOK(i)'
    <3>1. ThreadOK(i) BY <1>2
    <3>2. CASE i = cur
      <4>1. thread'[i] = "created" /\ ~loopPtr[i]
        BY <1>2, <2>1, <2>2, <2>3, <3>1, <3>2 DEF ThreadTypes, ThreadOK, Alive, At
      <4>2. ~(i <= Len(loops)) /\ ~(cur < i) BY <1>5, <2>2, <3>2
      <4>3. ~quit[i] BY <2>1, <3>1 DEF ThreadOK, Stopping
      <4> QED BY <2>1, <4>1, <4>2, <4>3 DEF ThreadOK, Alive, At
    <3>3. CASE i # cur
      <4>1. thread'[i] = thread[i] BY <1>2, <2>1, <2>2, <3>3 DEF ThreadTypes
      <4>2. cur < i => cur <= i BY <1>4, <1>5
      <4>3. ~quit[i] BY <2>1, <3>1 DEF ThreadOK, Stopping
      <4> QED BY <2>1, <3>1, <4>1, <4>2, <4>3 DEF ThreadOK, Alive, At
    <3> QED BY <3>2, <3>3
  <2> QED BY <2>4, <2>5
<1>18. CASE AwaitLoop
  <2>1. UNCHANGED <<thread, loopPtr, quit>> /\ pc = "await"
    BY <1>18 DEF AwaitLoop, threadVars
  <2>2. CASE UNCHANGED <<loops, cur>> /\ pc' = "wait"
    BY <1>2, <1>7, <2>1, <2>2 DEF ThreadOK, Stopping
  <2>3. CASE loopPtr[cur] /\ loops' = Append(loops, cur) /\ cur' = cur + 1 /\ pc' = "create"
    <3>1. cur \in Pool /\ cur = Len(loops) + 1 BY <1>1, <1>5, <2>1 DEF PhaseInv, Starting
    <3>2. Len(loops') = Len(loops) + 1 BY <1>1, <2>3, <3>1, LoopFacts
    <3>3. thread[cur] \notin {"none", "created"} BY <1>2, <2>3, <3>1 DEF ThreadOK, Alive
    <3>4. ASSUME NEW i \in Pool PROVE ThreadOK(i)'
      <4>1. ThreadOK(i) /\ i \in Nat BY <1>2, <1>4
      <4>2. i <= Len(loops') => i <= Len(loops) \/ i = cur BY <1>5, <3>1, <3>2, <4>1
      <4>3. cur' <= i => cur < i BY <1>5, <2>3, <4>1
      <4>4. ~quit[i] BY <2>1, <4>1 DEF ThreadOK, Stopping
      <4> QED BY <2>1, <2>3, <3>3, <4>1, <4>2, <4>3, <4>4 DEF ThreadOK, Alive, At
    <3> QED BY <1>6, <2>1, <3>4
  <2> QED BY <1>18, <2>2, <2>3 DEF AwaitLoop
<1>19. CASE QuitLoop
  <2>1. /\ pc = "quit" /\ pc' = "wakeup" /\ cur \in 1..Len(loops)
        /\ quit' = [quit EXCEPT ![cur] = TRUE]
        /\ UNCHANGED <<thread, loopPtr, loops, cur>>
    <3>1. cur \in 1..Len(loops) BY <1>1, <1>5, <1>19 DEF QuitLoop, PhaseInv
    <3> QED BY <1>5, <1>19, <3>1 DEF QuitLoop, baseVars
  <2>2. cur \in Pool BY <1>1, <2>1, LoopFacts
  <2>3. quit'[cur] /\ \A i \in Pool : i # cur => quit'[i] = quit[i]
    BY <1>2, <2>1, <2>2 DEF ThreadTypes
  <2>4. ThreadTypes' BY <1>2, <2>1, <2>2 DEF ThreadTypes
  <2>5. ASSUME NEW i \in Pool PROVE ThreadOK(i)'
    <3>1. ThreadOK(i) /\ i \in Nat BY <1>2, <1>4
    <3>2. At(i, "ended")' => quit'[i] BY <2>1, <2>3, <3>1 DEF ThreadOK, At
    <3>3. quit'[i] => i <= cur
      BY <1>5, <2>1, <2>3, <3>1 DEF ThreadOK
    <3> QED BY <2>1, <3>1, <3>2, <3>3 DEF ThreadOK, Alive, At, Stopping
  <2> QED BY <2>4, <2>5
<1>20. CASE \E i \in Pool : ThreadStep(i) BY <1>1, <1>20, PoolThreadStep
<1> QED
  BY <1>1, <1>9, <1>10, <1>11, <1>12, <1>13, <1>14, <1>15, <1>16, <1>17, <1>18, <1>19, <1>20,
     NextCases

-----------------------------------------------------------------------------
(* Choosing a loop. *)

LEMMA LoadStep ==
    ASSUME ServerInv, [Next]_vars
    PROVE  LoadInv'
<1>1. PhaseInv /\ FdInv /\ LoadInv BY DEF ServerInv
<1>2. CASE UNCHANGED <<next, load>> /\ numThreads' = numThreads BY <1>1, <1>2 DEF LoadInv
<1>3. CASE \E n \in 0..MaxThreads : SetThreadNum(n)
  <2>1. pc = "new" /\ UNCHANGED <<next, load>> BY <1>3 DEF SetThreadNum, fdVars
  <2>2. next = 0 BY <1>1, <2>1 DEF PhaseInv
  <2> QED BY <1>1, <2>1, <2>2 DEF LoadInv
<1>4. CASE Accept
  <2>1. CASE UNCHANGED <<next, load>> BY <1>2, <1>4, <2>1 DEF Accept
  <2>2. CASE loops # <<>> /\ load' = Assigned(loops[next + 1]) /\ next' = NextIndex
    <3>1. /\ Len(loops) = numThreads /\ Len(loops) \in Nat /\ Len(loops) # 0
          /\ numThreads \in Nat /\ numThreads <= MaxThreads /\ MaxThreads \in Nat
          /\ \A i \in 1..Len(loops) : loops[i] = i
      <4>1. pc \in Serving BY <1>4 DEF Accept, Serving
      <4>2. loops = FirstLoops(Len(loops)) BY <1>1 DEF PhaseInv
      <4>3. Len(loops) = 0 => loops = <<>> BY <4>2 DEF FirstLoops
      <4> QED BY <1>1, <2>2, <4>1, <4>3, LoopFacts, BoundAssumption DEF PhaseInv
    <3>2. next \in Nat /\ next < numThreads BY <1>1, <3>1 DEF LoadInv
    <3>3. next + 1 \in 1..Len(loops) /\ next + 1 \in Pool /\ loops[next + 1] = next + 1
      <4>1. next + 1 \in 1..Len(loops) /\ next + 1 \in Pool BY <3>1, <3>2 DEF Pool
      <4> QED BY <3>1, <4>1
    <3> DEFINE l == [load EXCEPT ![next + 1] = @ + 1]
    <3>4. l = [i \in Pool |-> IF i <= next + 1 THEN 1 ELSE 0]
      <4>1. load = [i \in Pool |-> IF i <= next THEN 1 ELSE 0] BY <1>1 DEF LoadInv
      <4>2. \A i \in Pool : i \in Nat BY <3>1 DEF Pool
      <4>3. load[next + 1] = 0 BY <3>2, <3>3, <4>1
      <4>4. l = [i \in Pool |-> IF i = next + 1 THEN 1 ELSE load[i]] BY <4>1, <4>3
      <4>5. \A i \in Pool : (IF i = next + 1 THEN 1 ELSE load[i])
                            = (IF i <= next + 1 THEN 1 ELSE 0)
        BY <3>2, <4>1, <4>2
      <4> HIDE DEF l
      <4> QED BY <4>4, <4>5
    <3> DEFINE least == \A k \in 1..Len(loops) : l[loops[k]] > 0
    <3>5. load' = [j \in Pool |-> IF least /\ l[j] > 0 THEN l[j] - 1 ELSE l[j]]
      BY <2>2, <3>3 DEF Assigned
    <3>6. numThreads' = numThreads BY <1>4 DEF Accept
    <3> HIDE DEF l
    <3>7. CASE next + 1 >= numThreads
      <4>1. next' = 0 BY <2>2, <3>7 DEF NextIndex
      <4>2. \A k \in 1..Len(loops) : loops[k] = k /\ k \in Pool /\ k <= next + 1
        BY <3>1, <3>7, <3>2 DEF Pool
      <4>3. least BY <3>4, <4>2
      <4>4. \A j \in Pool : l[j] \in {0, 1} BY <3>4
      <4>5. load' = [j \in Pool |-> IF l[j] > 0 THEN l[j] - 1 ELSE l[j]] BY <3>5, <4>3, Zenon
      <4>6. \A j \in Pool : (IF l[j] > 0 THEN l[j] - 1 ELSE l[j]) = 0 BY <4>4
      <4>7. \A j \in Pool : (IF j <= 0 THEN 1 ELSE 0) = 0 BY <3>1 DEF Pool
      <4> QED BY <4>1, <4>5, <4>6, <4>7 DEF LoadInv
    <3>8. CASE ~(next + 1 >= numThreads)
      <4>1. next' = next + 1 /\ next' < numThreads BY <2>2, <3>1, <3>2, <3>8 DEF NextIndex
      <4>2. numThreads \in 1..Len(loops) /\ numThreads \in Pool /\ ~(numThreads <= next + 1)
        BY <3>1, <3>2, <3>8 DEF Pool
      <4>3. l[loops[numThreads]] = 0 BY <3>1, <3>4, <4>2
      <4>4. ~least BY <4>2, <4>3
      <4> HIDE DEF least
      <4>5. load' = [j \in Pool |-> l[j]] BY <3>5, <4>4, Zenon
      <4>6. load' = [i \in Pool |-> IF i <= next + 1 THEN 1 ELSE 0] BY <3>4, <4>5
      <4> QED BY <3>2, <3>6, <4>1, <4>6 DEF LoadInv
    <3> QED BY <3>7, <3>8
  <2> QED BY <1>4, <2>1, <2>2 DEF Accept, GetNextLoop
<1>5. CASE Start \/ CreateThread \/ AwaitLoop \/ WakeUp \/ SpuriousWakeUp \/ Listen
           \/ Destroy \/ QuitLoop \/ WakeupLoop \/ JoinThread \/ CloseAcceptor
  BY <1>2, <1>5 DEF Start, CreateThread, AwaitLoop, WakeUp, SpuriousWakeUp, Listen, Destroy,
     QuitLoop, WakeupLoop, JoinThread, CloseAcceptor, baseVars, fdVars
<1>6. CASE \E i \in Pool : ThreadStep(i)
  BY <1>2, <1>6 DEF ThreadStep, Publish, EnterLoop, Prepare, PollReturn, baseVars, fdVars
<1>7. CASE EmfileStep \/ OutsideStep \/ UNCHANGED vars
  BY <1>2, <1>7 DEF EmfileStep, OutsideStep, vars, baseVars, fdVars
<1> QED BY <1>1, <1>3, <1>4, <1>5, <1>6, <1>7, NextCases

-----------------------------------------------------------------------------
(* Descriptors and flags. *)

Spared(b) == IF b THEN 1 ELSE 0

LEMMA UsedFacts ==
    ASSUME FdInv
    PROVE  /\ conns \in Nat /\ others \in Nat /\ backlog \in Nat /\ spare \in BOOLEAN
           /\ MaxFds \in Nat /\ MaxBacklog \in Nat /\ backlog <= MaxBacklog
           /\ Used = conns + others + Spared(spare) /\ Used <= MaxFds /\ Used \in Nat
           /\ Spared(spare) \in {0, 1}
<1>1. Spared(spare) \in {0, 1} BY Zenon DEF Spared
<1>2. Used = conns + others + Spared(spare) BY DEF Used, Spared
<1>3. MaxFds \in Nat /\ MaxBacklog \in Nat BY BoundAssumption
<1>4. backlog \in Nat /\ backlog <= MaxBacklog BY <1>3 DEF FdInv
<1> QED BY <1>1, <1>2, <1>3, <1>4 DEF FdInv

LEMMA FdStep ==
    ASSUME ServerInv, [Next]_vars
    PROVE  FdInv'
<1>1. FdInv BY DEF ServerInv
<1>2. /\ conns \in Nat /\ others \in Nat /\ backlog \in Nat /\ spare \in BOOLEAN
      /\ MaxFds \in Nat /\ MaxBacklog \in Nat /\ backlog <= MaxBacklog
      /\ Used = conns + others + Spared(spare) /\ Used <= MaxFds /\ Used \in Nat
      /\ Spared(spare) \in {0, 1}
  BY <1>1, UsedFacts
<1>3. ASSUME conns' \in Nat, others' \in Nat, backlog' \in Nat, backlog' <= MaxBacklog,
             spare' \in BOOLEAN, conns' + others' + Spared(spare') <= MaxFds
      PROVE  FdInv'
  <2>1. backlog' \in 0..MaxBacklog BY <1>2, <1>3
  <2>2. Used' = conns' + others' + Spared(spare') BY DEF Used, Spared
  <2> QED BY <1>3, <2>1, <2>2 DEF FdInv
<1>4. CASE UNCHANGED <<backlog, conns, spare, others>>
  BY <1>2, <1>3, <1>4 DEF Spared
<1>5. CASE \/ \E n \in 0..MaxThreads : SetThreadNum(n)
           \/ Start \/ CreateThread \/ AwaitLoop \/ WakeUp \/ SpuriousWakeUp \/ Listen
           \/ Destroy \/ QuitLoop \/ WakeupLoop \/ JoinThread \/ UNCHANGED vars
  BY <1>4, <1>5 DEF SetThreadNum, Start, CreateThread, AwaitLoop, WakeUp, SpuriousWakeUp,
     Listen, Destroy, QuitLoop, WakeupLoop, JoinThread, fdVars, vars
<1>6. CASE CloseAcceptor
  <2>1. ~spare' /\ backlog' = 0 /\ UNCHANGED <<conns, others>> BY <1>6 DEF CloseAcceptor
  <2>2. spare' \in BOOLEAN BY <1>6 DEF CloseAcceptor
  <2>3. Spared(spare') = 0 BY <2>1 DEF Spared
  <2> QED BY <1>2, <1>3, <2>1, <2>2, <2>3
<1>7. CASE \E i \in Pool : ThreadStep(i)
  BY <1>4, <1>7 DEF ThreadStep, Publish, EnterLoop, Prepare, PollReturn, fdVars
<1>8. CASE Accept
  <2>1. /\ backlog > 0 /\ backlog' = backlog - 1 /\ Used < MaxFds
        /\ UNCHANGED <<spare, others>> /\ (conns' = conns \/ conns' = conns + 1)
    BY <1>8 DEF Accept, CanAccept
  <2>2. Spared(spare') = Spared(spare) BY <2>1
  <2>3. conns' + others' + Spared(spare') <= MaxFds /\ conns' \in Nat
    BY <1>2, <2>1, <2>2
  <2> QED BY <1>2, <1>3, <2>1, <2>3
<1>9. CASE EmfileStep
  <2>1. /\ UNCHANGED <<conns, others>>
        /\ (backlog' = backlog \/ (backlog > 0 /\ backlog' = backlog - 1))
    BY <1>9 DEF EmfileStep
  <2>2. spare' \in BOOLEAN /\ (spare' => Used < MaxFds \/ spare) BY <1>9 DEF EmfileStep
  <2>3. conns + others + Spared(spare') <= MaxFds
    <3>1. CASE spare' /\ Used < MaxFds
      <4>1. Spared(spare') = 1 BY <3>1 DEF Spared
      <4>2. Used < MaxFds BY <3>1
      <4>3. conns + others + 1 <= MaxFds BY <1>2, <4>2
      <4> QED BY <4>1, <4>3
    <3>2. CASE spare' /\ spare
      <4>1. Spared(spare') = 1 /\ Spared(spare) = 1 BY <3>2 DEF Spared
      <4> QED BY <1>2, <4>1
    <3>3. CASE ~spare'
      <4>1. Spared(spare') = 0 BY <3>3 DEF Spared
      <4> QED BY <1>2, <4>1
    <3> QED BY <2>2, <3>1, <3>2, <3>3
  <2> QED BY <1>2, <1>3, <2>1, <2>2, <2>3
<1>10. CASE OutsideStep
  <2>1. spare' = spare BY <1>10 DEF OutsideStep
  <2>2. CASE StartAgain BY <1>4, <2>2 DEF StartAgain
  <2>3. CASE PeerArrives
    <3>1. backlog' = backlog + 1 /\ backlog < MaxBacklog /\ UNCHANGED <<conns, others>>
      BY <2>3 DEF PeerArrives
    <3> QED BY <1>2, <1>3, <2>1, <3>1
  <2>4. CASE ConnectionEnds
    <3>1. conns' = conns - 1 /\ conns > 0 /\ UNCHANGED <<backlog, others>>
      BY <2>4 DEF ConnectionEnds
    <3>2. conns' \in Nat /\ conns' + others' + Spared(spare') <= MaxFds BY <1>2, <2>1, <3>1
    <3> QED BY <1>2, <1>3, <2>1, <3>1, <3>2
  <2>5. CASE OthersOpen
    <3>1. others' = others + 1 /\ Used < MaxFds /\ UNCHANGED <<backlog, conns>>
      BY <2>5 DEF OthersOpen
    <3>2. others' \in Nat /\ conns' + others' + Spared(spare') <= MaxFds BY <1>2, <2>1, <3>1
    <3> QED BY <1>2, <1>3, <2>1, <3>1, <3>2
  <2>6. CASE OthersClose
    <3>1. others' = others - 1 /\ others > 0 /\ UNCHANGED <<backlog, conns>>
      BY <2>6 DEF OthersClose
    <3>2. others' \in Nat /\ conns' + others' + Spared(spare') <= MaxFds BY <1>2, <2>1, <3>1
    <3> QED BY <1>2, <1>3, <2>1, <3>1, <3>2
  <2> QED BY <1>10, <2>2, <2>3, <2>4, <2>5, <2>6 DEF OutsideStep
<1> QED BY <1>1, <1>5, <1>6, <1>7, <1>8, <1>9, <1>10, NextCases

LEMMA FlagStep ==
    ASSUME ServerInv, [Next]_vars
    PROVE  FlagInv'
<1>1. FlagInv /\ FdInv /\ ThreadInv BY DEF ServerInv
<1>2. CASE UNCHANGED <<woken, signaled, listening, intruded>> BY <1>1, <1>2 DEF FlagInv
<1>3. CASE \/ \E n \in 0..MaxThreads : SetThreadNum(n)
           \/ Start \/ CreateThread \/ WakeUp \/ SpuriousWakeUp
           \/ Destroy \/ QuitLoop \/ JoinThread \/ Accept \/ EmfileStep \/ UNCHANGED vars
  BY <1>2, <1>3 DEF SetThreadNum, Start, CreateThread, WakeUp, SpuriousWakeUp, Destroy,
     QuitLoop, JoinThread, Accept, EmfileStep, baseVars, threadVars, fdVars, vars
<1>4. CASE AwaitLoop
  <2>1. signaled' \in BOOLEAN
    <3>1. CASE UNCHANGED signaled BY <1>1, <3>1 DEF FlagInv
    <3>2. CASE signaled' = FALSE BY <3>2
    <3> QED BY <1>4, <3>1, <3>2 DEF AwaitLoop
  <2> QED BY <1>1, <1>4, <2>1 DEF AwaitLoop, FlagInv, threadVars, fdVars
<1>5. CASE Listen
  <2>1. listening' \in BOOLEAN BY <1>5 DEF Listen
  <2> QED BY <1>1, <1>5, <2>1 DEF Listen, FlagInv, baseVars, threadVars
<1>6. CASE CloseAcceptor
  <2>1. listening' \in BOOLEAN BY <1>6 DEF CloseAcceptor
  <2> QED BY <1>1, <1>6, <2>1 DEF CloseAcceptor, FlagInv, baseVars, threadVars
<1>7. CASE WakeupLoop
  <2>1. woken' \in [Pool -> BOOLEAN] BY <1>1, <1>7 DEF WakeupLoop, FlagInv
  <2> QED BY <1>1, <1>7, <2>1 DEF WakeupLoop, FlagInv, baseVars, fdVars
<1>8. ASSUME NEW t \in Pool, ThreadStep(t) PROVE FlagInv'
  <2>1. CASE Publish(t)
    <3>1. signaled' = (signaled \/ pc = "wait") BY <2>1 DEF Publish
    <3>2. signaled' \in BOOLEAN BY <3>1, Zenon
    <3> QED BY <1>1, <2>1, <3>2 DEF Publish, FlagInv, fdVars
  <2>2. CASE PollReturn(t)
    <3>1. woken' \in [Pool -> BOOLEAN] BY <1>1, <2>2 DEF PollReturn, FlagInv
    <3> QED BY <1>1, <2>2, <3>1 DEF PollReturn, FlagInv, baseVars, fdVars
  <2>3. CASE EnterLoop(t) \/ Prepare(t)
    BY <1>2, <2>3 DEF EnterLoop, Prepare, baseVars, fdVars
  <2> QED BY <1>8, <2>1, <2>2, <2>3 DEF ThreadStep
<1>9. CASE OutsideStep
  <2>1. woken' = woken /\ signaled' = signaled BY <1>9 DEF OutsideStep, baseVars, threadVars
  <2>2. listening' \in BOOLEAN
    <3>1. CASE StartAgain BY <3>1 DEF StartAgain
    <3>2. CASE UNCHANGED listening BY <1>1, <3>2 DEF FlagInv
    <3> QED BY <1>9, <3>1, <3>2
            DEF OutsideStep, PeerArrives, ConnectionEnds, OthersOpen, OthersClose
  <2>3. intruded' \in BOOLEAN
    <3>1. CASE OthersOpen
      <4>1. intruded' = (intruded \/ pc \in EmfileSteps) BY <3>1 DEF OthersOpen
      <4> QED BY <4>1, Zenon
    <3>2. CASE UNCHANGED intruded BY <1>1, <3>2 DEF FlagInv
    <3> QED BY <1>9, <3>1, <3>2
            DEF OutsideStep, StartAgain, PeerArrives, ConnectionEnds, OthersClose
  <2> QED BY <1>1, <2>1, <2>2, <2>3 DEF FlagInv
<1> QED BY <1>1, <1>3, <1>4, <1>5, <1>6, <1>7, <1>8, <1>9, NextCases

-----------------------------------------------------------------------------
LEMMA ServerInit == Init => ServerInv
<1> SUFFICES ASSUME Init PROVE ServerInv OBVIOUS
<1>1. MaxThreads \in Nat /\ MaxFds \in Nat /\ MaxFds >= 1 /\ MaxBacklog \in Nat
  BY BoundAssumption
<1>2. loops = <<>> /\ Len(loops) = 0 /\ loops = FirstLoops(Len(loops))
  BY DEF Init, FirstLoops
<1>3. PhaseInv
  BY <1>1, <1>2 DEF Init, PhaseInv, Starting, Serving, Stopping, EmfileSteps
<1>4. \A i \in Pool : i \in Nat /\ 1 <= i BY <1>1 DEF Pool
<1>5. ThreadTypes BY DEF Init, ThreadTypes, ThreadStates
<1>6. \A i \in Pool : ThreadOK(i) BY <1>2, <1>4 DEF Init, ThreadOK, Alive, At
<1>7. ThreadInv BY <1>3, <1>5, <1>6, ThreadInvParts
<1>8. LoadInv
  <2>1. \A i \in Pool : (IF i <= 0 THEN 1 ELSE 0) = 0 BY <1>4
  <2> QED BY <2>1 DEF Init, LoadInv
<1>9. FdInv BY <1>1 DEF Init, FdInv, Used
<1>10. FlagInv BY DEF Init, FlagInv
<1> QED BY <1>3, <1>7, <1>8, <1>9, <1>10 DEF ServerInv

LEMMA ServerStep == ServerInv /\ [Next]_vars => ServerInv'
  BY PhaseStep, ThreadInvStep, LoadStep, FdStep, FlagStep DEF ServerInv

LEMMA ServerInvHolds == Spec => []ServerInv
  BY ServerInit, ServerStep, PTL DEF Spec

LEMMA ServerType == ServerInv => TypeOK
<1> SUFFICES ASSUME ServerInv PROVE TypeOK OBVIOUS
<1>1. PhaseInv /\ ThreadInv /\ LoadInv /\ FdInv /\ FlagInv BY DEF ServerInv
<1>2. /\ Len(loops) \in Nat /\ Len(loops) <= numThreads /\ numThreads \in 0..MaxThreads
      /\ MaxThreads \in Nat /\ loops = FirstLoops(Len(loops))
      /\ cur \in Nat /\ 1 <= cur /\ cur <= Len(loops) + 1
  BY <1>1, BoundAssumption DEF PhaseInv
<1>3. loops \in {[i \in 1..n |-> i] : n \in 0..MaxThreads}
  <2>1. Len(loops) \in 0..MaxThreads BY <1>2
  <2> QED BY <1>2, <2>1, Zenon DEF FirstLoops
<1>4. cur \in 1..(MaxThreads + 1) BY <1>2
<1>5. next \in 0..MaxThreads /\ (next = 0 \/ next < numThreads) BY <1>1, <1>2 DEF LoadInv
<1>6. load \in [Pool -> 0..1]
  <2>1. \A i \in Pool : (IF i <= next THEN 1 ELSE 0) \in 0..1 OBVIOUS
  <2> QED BY <1>1, <2>1 DEF LoadInv
<1>7. pc \in {"new", "create", "await", "wait", "serve", "quit", "wakeup", "join", "done"}
             \cup EmfileSteps
  BY <1>1 DEF PhaseInv, Starting, Serving, Stopping
<1>8. /\ conns \in 0..MaxFds /\ others \in 0..MaxFds
      /\ conns + others + (IF spare THEN 1 ELSE 0) <= MaxFds
  <2>1. /\ conns \in Nat /\ others \in Nat /\ MaxFds \in Nat
        /\ conns + others + Spared(spare) <= MaxFds /\ Spared(spare) \in {0, 1}
    BY <1>1, UsedFacts
  <2> QED BY <2>1 DEF Spared
<1> QED BY <1>1, <1>2, <1>3, <1>4, <1>5, <1>6, <1>7, <1>8
        DEF TypeOK, ThreadInv, ThreadStates, FlagInv, FdInv

(* The pool never has a loop out of order or one too many, no more          *)
(* descriptors are held than the process may have, and getNextLoop() deals  *)
(* out connections evenly: no loop ever gets two more than another, for any *)
(* number of threads.                                                       *)
THEOREM TypeCorrect == Spec => []TypeOK
  BY ServerInvHolds, ServerType, PTL

LEMMA ServerAlive == ServerInv => LoopsAlive
<1> SUFFICES ASSUME ServerInv PROVE LoopsAlive OBVIOUS
<1>1. PhaseInv /\ ThreadInv BY DEF ServerInv
<1>2. ThreadTypes /\ \A i \in Pool : ThreadOK(i) BY <1>1, ThreadInvParts
<1>3. /\ Len(loops) \in Nat /\ cur \in Nat /\ \A i \in 1..Len(loops) : loops[i] = i /\ i \in Pool
      /\ \A i \in 1..Len(loops) : i <= Len(loops) /\ i \in Nat
  BY <1>1, LoopFacts
<1>4. ASSUME NEW i \in 1..Len(loops), ~quit[i] PROVE Alive(i) /\ loopPtr[i]
  <2>1. i \in Pool /\ ThreadOK(i) /\ i <= Len(loops) BY <1>2, <1>3
  <2> QED BY <1>2, <1>4, <2>1 DEF ThreadTypes, ThreadOK, ThreadStates, Alive, At
<1>5. CASE pc = "serve"
  <2>1. \A i \in 1..Len(loops) : ~quit[i] BY <1>2, <1>3, <1>5 DEF ThreadOK, Stopping
  <2> QED BY <1>3, <1>4, <1>5, <2>1 DEF LoopsAlive
<1>6. CASE pc = "quit"
  <2>1. ASSUME cur <= Len(loops) PROVE Alive(cur) /\ loopPtr[cur] /\ loops[cur] = cur
    <3>1. cur \in 1..Len(loops) BY <1>1, <1>3, <2>1 DEF PhaseInv
    <3>2. ~quit[cur] BY <1>2, <1>3, <1>6, <3>1 DEF ThreadOK
    <3> QED BY <1>3, <1>4, <3>1, <3>2
  <2> QED BY <1>6, <2>1 DEF LoopsAlive
<1> QED BY <1>5, <1>6 DEF LoopsAlive

(* Every loop that getNextLoop() may choose, and the one that the           *)
(* destructor is about to quit, is a live EventLoop that has not been       *)
(* destroyed by its thread, however many threads the pool has.              *)
THEOREM LoopsStayAlive == Spec => []LoopsAlive
  BY ServerInvHolds, ServerAlive, PTL
=============================================================================

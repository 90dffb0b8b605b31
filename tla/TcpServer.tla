----------------------------- MODULE TcpServer -----------------------------
(***************************************************************************)
(* net/TcpServer.cc, net/Acceptor.cc, net/EventLoopThreadPool.cc,          *)
(* net/EventLoopThread.cc and base/Thread.cc: starting a server with its   *)
(* pool of loop threads, accepting connections with a limited number of    *)
(* file descriptors, choosing a loop for each, and destroying the server.  *)
(*                                                                         *)
(* start(), the acceptor and the destructor run in the base loop's thread. *)
(* What becomes of an accepted connection is TcpConnection.tla; here it    *)
(* holds a descriptor until it ends.  A pool loop is its contract: it      *)
(* tests quit_ before it polls and polls until it is woken (EventLoop.tla).*)
(***************************************************************************)
EXTENDS Naturals, Sequences, FiniteSets

CONSTANTS
    MaxThreads,      \* bound: setThreadNum()
    MaxFds,          \* descriptors the process may hold, besides fixed ones
    MaxBacklog       \* bound: peers waiting in the listen queue

ASSUME BoundAssumption ==
    MaxThreads \in Nat /\ MaxFds \in Nat \ {0} /\ MaxBacklog \in Nat \ {0}

VARIABLES
    pc,            \* where the base thread is
    numThreads,    \* numThreads_
    loops,         \* loops_
    next,          \* next_ (from 0)
    cur,           \* the thread that start() or the destructor works on
    thread,        \* per pool thread: where it is
    loopPtr,       \* per pool thread: is EventLoopThread::loop_ not NULL?
    signaled,      \* has cond_ been notified since the base thread waits?
    quit,          \* per pool loop: quit_
    woken,         \* per pool loop: is its eventfd readable?
    listening,     \* does the acceptor watch a listening socket?
    backlog,       \* kernel: peers not accepted yet
    conns,         \* descriptors held by connections
    spare,         \* is idleFd_ an open descriptor?
    others,        \* descriptors held by the rest of the process
    intruded,      \* history: did the rest open one while the spare was given up?
    load           \* history: connections each loop got, beyond the least

baseVars == <<numThreads, loops, next, cur, signaled>>
threadVars == <<thread, loopPtr, quit, woken>>
fdVars == <<listening, backlog, conns, spare, others, intruded, load>>
vars == <<pc, baseVars, threadVars, fdVars>>

Pool == 1..MaxThreads
EmfileSteps == {"closeSpare", "acceptSpare", "closeAccepted", "openSpare"}

TypeOK ==
    /\ pc \in {"new", "create", "await", "wait", "serve", "quit", "wakeup", "join",
               "done"} \cup EmfileSteps
    /\ numThreads \in 0..MaxThreads
    /\ loops \in {[i \in 1..n |-> i] : n \in 0..MaxThreads}
    /\ next \in 0..MaxThreads /\ (next = 0 \/ next < numThreads)
    /\ cur \in 1..(MaxThreads + 1)
    /\ thread \in [Pool -> {"none", "created", "published", "prepare", "poll", "ended"}]
    /\ loopPtr \in [Pool -> BOOLEAN]
    /\ quit \in [Pool -> BOOLEAN] /\ woken \in [Pool -> BOOLEAN]
    /\ signaled \in BOOLEAN /\ listening \in BOOLEAN
    /\ spare \in BOOLEAN /\ intruded \in BOOLEAN
    /\ backlog \in 0..MaxBacklog
    /\ conns \in 0..MaxFds /\ others \in 0..MaxFds
    /\ conns + others + (IF spare THEN 1 ELSE 0) <= MaxFds
    /\ load \in [Pool -> 0..1]    \* round robin: no loop is two connections ahead

Init ==
    /\ pc = "new"
    /\ numThreads = 0 /\ loops = <<>> /\ next = 0 /\ cur = 1
    /\ thread = [i \in Pool |-> "none"]
    /\ loopPtr = [i \in Pool |-> FALSE]
    /\ signaled = FALSE
    /\ quit = [i \in Pool |-> FALSE] /\ woken = [i \in Pool |-> FALSE]
    /\ listening = FALSE /\ backlog = 0 /\ conns = 0
    /\ spare = TRUE /\ others = 0 /\ intruded = FALSE
    /\ load = [i \in Pool |-> 0]

Used == conns + others + (IF spare THEN 1 ELSE 0)

-----------------------------------------------------------------------------
(* Starting. *)

SetThreadNum(n) ==
    /\ pc = "new"
    /\ numThreads' = n
    /\ UNCHANGED <<pc, loops, next, cur, signaled, threadVars, fdVars>>

(* TcpServer::start() up to EventLoopThreadPool::start(). *)
Start ==
    /\ pc = "new"
    /\ pc' = "create"
    /\ UNCHANGED <<baseVars, threadVars, fdVars>>

(* new EventLoopThread and Thread::start() *)
CreateThread ==
    /\ pc = "create" /\ cur <= numThreads
    /\ thread' = [thread EXCEPT ![cur] = "created"]
    /\ pc' = "await"
    /\ UNCHANGED <<baseVars, loopPtr, quit, woken, fdVars>>

(* Mutant: startLoop() does not wait for the thread. *)
AwaitLoopNot ==
    /\ pc = "await"
    /\ loops' = Append(loops, cur)
    /\ cur' = cur + 1
    /\ pc' = "create"
    /\ UNCHANGED <<numThreads, next, signaled, threadVars, fdVars>>

(* startLoop(): under the mutex, wait on cond_ while loop_ is NULL. *)
AwaitLoop ==
    /\ pc = "await"
    /\ \/ /\ loopPtr[cur]
          /\ loops' = Append(loops, cur)
          /\ cur' = cur + 1
          /\ pc' = "create"
          /\ UNCHANGED signaled
       \/ /\ ~loopPtr[cur]
          /\ pc' = "wait"
          /\ signaled' = FALSE
          /\ UNCHANGED <<loops, cur>>
    /\ UNCHANGED <<numThreads, next, threadVars, fdVars>>

WakeUp ==
    /\ pc = "wait" /\ signaled
    /\ pc' = "await"
    /\ UNCHANGED <<baseVars, threadVars, fdVars>>

SpuriousWakeUp ==
    /\ pc = "wait" /\ ~signaled
    /\ pc' = "await"
    /\ UNCHANGED <<baseVars, threadVars, fdVars>>

(* The end of TcpServer::start(): Acceptor::listen() in the loop thread. *)
Listen ==
    /\ pc = "create" /\ cur > numThreads
    /\ listening' = TRUE
    /\ pc' = "serve"
    /\ UNCHANGED <<baseVars, threadVars, backlog, conns, spare, others, intruded, load>>

(* start() again: the pool is started, and listening_ is never set, so     *)
(* that listen() runs again.                                               *)
StartAgain ==
    /\ pc = "serve"
    /\ listening' = TRUE
    /\ UNCHANGED <<pc, baseVars, threadVars, backlog, conns, spare, others, intruded, load>>

-----------------------------------------------------------------------------
(* A pool thread: EventLoopThread::threadFunc(). *)

At(i, p) == thread[i] = p
Goto(i, p) == thread' = [thread EXCEPT ![i] = p]

(* Mutant: loop_ is set and nobody is told. *)
PublishSilently(i) ==
    /\ At(i, "created") /\ Goto(i, "published")
    /\ loopPtr' = [loopPtr EXCEPT ![i] = TRUE]
    /\ UNCHANGED <<pc, baseVars, quit, woken, fdVars>>

(* The EventLoop is constructed; loop_ is set and cond_ notified under the *)
(* mutex.                                                                  *)
Publish(i) ==
    /\ At(i, "created") /\ Goto(i, "published")
    /\ loopPtr' = [loopPtr EXCEPT ![i] = TRUE]
    /\ signaled' = (signaled \/ pc = "wait")
    /\ UNCHANGED <<pc, numThreads, loops, next, cur, quit, woken, fdVars>>

(* Mutant: loop() begins with quit_ = false. *)
EnterLoopResets(i) ==
    /\ At(i, "published") /\ Goto(i, "prepare")
    /\ quit' = [quit EXCEPT ![i] = FALSE]
    /\ UNCHANGED <<pc, baseVars, loopPtr, woken, fdVars>>

EnterLoop(i) ==
    /\ At(i, "published") /\ Goto(i, "prepare")
    /\ UNCHANGED <<pc, baseVars, loopPtr, quit, woken, fdVars>>

(* startThread() and runInThread() return, and the thread may be joined. *)
EndThread(i) == Goto(i, "ended")

(* loop() has returned: loop_ is cleared and the EventLoop destroyed. *)
ThreadFuncReturns(i) ==
    /\ loopPtr' = [loopPtr EXCEPT ![i] = FALSE]
    /\ EndThread(i)

(* prepareCallBack(): poll, or break out of loop(). *)
Prepare(i) ==
    /\ At(i, "prepare")
    /\ \/ ~quit[i] /\ Goto(i, "poll") /\ UNCHANGED loopPtr
       \/ quit[i] /\ ThreadFuncReturns(i)
    /\ UNCHANGED <<pc, baseVars, quit, woken, fdVars>>

PollReturn(i) ==
    /\ At(i, "poll") /\ woken[i] /\ Goto(i, "prepare")
    /\ woken' = [woken EXCEPT ![i] = FALSE]
    /\ UNCHANGED <<pc, baseVars, loopPtr, quit, fdVars>>

-----------------------------------------------------------------------------
(* Accepting. *)

(* Mutant: next_ starts over at the second loop. *)
NextIndexSkips == IF next + 1 >= numThreads THEN (IF numThreads > 1 THEN 1 ELSE 0)
                  ELSE next + 1

(* ++next_, and over at numThreads_ *)
NextIndex == IF next + 1 >= numThreads THEN 0 ELSE next + 1

(* One more connection for loop i, counted beyond the least loaded loop. *)
Assigned(i) ==
    LET l == [load EXCEPT ![i] = @ + 1]
        least == \A k \in 1..Len(loops) : l[loops[k]] > 0
    IN  [j \in Pool |-> IF least /\ l[j] > 0 THEN l[j] - 1 ELSE l[j]]

(* getNextLoop() *)
GetNextLoop ==
    \/ loops = <<>> /\ UNCHANGED <<next, load>>      \* the base loop
    \/ /\ loops # <<>>
       /\ load' = Assigned(loops[next + 1])
       /\ next' = NextIndex

(* sockets::accept(): without a free descriptor it fails with EMFILE, which*)
(* the acceptor gets to see; errors it calls unexpected end the process.   *)
CanAccept == Used < MaxFds

(* handleRead() and newConnection(), with a descriptor to spare; the peer  *)
(* may have gone (ECONNABORTED), or poll(2) may fail for the new socket,   *)
(* which is then closed.                                                   *)
Accept ==
    /\ pc = "serve" /\ backlog > 0 /\ CanAccept
    /\ backlog' = backlog - 1
    /\ \/ conns' = conns + 1 /\ GetNextLoop
       \/ UNCHANGED <<conns, next, load>>
    /\ UNCHANGED <<pc, numThreads, loops, cur, signaled, threadVars, listening, spare,
                   others, intruded>>

(* Mutant: EMFILE is ignored. *)
AcceptFailsIgnored ==
    /\ pc = "serve" /\ backlog > 0 /\ ~CanAccept
    /\ UNCHANGED vars

(* EMFILE *)
AcceptFails ==
    /\ pc = "serve" /\ backlog > 0 /\ ~CanAccept
    /\ pc' = "closeSpare"
    /\ UNCHANGED <<baseVars, threadVars, fdVars>>

(* close(idleFd_), of a descriptor or of -1 *)
CloseSpare ==
    /\ pc = "closeSpare"
    /\ spare' = FALSE
    /\ pc' = "acceptSpare"
    /\ UNCHANGED <<baseVars, threadVars, listening, backlog, conns, others, intruded, load>>

(* idleFd_ = accept(...), which may fail *)
AcceptSpare ==
    /\ pc = "acceptSpare"
    /\ \/ /\ Used < MaxFds /\ backlog > 0
          /\ backlog' = backlog - 1
          /\ spare' = TRUE
       \/ ~(Used < MaxFds /\ backlog > 0) /\ UNCHANGED <<backlog, spare>>
    /\ pc' = "closeAccepted"
    /\ UNCHANGED <<baseVars, threadVars, listening, conns, others, intruded, load>>

CloseAccepted ==
    /\ pc = "closeAccepted"
    /\ spare' = FALSE
    /\ pc' = "openSpare"
    /\ UNCHANGED <<baseVars, threadVars, listening, backlog, conns, others, intruded, load>>

(* idleFd_ = open("/dev/null"), which may fail *)
OpenSpare ==
    /\ pc = "openSpare"
    /\ spare' = (Used < MaxFds)
    /\ pc' = "serve"
    /\ UNCHANGED <<baseVars, threadVars, listening, backlog, conns, others, intruded, load>>

-----------------------------------------------------------------------------
(* ~TcpServer() in the base loop's thread, without connections: ~EventLoopThread()
   of each thread, then ~Acceptor(). *)
Destroy ==
    /\ pc \in {"new", "serve"} /\ conns = 0
    /\ pc' = "quit"
    /\ cur' = 1
    /\ UNCHANGED <<numThreads, loops, next, signaled, threadVars, fdVars>>

(* loop_->quit(), whose write to the eventfd is a step of its own *)
QuitLoop ==
    /\ pc = "quit" /\ cur <= Len(loops)
    /\ loopPtr[loops[cur]]
    /\ quit' = [quit EXCEPT ![loops[cur]] = TRUE]
    /\ pc' = "wakeup"
    /\ UNCHANGED <<baseVars, thread, loopPtr, woken, fdVars>>

(* The loop may have seen quit_ before this write, and its thread returned *)
(* and destroyed it: the code then writes to a dead object's descriptor,   *)
(* here it wakes up nobody.                                                *)
WakeupLoop ==
    /\ pc = "wakeup"
    /\ woken' = [woken EXCEPT ![loops[cur]] = TRUE]
    /\ pc' = "join"
    /\ UNCHANGED <<baseVars, thread, loopPtr, quit, fdVars>>

JoinThread ==
    /\ pc = "join"
    /\ thread[loops[cur]] = "ended"
    /\ cur' = cur + 1
    /\ pc' = "quit"
    /\ UNCHANGED <<numThreads, loops, next, signaled, threadVars, fdVars>>

CloseAcceptor ==
    /\ pc = "quit" /\ cur > Len(loops)
    /\ listening' = FALSE /\ spare' = FALSE /\ backlog' = 0
    /\ pc' = "done"
    /\ UNCHANGED <<baseVars, threadVars, conns, others, intruded, load>>

-----------------------------------------------------------------------------
(* Peers, connections and the rest of the process. *)
PeerArrives ==
    /\ listening /\ backlog < MaxBacklog
    /\ backlog' = backlog + 1
    /\ UNCHANGED <<pc, baseVars, threadVars, listening, conns, spare, others, intruded, load>>

ConnectionEnds ==
    /\ conns > 0
    /\ conns' = conns - 1
    /\ UNCHANGED <<pc, baseVars, threadVars, listening, backlog, spare, others, intruded, load>>

OthersOpen ==
    /\ Used < MaxFds
    /\ others' = others + 1
    /\ intruded' = (intruded \/ pc \in EmfileSteps)
    /\ UNCHANGED <<pc, baseVars, threadVars, listening, backlog, conns, spare, load>>

OthersClose ==
    /\ others > 0
    /\ others' = others - 1
    /\ UNCHANGED <<pc, baseVars, threadVars, listening, backlog, conns, spare, intruded, load>>

-----------------------------------------------------------------------------
BaseStep ==
    \/ CreateThread \/ AwaitLoop \/ WakeUp \/ Listen
    \/ Accept \/ AcceptFails \/ CloseSpare \/ AcceptSpare \/ CloseAccepted \/ OpenSpare
    \/ QuitLoop \/ WakeupLoop \/ JoinThread \/ CloseAcceptor

ThreadStep(i) == Publish(i) \/ EnterLoop(i) \/ Prepare(i) \/ PollReturn(i)

Next ==
    \/ \E n \in 0..MaxThreads : SetThreadNum(n)
    \/ Start \/ StartAgain \/ Destroy \/ SpuriousWakeUp
    \/ BaseStep
    \/ \E i \in Pool : ThreadStep(i)
    \/ PeerArrives \/ ConnectionEnds \/ OthersOpen \/ OthersClose

(* Every thread that can run is scheduled; the user, the peers and the     *)
(* rest of the process owe nothing.                                        *)
Spec == /\ Init /\ [][Next]_vars
        /\ WF_vars(BaseStep)
        /\ \A i \in Pool : WF_vars(ThreadStep(i))

-----------------------------------------------------------------------------
(* Properties. *)

Alive(i) == thread[i] \in {"published", "prepare", "poll"}

(* A loop that getNextLoop() may choose, or that the destructor is about   *)
(* to quit, is a live EventLoop: startLoop() returned it only after its    *)
(* thread had constructed it.                                              *)
LoopsAlive ==
    /\ pc = "serve" => \A k \in 1..Len(loops) : Alive(loops[k])
    /\ pc = "quit" /\ cur <= Len(loops) => Alive(loops[cur]) /\ loopPtr[loops[cur]]

(* start() returns, as no wakeup of startLoop() is lost, whichever of the  *)
(* two threads is first; and so does the destructor: every pool thread     *)
(* obeys its quit(), also when it has not entered loop() yet, and is       *)
(* joined.                                                                 *)
StartAndJoinReturn ==
    /\ pc = "create" ~> pc = "serve"
    /\ pc = "quit" ~> pc = "done"

(* A peer never waits for ever because the process is out of descriptors:  *)
(* it is accepted or refused, unless the spare descriptor was stolen.      *)
BacklogServed ==
    pc = "serve" /\ backlog = MaxBacklog ~> backlog < MaxBacklog \/ intruded
=============================================================================

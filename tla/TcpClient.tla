----------------------------- MODULE TcpClient -----------------------------
(***************************************************************************)
(* net/Connector.{h,cc} and net/TcpClient.{h,cc}: a client that connects,  *)
(* retries with a growing delay, reconnects, and is stopped or destroyed   *)
(* while it does so.                                                       *)
(*                                                                         *)
(* The loop is taken at its contract: one batch of functors, then poll,    *)
(* then the handlers of what poll found ready (EventLoop.tla); timers are  *)
(* canceled by id (TimerQueue.tla); an established connection is up until  *)
(* handleClose() and is destroyed by connectDestroyed()                    *)
(* (TcpConnection.tla).  Calls by other threads are one step per shared    *)
(* variable they touch; connect_ of both classes is written without a lock.*)
(***************************************************************************)
EXTENDS Naturals, Sequences, FiniteSets, FiniteSetsExt

CONSTANTS
    User,                \* threads other than the loop's
    Fd,                  \* file descriptors, numbers from 1 on; the process
                         \* ends when it needs one and all are open
    TimerIds,            \* bound: identities of retry timers, numbers from 1 on
    kInitRetryDelay,
    kMaxRetryDelay,
    MaxConnects,         \* bound: calls of connect()
    MaxQueue             \* bound: functors waiting in the loop

ASSUME FdAssumption == Fd \subseteq Nat \ {0} /\ TimerIds \subseteq Nat \ {0}
ASSUME DelayAssumption ==
    /\ kInitRetryDelay \in Nat \ {0} /\ kMaxRetryDelay \in Nat
    /\ kInitRetryDelay <= kMaxRetryDelay
ASSUME BoundAssumption == MaxConnects \in Nat /\ MaxQueue \in Nat

VARIABLES
    pc,                \* the loop's phase
    queue,             \* functors waiting in the loop
    todo,              \* how many of them the current batch still runs
    ready,             \* descriptors poll reported, not handled yet
    timers,            \* started timers
    due,               \* timers found expired, callback not called yet
    fresh,             \* timers started by the current batch
    state,             \* Connector::state_
    connectorConnect,  \* Connector::connect_
    channel,           \* Connector::channel_
    retryDelay,        \* Connector::retryDelayMs_
    timerId,           \* Connector::timerId_
    clientConnect,     \* TcpClient::connect_
    retry,             \* TcpClient::retry_
    connection,        \* TcpClient::connection_: its descriptor, or NoFd
    destroyed,         \* has ~TcpClient() run?
    conns,             \* the TcpConnection on each descriptor
    closeCallback,     \* whose removeConnection() a closing connection calls
    open,              \* kernel: open sockets
    call,              \* per thread: the next step of its call
    connects,          \* history: calls of connect()
    stopped,           \* history: has stop(), disconnect() or ~TcpClient() begun?
    lastIsStop,        \* history: did a stop() begin after every connect() ended?
    gaveUp,            \* history: connect(2) failed for good
    stale              \* history: was a destroyed client called back?

loopVars == <<pc, queue, todo, ready, due>>
attemptVars == <<state, channel, retryDelay, timerId, timers, fresh, open, gaveUp>>
clientVars == <<clientConnect, retry, connection, destroyed, conns, closeCallback>>
historyVars == <<connects, stopped, lastIsStop, stale>>
vars == <<loopVars, attemptVars, connectorConnect, clientVars, call, historyVars>>

NoFd == 0
NoTimer == 0
NoChannel == [fd |-> NoFd, active |-> FALSE]

Task(op) == [op |-> op, arg |-> 0]
CancelTask(id) == [op |-> "cancelInLoop", arg |-> id]
DestroyTask(fd) == [op |-> "connectDestroyed", arg |-> fd]
Tasks == {Task(op) : op \in {"startInLoop", "stopInLoop", "resetChannel"}}
         \cup {CancelTask(id) : id \in TimerIds \cup {NoTimer}}
         \cup {DestroyTask(fd) : fd \in Fd}

TypeOK ==
    /\ pc \in {"functors", "events", "restart", "startInFunctors", "startInEvents"}
    /\ queue \in Seq(Tasks)
    /\ todo \in 0..Len(queue)
    /\ ready \subseteq Fd /\ open \subseteq Fd
    /\ due \subseteq TimerIds /\ timers \subseteq TimerIds /\ fresh \subseteq timers
    /\ state \in {"kDisconnected", "kConnecting", "kConnected"}
    /\ channel \in [fd : Fd, active : BOOLEAN] \cup {NoChannel}
    /\ retryDelay \in kInitRetryDelay..kMaxRetryDelay
    /\ timerId \in TimerIds \cup {NoTimer}
    /\ connection \in Fd \cup {NoFd}
    /\ conns \in [Fd -> {"none", "up", "closing"}]
    /\ closeCallback \in {"client", "detail"}
    /\ call \in [User -> {"out", "startSet", "startQueue", "stopSet", "stopQueue",
                          "stopCancel"}]
    /\ connects \in 0..MaxConnects
    /\ connectorConnect \in BOOLEAN /\ clientConnect \in BOOLEAN /\ retry \in BOOLEAN
    /\ destroyed \in BOOLEAN /\ stopped \in BOOLEAN /\ lastIsStop \in BOOLEAN
    /\ gaveUp \in BOOLEAN /\ stale \in BOOLEAN

-----------------------------------------------------------------------------
Init ==
    /\ pc = "functors" /\ queue = <<>> /\ todo = 0 /\ ready = {} /\ due = {}
    /\ timers = {} /\ fresh = {}
    /\ state = "kDisconnected"
    /\ connectorConnect = FALSE
    /\ channel = NoChannel
    /\ retryDelay = kInitRetryDelay
    /\ timerId = NoTimer
    /\ clientConnect = TRUE
    /\ retry \in BOOLEAN            \* enableRetry() before connect(), or not
    /\ connection = NoFd
    /\ destroyed = FALSE
    /\ conns = [fd \in Fd |-> "none"]
    /\ closeCallback = "client"
    /\ open = {}
    /\ call = [t \in User |-> "out"]
    /\ connects = 0 /\ stopped = FALSE /\ lastIsStop = FALSE
    /\ gaveUp = FALSE /\ stale = FALSE

(* The loop runs a batch of functors; it is in a call of startInLoop() by  *)
(* restart() or by connect().                                              *)
InBatch == pc \in {"functors", "startInFunctors"}
AtStart == pc \in {"startInFunctors", "startInEvents"}

Push(q, task) == Append(q, task)
Room == Len(queue) < MaxQueue

(* User code in the loop thread: another functor or another channel's      *)
(* callback.                                                               *)
InLoopThread == pc \in {"functors", "events"} /\ ~destroyed

NobodyConnects == \A t \in User : call[t] \notin {"startSet", "startQueue"}
Quiet == \A t \in User : call[t] = "out"

UnusedTimers ==
    {id \in TimerIds : /\ id \notin timers \cup due \cup {timerId}
                       /\ \A i \in 1..Len(queue) : queue[i] # CancelTask(id)}
NewTimer == Min(UnusedTimers)
NewFd == Min(Fd \ open)

-----------------------------------------------------------------------------
(* Connector. *)

(* Mutant: the delay is doubled without a limit. *)
RetryUnlimited(connect, delay) ==
    /\ state' = "kDisconnected"
    /\ \/ /\ connect /\ UnusedTimers # {}
          /\ timerId' = NewTimer
          /\ timers' = timers \cup {NewTimer}
          /\ fresh' = IF InBatch THEN fresh \cup {NewTimer} ELSE fresh
          /\ retryDelay' = 2 * delay
       \/ ~connect /\ retryDelay' = delay /\ UNCHANGED <<timerId, timers, fresh>>

(* retry(): with connect_, try again after the delay. *)
Retry(connect, delay) ==
    /\ state' = "kDisconnected"
    /\ \/ /\ connect /\ UnusedTimers # {}
          /\ timerId' = NewTimer
          /\ timers' = timers \cup {NewTimer}
          /\ fresh' = IF InBatch THEN fresh \cup {NewTimer} ELSE fresh
          /\ retryDelay' = Min({2 * delay, kMaxRetryDelay})
       \/ ~connect /\ retryDelay' = delay /\ UNCHANGED <<timerId, timers, fresh>>

(* connect(2) is in progress, fails for now, or fails for good; in the     *)
(* first case connecting() replaces channel_.  retry() reads connect_ once *)
(* more after startInLoop() has: a stop() that clears it in between leaves *)
(* what one before both reads leaves, kDisconnected and no timer, so that  *)
(* one read stands for the two.                                            *)
Connect(delay) ==
    /\ Fd \ open # {}
    /\ \/ /\ state' = "kConnecting"
          /\ channel' = [fd |-> NewFd, active |-> TRUE]
          /\ open' = open \cup {NewFd}
          /\ retryDelay' = delay
          /\ UNCHANGED <<timerId, timers, fresh, gaveUp>>
       \/ Retry(TRUE, delay) /\ UNCHANGED <<channel, open, gaveUp>>
       \/ /\ gaveUp' = TRUE
          /\ state' = "kDisconnected"
          /\ retryDelay' = delay
          /\ UNCHANGED <<channel, open, timerId, timers, fresh>>

StartInLoop ==
    \/ connectorConnect /\ Connect(retryDelay)
    \/ ~connectorConnect /\ UNCHANGED attemptVars

(* removeAndResetChannel(): the watcher is stopped at once, the channel is *)
(* deleted by a functor of the next batch.                                 *)
RemoveAndResetChannel(queue0) ==
    /\ channel' = [channel EXCEPT !.active = FALSE]
    /\ ready' = ready \ {channel.fd}
    /\ queue' = Push(queue0, Task("resetChannel"))

-----------------------------------------------------------------------------
(* The loop runs a functor. *)

AtHead(op) == pc = "functors" /\ todo > 0 /\ Head(queue).op = op

RunStartInLoop ==
    /\ AtHead("startInLoop")
    /\ queue' = Tail(queue) /\ todo' = todo - 1
    /\ StartInLoop
    /\ UNCHANGED <<pc, ready, due, connectorConnect, clientVars, call, historyVars>>

StopInLoop ==
    /\ AtHead("stopInLoop")
    /\ todo' = todo - 1
    /\ \/ /\ state = "kConnecting"
          /\ RemoveAndResetChannel(Tail(queue))
          /\ open' = open \ {channel.fd}
          /\ Retry(connectorConnect, retryDelay)
          /\ UNCHANGED gaveUp
       \/ /\ state # "kConnecting"
          /\ queue' = Tail(queue)
          /\ UNCHANGED <<ready, attemptVars>>
    /\ UNCHANGED <<pc, due, connectorConnect, clientVars, call, historyVars>>

(* Mutant: the channel is never deleted. *)
ResetChannelNot ==
    /\ AtHead("resetChannel")
    /\ queue' = Tail(queue) /\ todo' = todo - 1
    /\ UNCHANGED <<pc, ready, due, attemptVars, connectorConnect, clientVars, call,
                   historyVars>>

ResetChannel ==
    /\ AtHead("resetChannel")
    /\ queue' = Tail(queue) /\ todo' = todo - 1
    /\ channel' = NoChannel
    /\ UNCHANGED <<pc, ready, due, state, retryDelay, timerId, timers, fresh, open,
                   gaveUp, connectorConnect, clientVars, call, historyVars>>

CancelInLoop ==
    /\ AtHead("cancelInLoop")
    /\ queue' = Tail(queue) /\ todo' = todo - 1
    /\ timers' = timers \ {Head(queue).arg}
    /\ fresh' = fresh \ {Head(queue).arg}
    /\ due' = due \ {Head(queue).arg}
    /\ UNCHANGED <<pc, ready, state, channel, retryDelay, timerId, open, gaveUp,
                   connectorConnect, clientVars, call, historyVars>>

(* TcpConnection::connectDestroyed(); its last pointer goes with it. *)
ConnectDestroyed ==
    /\ AtHead("connectDestroyed")
    /\ queue' = Tail(queue) /\ todo' = todo - 1
    /\ conns' = [conns EXCEPT ![Head(queue).arg] = "none"]
    /\ open' = open \ {Head(queue).arg}
    /\ UNCHANGED <<pc, ready, due, state, channel, retryDelay, timerId, timers, fresh,
                   gaveUp, connectorConnect, clientConnect, retry, connection,
                   destroyed, closeCallback, call, historyVars>>

-----------------------------------------------------------------------------
(* The loop polls and handles what is ready. *)

Watched == {fd \in Fd : conns[fd] = "up" \/ channel = [fd |-> fd, active |-> TRUE]}

(* Any watched descriptors may be ready and any timers due; but a poll     *)
(* with functors waiting returns at once (the eventfd is readable), so     *)
(* that a timer the last batch started is not due yet.                     *)
Poll ==
    /\ pc = "functors" /\ todo = 0
    /\ pc' = "events"
    /\ ready' \in SUBSET Watched
    /\ due' \in SUBSET (IF queue = <<>> THEN timers ELSE timers \ fresh)
    /\ timers' = timers \ due'
    /\ fresh' = {}
    /\ UNCHANGED <<queue, todo, state, channel, retryDelay, timerId, open, gaveUp,
                   connectorConnect, clientVars, call, historyVars>>

NextIteration ==
    /\ pc = "events" /\ ready = {} /\ due = {}
    /\ pc' = "functors"
    /\ todo' = Len(queue)
    /\ UNCHANGED <<queue, ready, due, attemptVars, connectorConnect, clientVars, call,
                   historyVars>>

(* The callback of retry()'s timer. *)
RetryTimer ==
    /\ pc = "events"
    /\ \E id \in due : due' = due \ {id}
    /\ StartInLoop
    /\ UNCHANGED <<pc, queue, todo, ready, connectorConnect, clientVars, call,
                   historyVars>>

(* TcpClient::newConnection() *)
NewConnection(fd) ==
    /\ conns' = [conns EXCEPT ![fd] = "up"]
    /\ closeCallback' = "client"
    /\ connection' = fd
    /\ stale' = (stale \/ destroyed)
    /\ UNCHANGED <<clientConnect, retry, destroyed>>

CanHandle ==
    /\ pc = "events" /\ channel.active /\ channel.fd \in ready
    /\ state = "kConnecting"

(* Mutant: the socket is kept open when nobody wants it any more. *)
HandleWriteKeepsSocket ==
    /\ CanHandle
    /\ RemoveAndResetChannel(queue)
    /\ \/ /\ Retry(connectorConnect, retryDelay)
          /\ open' = open \ {channel.fd}
          /\ UNCHANGED <<clientVars, stale>>
       \/ /\ state' = "kConnected"
          /\ \/ connectorConnect /\ NewConnection(channel.fd)
             \/ ~connectorConnect /\ UNCHANGED <<clientVars, stale>>
          /\ UNCHANGED <<open, retryDelay, timerId, timers, fresh>>
    /\ UNCHANGED <<pc, todo, due, gaveUp, connectorConnect, call, connects, stopped,
                   lastIsStop>>

(* handleWrite(): SO_ERROR or a self-connection is retried; a connection   *)
(* goes to TcpClient::newConnection() or is closed if it is not wanted.    *)
HandleWrite ==
    /\ CanHandle
    /\ RemoveAndResetChannel(queue)
    /\ \/ /\ Retry(connectorConnect, retryDelay)
          /\ open' = open \ {channel.fd}
          /\ UNCHANGED <<clientVars, stale>>
       \/ /\ state' = "kConnected"
          /\ \/ connectorConnect /\ NewConnection(channel.fd) /\ UNCHANGED open
             \/ /\ ~connectorConnect
                /\ open' = open \ {channel.fd}
                /\ UNCHANGED <<clientVars, stale>>
          /\ UNCHANGED <<retryDelay, timerId, timers, fresh>>
    /\ UNCHANGED <<pc, todo, due, gaveUp, connectorConnect, call, connects, stopped,
                   lastIsStop>>

(* handleError(); a write callback for the same event finds kDisconnected. *)
HandleError ==
    /\ CanHandle
    /\ RemoveAndResetChannel(queue)
    /\ open' = open \ {channel.fd}
    /\ Retry(connectorConnect, retryDelay)
    /\ UNCHANGED <<pc, todo, due, gaveUp, connectorConnect, clientVars, call,
                   historyVars>>

(* TcpConnection::handleClose() and the close callback up to the test of   *)
(* connect_ and retry_ in removeConnection().                              *)
CloseConnection(fd) ==
    /\ pc = "events" /\ fd \in ready /\ conns[fd] = "up"
    /\ ready' = ready \ {fd}
    /\ conns' = [conns EXCEPT ![fd] = "closing"]
    /\ queue' = Push(queue, DestroyTask(fd))
    /\ \/ /\ closeCallback = "client"
          /\ stale' = (stale \/ destroyed)
          /\ connection' = NoFd
          /\ pc' = IF clientConnect /\ retry THEN "restart" ELSE pc
       \/ closeCallback = "detail" /\ UNCHANGED <<connection, pc, stale>>
    /\ UNCHANGED <<todo, due, attemptVars, connectorConnect, clientConnect, retry,
                   destroyed, closeCallback, call, connects, stopped, lastIsStop>>

(* Mutant: removeConnection() forgets to reconnect. *)
RestartForgets ==
    /\ pc = "restart"
    /\ pc' = "events"
    /\ UNCHANGED <<queue, todo, ready, due, attemptVars, connectorConnect, clientVars,
                   call, historyVars>>

(* Connector::restart() up to its call of startInLoop() *)
Restart ==
    /\ pc = "restart"
    /\ pc' = "startInEvents"
    /\ state' = "kDisconnected"
    /\ retryDelay' = kInitRetryDelay
    /\ connectorConnect' = TRUE
    /\ UNCHANGED <<queue, todo, ready, due, channel, timerId, timers, fresh, open, gaveUp,
                   clientVars, call, historyVars>>

(* startInLoop() called by restart() or by connect() in the loop thread;   *)
(* another thread may have cleared connect_ since they set it.             *)
StartAttempt ==
    /\ AtStart
    /\ pc' = IF InBatch THEN "functors" ELSE "events"
    /\ StartInLoop
    /\ UNCHANGED <<queue, todo, ready, due, connectorConnect, clientVars, call,
                   historyVars>>

-----------------------------------------------------------------------------
(* Calls in the loop thread. *)

(* connect() up to its call of startInLoop() *)
ConnectInLoop ==
    /\ InLoopThread /\ connects < MaxConnects
    /\ pc' = IF InBatch THEN "startInFunctors" ELSE "startInEvents"
    /\ connects' = connects + 1
    /\ lastIsStop' = FALSE
    /\ clientConnect' = TRUE
    /\ connectorConnect' = TRUE
    /\ UNCHANGED <<queue, todo, ready, due, attemptVars, retry, connection, destroyed,
                   conns, closeCallback, call, stopped, stale>>

(* Connector::stop(): stopInLoop() is always queued, the timer canceled at once. *)
StopConnector ==
    /\ Room
    /\ connectorConnect' = FALSE
    /\ queue' = Push(queue, Task("stopInLoop"))
    /\ timers' = timers \ {timerId}
    /\ fresh' = fresh \ {timerId}
    /\ due' = due \ {timerId}

StopCalledInLoop ==
    /\ InLoopThread
    /\ StopConnector
    /\ clientConnect' = FALSE
    /\ stopped' = TRUE /\ lastIsStop' = NobodyConnects
    /\ UNCHANGED <<pc, todo, ready, state, channel, retryDelay, timerId, open, gaveUp,
                   retry, connection, destroyed, conns, closeCallback, call, connects,
                   stale>>

(* Mutant: the destructor leaves the connector running. *)
DestroyOnly ==
    /\ InLoopThread
    /\ Quiet
    /\ destroyed' = TRUE /\ stopped' = TRUE
    /\ \/ connection # NoFd /\ closeCallback' = "detail"
       \/ connection = NoFd /\ UNCHANGED closeCallback
    /\ UNCHANGED <<loopVars, attemptVars, connectorConnect, clientConnect, retry,
                   connection, conns, call, connects, lastIsStop, stale>>

(* ~TcpClient() in the loop thread, no other thread being inside a call: a *)
(* connection gets a close callback that does not need the client, an      *)
(* attempt in progress is stopped.                                         *)
Destroy ==
    /\ InLoopThread
    /\ Quiet
    /\ destroyed' = TRUE /\ stopped' = TRUE
    /\ \/ /\ connection # NoFd
          /\ closeCallback' = "detail"
          /\ UNCHANGED <<queue, due, connectorConnect, timers, fresh>>
       \/ /\ connection = NoFd
          /\ StopConnector
          /\ UNCHANGED closeCallback
    /\ UNCHANGED <<pc, todo, ready, state, channel, retryDelay, timerId, open, gaveUp,
                   clientConnect, retry, connection, conns, call, connects, lastIsStop,
                   stale>>

-----------------------------------------------------------------------------
(* Calls in another thread. *)

Step(t, from, to) == call[t] = from /\ call' = [call EXCEPT ![t] = to]

(* connect(): connect_ of the client, connect_ of the connector, startInLoop. *)
ConnectCall(t) ==
    /\ Step(t, "out", "startSet") /\ ~destroyed /\ connects < MaxConnects
    /\ connects' = connects + 1
    /\ lastIsStop' = FALSE
    /\ clientConnect' = TRUE
    /\ UNCHANGED <<loopVars, attemptVars, connectorConnect, retry, connection,
                   destroyed, conns, closeCallback, stopped, stale>>

StartSet(t) ==
    /\ Step(t, "startSet", "startQueue")
    /\ connectorConnect' = TRUE
    /\ UNCHANGED <<loopVars, attemptVars, clientVars, historyVars>>

StartQueue(t) ==
    /\ Step(t, "startQueue", "out") /\ Room
    /\ queue' = Push(queue, Task("startInLoop"))
    /\ UNCHANGED <<pc, todo, ready, due, attemptVars, connectorConnect, clientVars,
                   historyVars>>

(* stop(): both flags, stopInLoop, and the cancellation of timerId_, whose *)
(* read may be torn by a retry() in the loop and then names no timer.      *)
StopCall(t) ==
    /\ Step(t, "out", "stopSet") /\ ~destroyed
    /\ clientConnect' = FALSE
    /\ stopped' = TRUE /\ lastIsStop' = NobodyConnects
    /\ UNCHANGED <<loopVars, attemptVars, connectorConnect, retry, connection,
                   destroyed, conns, closeCallback, connects, stale>>

StopSet(t) ==
    /\ Step(t, "stopSet", "stopQueue")
    /\ connectorConnect' = FALSE
    /\ UNCHANGED <<loopVars, attemptVars, clientVars, historyVars>>

(* Mutant: stop() only sets the flags. *)
StopQueueNothing(t) ==
    /\ Step(t, "stopQueue", "stopCancel")
    /\ UNCHANGED <<loopVars, attemptVars, connectorConnect, clientVars, historyVars>>

StopQueue(t) ==
    /\ Step(t, "stopQueue", "stopCancel") /\ Room
    /\ queue' = Push(queue, Task("stopInLoop"))
    /\ UNCHANGED <<pc, todo, ready, due, attemptVars, connectorConnect, clientVars,
                   historyVars>>

StopCancel(t) ==
    /\ Step(t, "stopCancel", "out") /\ Room
    /\ \E id \in {timerId, NoTimer} : queue' = Push(queue, CancelTask(id))
    /\ UNCHANGED <<pc, todo, ready, due, attemptVars, connectorConnect, clientVars,
                   historyVars>>

(* disconnect(); the shutdown() of the connection, if there is one, is     *)
(* TcpConnection's, and its peer may close at any moment here.             *)
Disconnect ==
    /\ ~destroyed
    /\ clientConnect' = FALSE
    /\ stopped' = TRUE
    /\ UNCHANGED <<loopVars, attemptVars, connectorConnect, retry, connection,
                   destroyed, conns, closeCallback, call, connects, lastIsStop, stale>>

-----------------------------------------------------------------------------
LoopStep ==
    \/ RunStartInLoop \/ StopInLoop \/ ResetChannel \/ CancelInLoop
    \/ ConnectDestroyed \/ Poll \/ NextIteration \/ RetryTimer
    \/ HandleWrite \/ HandleError \/ Restart \/ StartAttempt
    \/ \E fd \in Fd : CloseConnection(fd)

CallStep(t) ==
    StartSet(t) \/ StartQueue(t) \/ StopSet(t) \/ StopQueue(t) \/ StopCancel(t)

Next ==
    \/ LoopStep
    \/ \E t \in User : ConnectCall(t) \/ StopCall(t) \/ CallStep(t)
    \/ ConnectInLoop \/ StopCalledInLoop \/ Disconnect \/ Destroy

Spec == Init /\ [][Next]_vars

(* The loop keeps iterating and threads finish their calls; nothing is     *)
(* assumed of the network.                                                 *)
FairSpec == Spec /\ WF_vars(LoopStep) /\ \A t \in User : WF_vars(CallStep(t))

-----------------------------------------------------------------------------
(* Properties. *)

(* No socket is leaked or closed twice: each open socket belongs to the    *)
(* attempt in progress or to a connection that is not destroyed yet, not   *)
(* to both, whatever fails or is stopped on the way.                       *)
SocketsOwned ==
    /\ open = {fd \in Fd : conns[fd] # "none" \/ (channel.active /\ channel.fd = fd)}
    /\ channel.active => conns[channel.fd] = "none"

(* With one connect(), the assertions of the connector hold whenever a     *)
(* functor, timer or call that relies on them is about to run:             *)
(* startInLoop() finds kDisconnected, connecting() finds no channel        *)
(* although its deletion is deferred, stopInLoop() finds one.              *)
Assertions ==
    /\ AtHead("startInLoop") \/ due # {} \/ AtStart =>
          state = "kDisconnected" /\ (connectorConnect => channel = NoChannel)
    /\ AtHead("stopInLoop") /\ state = "kConnecting" => channel.active
    /\ channel.active <=> state = "kConnecting"

Queued(op) == \E i \in 1..Len(queue) : queue[i].op = op

(* Until somebody stops it, a client that was told to connect never idles: *)
(* an attempt is queued, in progress or scheduled, or the connection is    *)
(* up; with retry_, a lost connection is always being replaced.            *)
StillTrying ==
    connects > 0 /\ ~stopped /\ ~gaveUp /\ Quiet =>
        \/ Queued("startInLoop") \/ AtStart
        \/ state = "kConnecting" /\ channel.fd \in Watched
        \/ state = "kDisconnected" /\ timers \cup due = {timerId}
        \/ state = "kConnected" /\ (connection # NoFd \/ pc = "restart" \/ ~retry)

(* A client destroyed in the loop thread is never called back, neither by  *)
(* the connector it shares with queued functors nor by its connection.     *)
NoStaleClient == ~stale

(* stop() without retry_ ends an attempt in progress and frees its channel.*)
StopReleases ==
    (lastIsStop /\ ~retry) ~> (~lastIsStop \/ (state # "kConnecting" /\ channel = NoChannel))

(* stop() is documented as thread safe: once it has returned, and until    *)
(* the next connect(), no new connection is made.                          *)
StopIsFinal == [][connection = NoFd /\ connection' # NoFd => ~(lastIsStop /\ Quiet)]_vars
=============================================================================

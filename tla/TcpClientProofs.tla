-------------------------- MODULE TcpClientProofs --------------------------
(***************************************************************************)
(* Proofs about TcpClient.tla, for any threads, descriptors, timers,       *)
(* delays and queue bound.  Type correctness holds for any number of       *)
(* connect() calls; the rest for one call, which is what the code handles  *)
(* (it says "FIXME: check state" of more).                                 *)
(***************************************************************************)
EXTENDS TcpClient, TLAPS, SequenceTheorems, WellFoundedInduction

-----------------------------------------------------------------------------
(* The inductive invariant. *)

Contains(q, x) == \E i \in 1..Len(q) : q[i] = x
Single(q, x) == \A i, j \in 1..Len(q) : q[i] = x /\ q[j] = x => i = j
Before(q, x, n) == \A i \in 1..Len(q) : q[i] = x => i <= n

StartTask == Task("startInLoop")
StopTask == Task("stopInLoop")
ResetTask == Task("resetChannel")

(* A functor of the connector is queued at most once, and so is the end of *)
(* a connection, which is queued only for one that is closing.             *)
QueueInv ==
    /\ Single(queue, StartTask) /\ Single(queue, ResetTask)
    /\ \A fd \in Fd : /\ Single(queue, DestroyTask(fd))
                      /\ Contains(queue, DestroyTask(fd)) => conns[fd] = "closing"

Starting(t) == call[t] \in {"startSet", "startQueue"}
NoneUp == \A fd \in Fd : conns[fd] # "up"

(* No attempt, no retry timer, no connection. *)
Nothing ==
    /\ state = "kDisconnected" /\ channel = NoChannel
    /\ timers = {} /\ due = {} /\ NoneUp

(* At most one thing carries the client on: a call of connect(), its       *)
(* functor, a call of startInLoop(), the attempt in progress, the retry    *)
(* timer, the connection, or restart().                                    *)
TokenInv ==
    /\ connects = 0 \/ Contains(queue, StartTask) \/ AtStart =>
          Nothing /\ \A t \in User : ~Starting(t)
    /\ connects = 0 \/ AtStart => ~Contains(queue, StartTask)
    /\ AtStart => connects # 0 /\ ~destroyed
    /\ \A t \in User : Starting(t) => Nothing /\ \A u \in User : Starting(u) => u = t
    /\ state # "kDisconnected" => timers = {} /\ due = {}
    /\ timers \subseteq {timerId} /\ due \subseteq {timerId} /\ timers \cap due = {}
    /\ \A fd \in Fd : conns[fd] = "up" => state = "kConnected" /\ connection = fd
    /\ ~destroyed /\ connection # NoFd => conns[connection] = "up"
    /\ pc = "restart" => state = "kConnected" /\ NoneUp /\ channel = NoChannel /\ ~destroyed

(* The phases of the loop. *)
PhaseInv ==
    /\ InBatch => ready = {} /\ due = {}
    /\ ~InBatch => todo = 0
    /\ \A fd \in ready : conns[fd] = "up" \/ (channel.active /\ channel.fd = fd)

(* The channel of a finished attempt waits for the functor that deletes    *)
(* it; before the retry timer can be found expired, or the new connection  *)
(* ready, that functor has run.                                            *)
ChannelInv ==
    /\ channel.active <=> state = "kConnecting"
    /\ Contains(queue, ResetTask) <=> (channel # NoChannel /\ ~channel.active)
    /\ pc = "functors" /\ (timers \ fresh # {} \/ ~NoneUp) => Before(queue, ResetTask, todo)
    /\ due # {} => channel = NoChannel
    /\ \A fd \in ready : conns[fd] = "up" => channel = NoChannel

(* After the destructor either the connection does not need the client any *)
(* more, or there is none and there will be none.                          *)
DestroyInv ==
    /\ ~stale
    /\ destroyed => \A t \in User : call[t] = "out"
    /\ closeCallback = "detail" => destroyed
    /\ destroyed => \/ closeCallback = "detail" /\ state = "kConnected"
                    \/ ~connectorConnect /\ NoneUp

(* A client that nobody stopped. *)
Unhindered ==
    /\ ~destroyed /\ clientConnect
    /\ ~Contains(queue, StopTask) /\ \A id \in TimerIds \cup {NoTimer} : ~Contains(queue, CancelTask(id))
    /\ \A t \in User : call[t] \in {"out", "startSet", "startQueue"}
    /\ connects > 0 /\ (\A t \in User : call[t] # "startSet") => connectorConnect

Underway ==
    \/ Contains(queue, StartTask) \/ AtStart
    \/ state = "kConnecting"
    \/ state = "kDisconnected" /\ timers \cup due = {timerId}
    \/ state = "kConnected" /\ (connection # NoFd \/ pc = "restart" \/ ~retry)

TryInv ==
    ~stopped => /\ Unhindered
                /\ connects > 0 /\ ~gaveUp /\ (\A t \in User : ~Starting(t)) => Underway

ClientInv ==
    /\ TypeOK /\ SocketsOwned /\ QueueInv /\ TokenInv /\ PhaseInv /\ ChannelInv
    /\ DestroyInv /\ TryInv

-----------------------------------------------------------------------------
(* Functors and queues. *)

LEMMA NumberFacts ==
    /\ NoFd \notin Fd /\ NoTimer \notin TimerIds
    /\ Fd \subseteq Nat /\ TimerIds \subseteq Nat
    /\ kInitRetryDelay \in Nat \ {0} /\ kMaxRetryDelay \in Nat
    /\ kInitRetryDelay <= kMaxRetryDelay
    /\ MaxConnects \in Nat /\ MaxQueue \in Nat
  BY FdAssumption, DelayAssumption, BoundAssumption DEF NoFd, NoTimer

(* A functor is told by its operation and its argument. *)
LEMMA TaskFacts ==
    /\ StartTask.op = "startInLoop" /\ StopTask.op = "stopInLoop" /\ ResetTask.op = "resetChannel"
    /\ \A id : CancelTask(id).op = "cancelInLoop" /\ CancelTask(id).arg = id
    /\ \A fd : DestroyTask(fd).op = "connectDestroyed" /\ DestroyTask(fd).arg = fd
    /\ StartTask \in Tasks /\ StopTask \in Tasks /\ ResetTask \in Tasks
    /\ \A id \in TimerIds \cup {NoTimer} : CancelTask(id) \in Tasks
    /\ \A fd \in Fd : DestroyTask(fd) \in Tasks
<1>1. \A op : Task(op).op = op BY DEF Task
<1>2. \A id : CancelTask(id).op = "cancelInLoop" /\ CancelTask(id).arg = id BY DEF CancelTask
<1>3. \A fd : DestroyTask(fd).op = "connectDestroyed" /\ DestroyTask(fd).arg = fd
  BY DEF DestroyTask
<1>4. /\ StartTask \in Tasks /\ StopTask \in Tasks /\ ResetTask \in Tasks
      /\ \A id \in TimerIds \cup {NoTimer} : CancelTask(id) \in Tasks
      /\ \A fd \in Fd : DestroyTask(fd) \in Tasks
  BY DEF Tasks, StartTask, StopTask, ResetTask
<1> QED BY <1>1, <1>2, <1>3, <1>4 DEF StartTask, StopTask, ResetTask

LEMMA HeadFacts ==
    ASSUME NEW x \in Tasks
    PROVE  /\ x.op = "startInLoop" => x = StartTask
           /\ x.op = "stopInLoop" => x = StopTask
           /\ x.op = "resetChannel" => x = ResetTask
           /\ x.op = "cancelInLoop" => x.arg \in TimerIds \cup {NoTimer} /\ x = CancelTask(x.arg)
           /\ x.op = "connectDestroyed" => x.arg \in Fd /\ x = DestroyTask(x.arg)
<1>1. \A op : Task(op).op = op BY DEF Task
<1>2. CASE \E op \in {"startInLoop", "stopInLoop", "resetChannel"} : x = Task(op)
  BY <1>1, <1>2 DEF StartTask, StopTask, ResetTask
<1>3. CASE \E id \in TimerIds \cup {NoTimer} : x = CancelTask(id) BY <1>3, TaskFacts
<1>4. CASE \E fd \in Fd : x = DestroyTask(fd) BY <1>4, TaskFacts
<1> QED BY <1>2, <1>3, <1>4 DEF Tasks

(* What a push and the end of a functor do to a queue of which the current *)
(* batch still runs n.                                                     *)
LEMMA PushFacts ==
    ASSUME NEW q \in Seq(Tasks), NEW y \in Tasks
    PROVE  /\ Push(q, y) \in Seq(Tasks) /\ Len(Push(q, y)) = Len(q) + 1
           /\ \A x : Contains(Push(q, y), x) <=> Contains(q, x) \/ x = y
           /\ \A x : x # y /\ Single(q, x) => Single(Push(q, y), x)
           /\ ~Contains(q, y) => Single(Push(q, y), y)
           /\ \A x, n : x # y /\ Before(q, x, n) => Before(Push(q, y), x, n)
<1>1. /\ Push(q, y) \in Seq(Tasks) /\ Len(q) \in Nat
      /\ Len(Push(q, y)) = Len(q) + 1
      /\ \A i \in 1..Len(q) : Push(q, y)[i] = q[i]
      /\ Push(q, y)[Len(q) + 1] = y
  BY DEF Push
<1>2. \A i : i \in 1..Len(Push(q, y)) <=> i \in 1..Len(q) \/ i = Len(q) + 1
  BY <1>1
<1>3. /\ \A x : Contains(Push(q, y), x) <=> Contains(q, x) \/ x = y
      /\ \A x : x # y /\ Single(q, x) => Single(Push(q, y), x)
      /\ ~Contains(q, y) => Single(Push(q, y), y)
  BY <1>1, <1>2 DEF Contains, Single
<1>4. \A x, n : x # y /\ Before(q, x, n) => Before(Push(q, y), x, n)
  BY <1>1, <1>2 DEF Before
<1> QED BY <1>1, <1>3, <1>4

LEMMA TailFacts ==
    ASSUME NEW q \in Seq(Tasks), NEW n \in 1..Len(q)
    PROVE  /\ Tail(q) \in Seq(Tasks) /\ Head(q) \in Tasks
           /\ n - 1 \in 0..Len(Tail(q))
           /\ Contains(q, Head(q))
           /\ \A x : Contains(Tail(q), x) => Contains(q, x)
           /\ \A x : x # Head(q) /\ Contains(q, x) => Contains(Tail(q), x)
           /\ \A x : Single(q, x) => Single(Tail(q), x)
           /\ Single(q, Head(q)) => ~Contains(Tail(q), Head(q))
           /\ \A x : Before(q, x, n) => Before(Tail(q), x, n - 1)
<1>1. /\ Tail(q) \in Seq(Tasks) /\ Len(q) \in Nat \ {0} /\ Len(Tail(q)) = Len(q) - 1
      /\ \A i \in 1..Len(Tail(q)) : Tail(q)[i] = q[i + 1]
      /\ Head(q) = q[1] /\ q[1] \in Tasks
  OBVIOUS
<1>2. \A i \in 1..Len(Tail(q)) : i + 1 \in 1..Len(q) /\ i + 1 # 1
  BY <1>1
<1>3. 1 \in 1..Len(q) BY <1>1
<1>4. Contains(q, Head(q)) BY <1>1, <1>3 DEF Contains
<1>5. \A x : Contains(Tail(q), x) => Contains(q, x) BY <1>1, <1>2 DEF Contains
<1>6. ASSUME NEW x, x # Head(q), Contains(q, x) PROVE Contains(Tail(q), x)
  <2>1. PICK i \in 1..Len(q) : q[i] = x BY <1>6 DEF Contains
  <2>2. i # 1 BY <1>1, <1>6, <2>1
  <2>3. i - 1 \in 1..Len(Tail(q)) /\ (i - 1) + 1 = i BY <1>1, <2>1, <2>2
  <2> QED BY <1>1, <2>1, <2>3 DEF Contains
<1>7. ASSUME NEW x, Single(q, x), NEW i \in 1..Len(Tail(q)), NEW j \in 1..Len(Tail(q)),
             Tail(q)[i] = x, Tail(q)[j] = x
      PROVE  i = j
  <2>1. i + 1 = j + 1 BY <1>1, <1>2, <1>7 DEF Single
  <2> QED BY <1>1, <2>1
<1>8. Single(q, Head(q)) => ~Contains(Tail(q), Head(q))
  BY <1>1, <1>2, <1>3 DEF Single, Contains
<1>9. ASSUME NEW x, Before(q, x, n), NEW i \in 1..Len(Tail(q)), Tail(q)[i] = x
      PROVE  i <= n - 1
  <2>1. i + 1 <= n BY <1>1, <1>2, <1>9 DEF Before
  <2> QED BY <1>1, <2>1
<1>10. n - 1 \in 0..Len(Tail(q)) BY <1>1
<1> QED BY <1>1, <1>4, <1>5, <1>6, <1>7, <1>8, <1>9, <1>10 DEF Single, Before

(* The functor at the head of the queue. *)
LEMMA AtHeadFacts ==
    ASSUME TypeOK, NEW op, AtHead(op)
    PROVE  /\ pc = "functors" /\ Head(queue).op = op
           /\ queue \in Seq(Tasks) /\ todo \in 1..Len(queue) /\ Head(queue) \in Tasks
<1>1. queue \in Seq(Tasks) /\ todo \in 0..Len(queue) /\ todo > 0 BY DEF TypeOK, AtHead
<1>2. todo \in 1..Len(queue) BY <1>1
<1>3. Head(queue) \in Tasks BY <1>1, <1>2, TailFacts
<1> QED BY <1>1, <1>2, <1>3 DEF AtHead

-----------------------------------------------------------------------------
(* The connector. *)

LEMMA Least ==
    ASSUME NEW S \in SUBSET Nat, S # {}
    PROVE  Min(S) \in S
<1>1. PICK x \in S : \A y \in S : ~(<<y, x>> \in OpToRel(<, Nat))
  BY NatLessThanWellFounded, WFMin, Zenon
<1>2. \A y \in S : ~(y < x) BY <1>1, Zenon DEF OpToRel
<1>3. \E z \in S : \A y \in S : z =< y BY <1>2
<1> QED BY <1>3 DEF Min

Delays == kInitRetryDelay..kMaxRetryDelay

LEMMA NewTimerFacts ==
    ASSUME UnusedTimers # {}
    PROVE  NewTimer \in TimerIds /\ NewTimer \notin timers \cup due \cup {timerId}
<1>1. UnusedTimers \in SUBSET Nat BY NumberFacts DEF UnusedTimers
<1>2. NewTimer \in UnusedTimers BY <1>1, Least DEF NewTimer
<1> QED BY <1>2 DEF UnusedTimers

(* The delay grows up to its limit. *)
LEMMA RetryFacts ==
    ASSUME NEW connect \in BOOLEAN, NEW delay \in Delays, Retry(connect, delay)
    PROVE  /\ state' = "kDisconnected" /\ retryDelay' \in Delays
           /\ \/ /\ connect
                 /\ \E id \in TimerIds \ (timers \cup due \cup {timerId}) :
                       /\ timerId' = id /\ timers' = timers \cup {id}
                       /\ fresh' = IF InBatch THEN fresh \cup {id} ELSE fresh
              \/ ~connect /\ UNCHANGED <<timerId, timers, fresh>>
<1>1. CASE connect
  <2>1. /\ UnusedTimers # {} /\ state' = "kDisconnected"
        /\ timerId' = NewTimer /\ timers' = timers \cup {NewTimer}
        /\ fresh' = IF InBatch THEN fresh \cup {NewTimer} ELSE fresh
        /\ retryDelay' = Min({2 * delay, kMaxRetryDelay})
    BY <1>1 DEF Retry
  <2>2. delay \in Nat /\ kInitRetryDelay <= delay /\ delay <= kMaxRetryDelay
    BY NumberFacts DEF Delays
  <2>3. {2 * delay, kMaxRetryDelay} \in SUBSET Nat BY <2>2, NumberFacts
  <2>4. Min({2 * delay, kMaxRetryDelay}) \in {2 * delay, kMaxRetryDelay} BY <2>3, Least
  <2>5. Min({2 * delay, kMaxRetryDelay}) <= kMaxRetryDelay
    <3>1. \E z \in {2 * delay, kMaxRetryDelay} : \A y \in {2 * delay, kMaxRetryDelay} : z =< y
      BY <2>3
    <3>2. \A y \in {2 * delay, kMaxRetryDelay} : Min({2 * delay, kMaxRetryDelay}) =< y
      BY <3>1 DEF Min
    <3> QED BY <3>2
  <2>6. retryDelay' \in Delays BY <2>1, <2>2, <2>4, <2>5, NumberFacts DEF Delays
  <2>7. NewTimer \in TimerIds \ (timers \cup due \cup {timerId}) BY <2>1, NewTimerFacts
  <2> QED BY <1>1, <2>1, <2>6, <2>7
<1>2. CASE ~connect BY <1>2 DEF Retry
<1> QED BY <1>1, <1>2

(* The outcomes of connect(2). *)
Begun ==
    /\ state' = "kConnecting"
    /\ \E fd \in Fd \ open : channel' = [fd |-> fd, active |-> TRUE] /\ open' = open \cup {fd}
    /\ UNCHANGED <<timerId, timers, fresh, gaveUp>>

Scheduled ==
    /\ state' = "kDisconnected"
    /\ \E id \in TimerIds \ (timers \cup due \cup {timerId}) :
          /\ timerId' = id /\ timers' = timers \cup {id}
          /\ fresh' = IF InBatch THEN fresh \cup {id} ELSE fresh
    /\ UNCHANGED <<channel, open, gaveUp>>

Failed ==
    /\ state' = "kDisconnected" /\ gaveUp' = TRUE
    /\ UNCHANGED <<channel, open, timerId, timers, fresh>>

LEMMA ConnectFacts ==
    ASSUME NEW delay \in Delays, Connect(delay)
    PROVE  (Begun \/ Scheduled \/ Failed) /\ retryDelay' \in Delays
<1>1. Fd \ open # {} BY DEF Connect
<1>2. Fd \ open \in SUBSET Nat BY NumberFacts
<1>3. NewFd \in Fd \ open BY <1>1, <1>2, Least DEF NewFd
<1>4. CASE /\ state' = "kConnecting"
           /\ channel' = [fd |-> NewFd, active |-> TRUE]
           /\ open' = open \cup {NewFd}
           /\ retryDelay' = delay
           /\ UNCHANGED <<timerId, timers, fresh, gaveUp>>
  BY <1>3, <1>4 DEF Begun
<1>5. CASE Retry(TRUE, delay) /\ UNCHANGED <<channel, open, gaveUp>>
  <2>1. TRUE \in BOOLEAN OBVIOUS
  <2>2. /\ state' = "kDisconnected" /\ retryDelay' \in Delays
        /\ \E id \in TimerIds \ (timers \cup due \cup {timerId}) :
              /\ timerId' = id /\ timers' = timers \cup {id}
              /\ fresh' = IF InBatch THEN fresh \cup {id} ELSE fresh
    BY <1>5, <2>1, RetryFacts
  <2> QED BY <1>5, <2>2 DEF Scheduled
<1>6. CASE /\ gaveUp' = TRUE /\ state' = "kDisconnected" /\ retryDelay' = delay
           /\ UNCHANGED <<channel, open, timerId, timers, fresh>>
  BY <1>6 DEF Failed
<1> QED BY <1>4, <1>5, <1>6 DEF Connect

-----------------------------------------------------------------------------
(* Type correctness, step by step. *)

LEMMA NextCases ==
  ASSUME NEW P, Next,
         RunStartInLoop => P, StopInLoop => P, ResetChannel => P, CancelInLoop => P,
         ConnectDestroyed => P, Poll => P, NextIteration => P, RetryTimer => P,
         HandleWrite => P, HandleError => P, Restart => P, StartAttempt => P,
         \A fd \in Fd : CloseConnection(fd) => P,
         \A t \in User : ConnectCall(t) => P, \A t \in User : StopCall(t) => P,
         \A t \in User : StartSet(t) => P, \A t \in User : StartQueue(t) => P,
         \A t \in User : StopSet(t) => P, \A t \in User : StopQueue(t) => P,
         \A t \in User : StopCancel(t) => P,
         ConnectInLoop => P, StopCalledInLoop => P, Disconnect => P, Destroy => P
  PROVE  P
BY DEF Next, LoopStep, CallStep

Channels == [fd : Fd, active : BOOLEAN] \cup {NoChannel}

LEMMA StoppedFacts ==
    ASSUME NEW F, NEW c \in [fd : F, active : BOOLEAN]
    PROVE  /\ [c EXCEPT !.active = FALSE] \in [fd : F, active : BOOLEAN]
           /\ [c EXCEPT !.active = FALSE].fd = c.fd
           /\ ~[c EXCEPT !.active = FALSE].active
OBVIOUS

LEMMA NoChannelFacts ==
    /\ NoChannel \in [fd : {NoFd}, active : BOOLEAN]
    /\ NoChannel.active = FALSE /\ NoChannel.fd = NoFd
    /\ \A c \in [fd : {NoFd}, active : BOOLEAN] : ~c.active => c = NoChannel
  BY DEF NoChannel

LEMMA ChannelFacts ==
    ASSUME TypeOK
    PROVE  /\ channel.active \in BOOLEAN
           /\ channel # NoChannel => channel.fd \in Fd
           /\ channel.active => channel # NoChannel
           /\ [channel EXCEPT !.active = FALSE] \in Channels
           /\ ~[channel EXCEPT !.active = FALSE].active
           /\ channel # NoChannel => [channel EXCEPT !.active = FALSE] # NoChannel
           /\ \A fd \in Fd : /\ [fd |-> fd, active |-> TRUE] \in Channels
                             /\ [fd |-> fd, active |-> TRUE] # NoChannel
<1>1. channel \in Channels BY DEF TypeOK, Channels
<1>2. \A fd \in Fd : /\ [fd |-> fd, active |-> TRUE] \in Channels
                     /\ [fd |-> fd, active |-> TRUE] # NoChannel
  BY NoChannelFacts, NumberFacts DEF Channels
<1>3. CASE channel \in [fd : Fd, active : BOOLEAN]
  <2>1. channel.fd \in Fd /\ channel.active \in BOOLEAN BY <1>3
  <2>2. /\ [channel EXCEPT !.active = FALSE] \in [fd : Fd, active : BOOLEAN]
        /\ [channel EXCEPT !.active = FALSE].fd = channel.fd
        /\ ~[channel EXCEPT !.active = FALSE].active
    BY <1>3, StoppedFacts
  <2>3. channel.fd # NoFd BY <2>1, NumberFacts
  <2>4. channel # NoChannel BY <2>3, NoChannelFacts
  <2>5. [channel EXCEPT !.active = FALSE] # NoChannel BY <2>2, <2>3, NoChannelFacts
  <2> QED BY <1>2, <2>1, <2>2, <2>4, <2>5 DEF Channels
<1>4. CASE channel = NoChannel
  <2>1. channel \in [fd : {NoFd}, active : BOOLEAN] BY <1>4, NoChannelFacts
  <2>2. /\ [channel EXCEPT !.active = FALSE] \in [fd : {NoFd}, active : BOOLEAN]
        /\ ~[channel EXCEPT !.active = FALSE].active
    BY <2>1, StoppedFacts
  <2>3. [channel EXCEPT !.active = FALSE] = NoChannel BY <2>2, NoChannelFacts
  <2> QED BY <1>2, <1>4, <2>2, <2>3, NoChannelFacts DEF Channels
<1> QED BY <1>1, <1>3, <1>4 DEF Channels

LEMMA AttemptTyped ==
    ASSUME TypeOK, Begun \/ Scheduled \/ Failed
    PROVE  /\ state' \in {"kDisconnected", "kConnecting", "kConnected"}
           /\ channel' \in Channels /\ open' \subseteq Fd
           /\ timerId' \in TimerIds \cup {NoTimer}
           /\ timers' \subseteq TimerIds /\ fresh' \subseteq timers'
           /\ gaveUp' \in BOOLEAN
<1>1. CASE Begun
  <2>1. PICK fd \in Fd \ open : channel' = [fd |-> fd, active |-> TRUE] /\ open' = open \cup {fd}
    BY <1>1 DEF Begun
  <2>2. channel' \in Channels BY <2>1, ChannelFacts
  <2> QED BY <1>1, <2>1, <2>2 DEF Begun, TypeOK
<1>2. CASE Scheduled BY <1>2 DEF Scheduled, TypeOK, Channels
<1>3. CASE Failed BY <1>3 DEF Failed, TypeOK, Channels
<1> QED BY <1>1, <1>2, <1>3

LEMMA RunStartTyped ==
    ASSUME TypeOK, RunStartInLoop
    PROVE  TypeOK'
<1>1. /\ AtHead("startInLoop") /\ queue' = Tail(queue) /\ todo' = todo - 1 /\ StartInLoop
      /\ UNCHANGED <<pc, ready, due, connectorConnect, clientVars, call, historyVars>>
  BY DEF RunStartInLoop
<1>2. queue' \in Seq(Tasks) /\ todo' \in 0..Len(queue') BY <1>1, AtHeadFacts, TailFacts
<1>3. CASE connectorConnect /\ Connect(retryDelay)
  <2>1. retryDelay \in Delays BY DEF TypeOK, Delays
  <2>2. (Begun \/ Scheduled \/ Failed) /\ retryDelay' \in Delays BY <1>3, <2>1, ConnectFacts
  <2>3. /\ state' \in {"kDisconnected", "kConnecting", "kConnected"}
        /\ channel' \in Channels /\ open' \subseteq Fd
        /\ timerId' \in TimerIds \cup {NoTimer}
        /\ timers' \subseteq TimerIds /\ fresh' \subseteq timers'
        /\ gaveUp' \in BOOLEAN
    BY <2>2, AttemptTyped
  <2> QED BY <1>1, <1>2, <2>2, <2>3 DEF TypeOK, Channels, Delays, clientVars, historyVars
<1>4. CASE UNCHANGED attemptVars
  BY <1>1, <1>2, <1>4 DEF TypeOK, attemptVars, clientVars, historyVars
<1> QED BY <1>1, <1>3, <1>4 DEF StartInLoop

LEMMA RetryTimerTyped ==
    ASSUME TypeOK, RetryTimer
    PROVE  TypeOK'
<1>1. /\ due' \subseteq due /\ StartInLoop
      /\ UNCHANGED <<pc, queue, todo, ready, connectorConnect, clientVars, call, historyVars>>
  BY DEF RetryTimer
<1>2. CASE connectorConnect /\ Connect(retryDelay)
  <2>1. retryDelay \in Delays BY DEF TypeOK, Delays
  <2>2. (Begun \/ Scheduled \/ Failed) /\ retryDelay' \in Delays BY <1>2, <2>1, ConnectFacts
  <2>3. /\ state' \in {"kDisconnected", "kConnecting", "kConnected"}
        /\ channel' \in Channels /\ open' \subseteq Fd
        /\ timerId' \in TimerIds \cup {NoTimer}
        /\ timers' \subseteq TimerIds /\ fresh' \subseteq timers'
        /\ gaveUp' \in BOOLEAN
    BY <2>2, AttemptTyped
  <2> QED BY <1>1, <2>2, <2>3 DEF TypeOK, Channels, Delays, clientVars, historyVars
<1>3. CASE UNCHANGED attemptVars
  BY <1>1, <1>3 DEF TypeOK, attemptVars, clientVars, historyVars
<1> QED BY <1>1, <1>2, <1>3 DEF StartInLoop

LEMMA StartAttemptTyped ==
    ASSUME TypeOK, StartAttempt
    PROVE  TypeOK'
<1>1. /\ pc' \in {"functors", "events"} /\ StartInLoop
      /\ UNCHANGED <<queue, todo, ready, due, connectorConnect, clientVars, call, historyVars>>
  BY DEF StartAttempt
<1>2. CASE connectorConnect /\ Connect(retryDelay)
  <2>1. retryDelay \in Delays BY DEF TypeOK, Delays
  <2>2. (Begun \/ Scheduled \/ Failed) /\ retryDelay' \in Delays BY <1>2, <2>1, ConnectFacts
  <2>3. /\ state' \in {"kDisconnected", "kConnecting", "kConnected"}
        /\ channel' \in Channels /\ open' \subseteq Fd
        /\ timerId' \in TimerIds \cup {NoTimer}
        /\ timers' \subseteq TimerIds /\ fresh' \subseteq timers'
        /\ gaveUp' \in BOOLEAN
    BY <2>2, AttemptTyped
  <2> QED BY <1>1, <2>2, <2>3 DEF TypeOK, Channels, Delays, clientVars, historyVars
<1>3. CASE UNCHANGED attemptVars
  BY <1>1, <1>3 DEF TypeOK, attemptVars, clientVars, historyVars
<1> QED BY <1>1, <1>2, <1>3 DEF StartInLoop

LEMMA RestartTyped ==
    ASSUME TypeOK, Restart
    PROVE  TypeOK'
<1>1. retryDelay' \in kInitRetryDelay..kMaxRetryDelay BY NumberFacts DEF Restart
<1> QED BY <1>1 DEF Restart, TypeOK, clientVars, historyVars

LEMMA ConnectInLoopTyped ==
    ASSUME TypeOK, ConnectInLoop
    PROVE  TypeOK'
<1>1. /\ connects < MaxConnects /\ connects' = connects + 1 /\ lastIsStop' = FALSE
      /\ clientConnect' = TRUE /\ connectorConnect' = TRUE
      /\ pc' \in {"startInFunctors", "startInEvents"}
      /\ UNCHANGED <<queue, todo, ready, due, attemptVars, retry, connection, destroyed, conns,
                     closeCallback, call, stopped, stale>>
  BY DEF ConnectInLoop
<1>2. connects' \in 0..MaxConnects BY <1>1, NumberFacts DEF TypeOK
<1>3. /\ pc' \in {"functors", "events", "restart", "startInFunctors", "startInEvents"}
      /\ connectorConnect' \in BOOLEAN /\ clientConnect' \in BOOLEAN /\ lastIsStop' \in BOOLEAN
      /\ todo' \in 0..Len(queue')
  BY <1>1 DEF TypeOK
<1> QED BY <1>1, <1>2, <1>3 DEF TypeOK, attemptVars

(* The end of an attempt: its channel is stopped, its socket closed or     *)
(* handed on, and retry() may schedule another.                            *)
LEMMA RetryTyped ==
    ASSUME TypeOK, Retry(connectorConnect, retryDelay)
    PROVE  /\ state' \in {"kDisconnected", "kConnecting", "kConnected"}
           /\ timerId' \in TimerIds \cup {NoTimer} /\ retryDelay' \in Delays
           /\ timers' \subseteq TimerIds /\ fresh' \subseteq timers'
<1>1. connectorConnect \in BOOLEAN /\ retryDelay \in Delays BY DEF TypeOK, Delays
<1>2. /\ state' = "kDisconnected" /\ retryDelay' \in Delays
      /\ \/ /\ connectorConnect
            /\ \E id \in TimerIds \ (timers \cup due \cup {timerId}) :
                  /\ timerId' = id /\ timers' = timers \cup {id}
                  /\ fresh' = IF InBatch THEN fresh \cup {id} ELSE fresh
         \/ ~connectorConnect /\ UNCHANGED <<timerId, timers, fresh>>
  BY <1>1, RetryFacts
<1> QED BY <1>2 DEF TypeOK

LEMMA RemoveTyped ==
    ASSUME TypeOK, NEW q \in Seq(Tasks), RemoveAndResetChannel(q)
    PROVE  /\ channel' \in Channels /\ ready' \subseteq Fd
           /\ queue' \in Seq(Tasks) /\ Len(queue') = Len(q) + 1
<1>1. channel' \in Channels BY ChannelFacts DEF RemoveAndResetChannel
<1>2. queue' = Push(q, ResetTask) BY DEF RemoveAndResetChannel, ResetTask
<1>3. queue' \in Seq(Tasks) /\ Len(queue') = Len(q) + 1 BY <1>2, PushFacts, TaskFacts
<1>4. ready' \subseteq Fd BY DEF RemoveAndResetChannel, TypeOK
<1> QED BY <1>1, <1>3, <1>4

LEMMA StopInLoopTyped ==
    ASSUME TypeOK, StopInLoop
    PROVE  TypeOK'
<1>1. /\ AtHead("stopInLoop") /\ todo' = todo - 1
      /\ UNCHANGED <<pc, due, connectorConnect, clientVars, call, historyVars>>
  BY DEF StopInLoop
<1>2. Tail(queue) \in Seq(Tasks) /\ todo' \in 0..Len(Tail(queue)) BY <1>1, AtHeadFacts, TailFacts
<1>3. CASE /\ RemoveAndResetChannel(Tail(queue)) /\ open' = open \ {channel.fd}
           /\ Retry(connectorConnect, retryDelay) /\ UNCHANGED gaveUp
  <2>1. /\ channel' \in Channels /\ ready' \subseteq Fd
        /\ queue' \in Seq(Tasks) /\ Len(queue') = Len(Tail(queue)) + 1
    BY <1>2, <1>3, RemoveTyped
  <2>2. todo' \in 0..Len(queue') BY <1>2, <2>1
  <2>3. /\ state' \in {"kDisconnected", "kConnecting", "kConnected"}
        /\ timerId' \in TimerIds \cup {NoTimer} /\ retryDelay' \in Delays
        /\ timers' \subseteq TimerIds /\ fresh' \subseteq timers'
    BY <1>3, RetryTyped
  <2> QED BY <1>1, <1>3, <2>1, <2>2, <2>3 DEF TypeOK, Channels, Delays, clientVars, historyVars
<1>4. CASE queue' = Tail(queue) /\ UNCHANGED <<ready, attemptVars>>
  BY <1>1, <1>2, <1>4 DEF TypeOK, attemptVars, clientVars, historyVars
<1> QED BY <1>3, <1>4 DEF StopInLoop

LEMMA HandleTyped ==
    ASSUME TypeOK, HandleWrite \/ HandleError
    PROVE  TypeOK'
<1>1. /\ CanHandle /\ RemoveAndResetChannel(queue)
      /\ UNCHANGED <<pc, todo, due, gaveUp, connectorConnect, call, connects, stopped, lastIsStop>>
  BY DEF HandleWrite, HandleError, historyVars
<1>2. queue \in Seq(Tasks) /\ todo \in 0..Len(queue) BY DEF TypeOK
<1>3. /\ channel' \in Channels /\ ready' \subseteq Fd
      /\ queue' \in Seq(Tasks) /\ Len(queue') = Len(queue) + 1
  BY <1>1, <1>2, RemoveTyped
<1>4. todo' \in 0..Len(queue') BY <1>1, <1>2, <1>3
<1>5. channel.fd \in Fd BY <1>1, ChannelFacts DEF CanHandle
<1>6. CASE /\ Retry(connectorConnect, retryDelay) /\ open' = open \ {channel.fd}
           /\ UNCHANGED <<clientVars, stale>>
  <2>1. /\ state' \in {"kDisconnected", "kConnecting", "kConnected"}
        /\ timerId' \in TimerIds \cup {NoTimer} /\ retryDelay' \in Delays
        /\ timers' \subseteq TimerIds /\ fresh' \subseteq timers'
    BY <1>6, RetryTyped
  <2> QED BY <1>1, <1>3, <1>4, <1>6, <2>1 DEF TypeOK, Channels, Delays, clientVars
<1>7. CASE /\ state' = "kConnected" /\ NewConnection(channel.fd) /\ UNCHANGED open
           /\ UNCHANGED <<retryDelay, timerId, timers, fresh>>
  BY <1>1, <1>3, <1>4, <1>5, <1>7 DEF TypeOK, Channels, NewConnection
<1>8. CASE /\ state' = "kConnected" /\ open' = open \ {channel.fd}
           /\ UNCHANGED <<clientVars, stale>>
           /\ UNCHANGED <<retryDelay, timerId, timers, fresh>>
  BY <1>1, <1>3, <1>4, <1>8 DEF TypeOK, Channels, clientVars
<1> QED BY <1>6, <1>7, <1>8 DEF HandleWrite, HandleError, historyVars

LEMMA BatchTyped ==
    ASSUME TypeOK, ResetChannel \/ CancelInLoop \/ ConnectDestroyed
    PROVE  TypeOK'
<1>1. \E op : AtHead(op) BY DEF ResetChannel, CancelInLoop, ConnectDestroyed
<1>2. queue' = Tail(queue) /\ todo' = todo - 1 BY DEF ResetChannel, CancelInLoop, ConnectDestroyed
<1>3. queue' \in Seq(Tasks) /\ todo' \in 0..Len(queue') BY <1>1, <1>2, AtHeadFacts, TailFacts
<1>4. CASE ResetChannel
  BY <1>3, <1>4 DEF ResetChannel, TypeOK, clientVars, historyVars
<1>5. CASE CancelInLoop
  BY <1>3, <1>5 DEF CancelInLoop, TypeOK, clientVars, historyVars
<1>6. CASE ConnectDestroyed
  <2>1. conns' \in [Fd -> {"none", "up", "closing"}] BY <1>6 DEF ConnectDestroyed, TypeOK
  <2> QED BY <1>3, <1>6, <2>1 DEF ConnectDestroyed, TypeOK, historyVars
<1> QED BY <1>4, <1>5, <1>6

LEMMA LoopTyped ==
    ASSUME TypeOK, Poll \/ NextIteration \/ \E fd \in Fd : CloseConnection(fd)
    PROVE  TypeOK'
<1>1. queue \in Seq(Tasks) /\ todo \in 0..Len(queue) /\ Len(queue) \in Nat BY DEF TypeOK
<1>2. CASE Poll
  <2>1. ready' \subseteq Fd BY <1>2 DEF Poll, Watched
  <2>2. due' \subseteq timers BY <1>2 DEF Poll
  <2> QED BY <1>2, <2>1, <2>2 DEF Poll, TypeOK, clientVars, historyVars
<1>3. CASE NextIteration
  BY <1>1, <1>3 DEF NextIteration, TypeOK, attemptVars, clientVars, historyVars
<1>4. ASSUME NEW fd \in Fd, CloseConnection(fd) PROVE TypeOK'
  <2>1. queue' \in Seq(Tasks) /\ Len(queue') = Len(queue) + 1
    BY <1>1, <1>4, PushFacts, TaskFacts DEF CloseConnection
  <2>2. todo' \in 0..Len(queue') BY <1>1, <1>4, <2>1 DEF CloseConnection
  <2>3. pc' \in {"events", "restart"} /\ stale' \in BOOLEAN /\ connection' \in Fd \cup {NoFd}
    BY <1>4 DEF CloseConnection, TypeOK
  <2> QED BY <1>4, <2>1, <2>2, <2>3 DEF CloseConnection, TypeOK, attemptVars
<1> QED BY <1>2, <1>3, <1>4

LEMMA CallTyped ==
    ASSUME TypeOK, NEW t \in User,
           \/ ConnectCall(t) \/ StopCall(t) \/ StartSet(t) \/ StartQueue(t)
           \/ StopSet(t) \/ StopQueue(t) \/ StopCancel(t)
    PROVE  TypeOK'
<1>1. queue \in Seq(Tasks) /\ todo \in 0..Len(queue) /\ Len(queue) \in Nat BY DEF TypeOK
<1>2. ASSUME NEW to \in {"out", "startSet", "startQueue", "stopSet", "stopQueue", "stopCancel"},
             NEW from, Step(t, from, to)
      PROVE  call' \in [User -> {"out", "startSet", "startQueue", "stopSet", "stopQueue",
                                 "stopCancel"}]
  BY <1>2 DEF Step, TypeOK
<1>3. ASSUME NEW y \in Tasks, queue' = Push(queue, y)
      PROVE  queue' \in Seq(Tasks) /\ todo \in 0..Len(queue')
  BY <1>1, <1>3, PushFacts
<1>4. CASE ConnectCall(t)
  <2>1. connects' \in 0..MaxConnects BY <1>4, NumberFacts DEF ConnectCall, TypeOK
  <2>2. lastIsStop' \in BOOLEAN /\ clientConnect' \in BOOLEAN BY <1>4 DEF ConnectCall
  <2> QED BY <1>2, <1>4, <2>1, <2>2 DEF ConnectCall, TypeOK, loopVars, attemptVars
<1>5. CASE StopCall(t)
  <2>1. lastIsStop' = NobodyConnects BY <1>5 DEF StopCall
  <2>2. lastIsStop' \in BOOLEAN BY <2>1, Zenon DEF NobodyConnects
  <2>3. clientConnect' \in BOOLEAN /\ stopped' \in BOOLEAN BY <1>5 DEF StopCall
  <2> QED BY <1>2, <1>5, <2>2, <2>3 DEF StopCall, TypeOK, loopVars, attemptVars
<1>6. CASE StartSet(t)
  BY <1>2, <1>6 DEF StartSet, TypeOK, loopVars, attemptVars, clientVars, historyVars
<1>7. CASE StartQueue(t)
  <2>1. queue' \in Seq(Tasks) /\ todo \in 0..Len(queue')
    BY <1>3, <1>7, TaskFacts DEF StartQueue, StartTask
  <2> QED BY <1>2, <1>7, <2>1 DEF StartQueue, TypeOK, attemptVars, clientVars, historyVars
<1>8. CASE StopSet(t)
  <2>1. connectorConnect' \in BOOLEAN BY <1>8 DEF StopSet
  <2> QED BY <1>2, <1>8, <2>1 DEF StopSet, TypeOK, loopVars, attemptVars, clientVars, historyVars
<1>9. CASE StopQueue(t)
  <2>1. queue' \in Seq(Tasks) /\ todo \in 0..Len(queue')
    BY <1>3, <1>9, TaskFacts DEF StopQueue, StopTask
  <2> QED BY <1>2, <1>9, <2>1 DEF StopQueue, TypeOK, attemptVars, clientVars, historyVars
<1>10. CASE StopCancel(t)
  <2>1. PICK id \in {timerId, NoTimer} : queue' = Push(queue, CancelTask(id))
    BY <1>10 DEF StopCancel
  <2>2. id \in TimerIds \cup {NoTimer} BY DEF TypeOK
  <2>3. queue' \in Seq(Tasks) /\ todo \in 0..Len(queue') BY <1>3, <2>1, <2>2, TaskFacts
  <2> QED BY <1>2, <1>10, <2>3 DEF StopCancel, TypeOK, attemptVars, clientVars, historyVars
<1> QED BY <1>4, <1>5, <1>6, <1>7, <1>8, <1>9, <1>10

LEMMA InLoopTyped ==
    ASSUME TypeOK, StopCalledInLoop \/ Disconnect \/ Destroy
    PROVE  TypeOK'
<1>1. queue \in Seq(Tasks) /\ todo \in 0..Len(queue) /\ Len(queue) \in Nat BY DEF TypeOK
<1>2. ASSUME StopConnector
      PROVE  /\ queue' \in Seq(Tasks) /\ todo \in 0..Len(queue') /\ connectorConnect' \in BOOLEAN
             /\ timers' \subseteq TimerIds /\ fresh' \subseteq timers' /\ due' \subseteq TimerIds
  <2>1. queue' = Push(queue, StopTask) BY <1>2 DEF StopConnector, StopTask
  <2>2. queue' \in Seq(Tasks) /\ Len(queue') = Len(queue) + 1 BY <1>1, <2>1, PushFacts, TaskFacts
  <2>3. connectorConnect' \in BOOLEAN BY <1>2 DEF StopConnector
  <2> QED BY <1>1, <1>2, <2>2, <2>3 DEF StopConnector, TypeOK
<1>3. CASE StopCalledInLoop
  <2>1. StopConnector BY <1>3 DEF StopCalledInLoop
  <2>2. lastIsStop' = NobodyConnects BY <1>3 DEF StopCalledInLoop
  <2>3. lastIsStop' \in BOOLEAN BY <2>2, Zenon DEF NobodyConnects
  <2>4. clientConnect' \in BOOLEAN /\ stopped' \in BOOLEAN BY <1>3 DEF StopCalledInLoop
  <2> QED BY <1>2, <1>3, <2>1, <2>3, <2>4 DEF StopCalledInLoop, TypeOK
<1>4. CASE Disconnect
  <2>1. clientConnect' \in BOOLEAN /\ stopped' \in BOOLEAN BY <1>4 DEF Disconnect
  <2> QED BY <1>4, <2>1 DEF Disconnect, TypeOK, loopVars, attemptVars
<1>5. CASE Destroy
  <2>1. CASE connection # NoFd /\ closeCallback' = "detail"
              /\ UNCHANGED <<queue, due, connectorConnect, timers, fresh>>
    BY <1>5, <2>1 DEF Destroy, TypeOK
  <2>2. CASE StopConnector /\ UNCHANGED closeCallback
    BY <1>2, <1>5, <2>2 DEF Destroy, TypeOK
  <2> QED BY <1>5, <2>1, <2>2 DEF Destroy
<1> QED BY <1>3, <1>4, <1>5

LEMMA TypeStep == TypeOK /\ [Next]_vars => TypeOK'
<1> SUFFICES ASSUME TypeOK, [Next]_vars PROVE TypeOK' OBVIOUS
<1>1. CASE Next
  BY <1>1, NextCases, RunStartTyped, StopInLoopTyped, BatchTyped, LoopTyped, RetryTimerTyped,
     HandleTyped, RestartTyped, StartAttemptTyped, ConnectInLoopTyped, CallTyped, InLoopTyped
<1>2. CASE UNCHANGED vars
  BY <1>2 DEF vars, loopVars, attemptVars, clientVars, historyVars, TypeOK
<1> QED BY <1>1, <1>2

LEMMA TypeInit == Init => TypeOK
<1> SUFFICES ASSUME Init PROVE TypeOK OBVIOUS
<1>1. queue \in Seq(Tasks) /\ todo \in 0..Len(queue) BY DEF Init
<1>2. kInitRetryDelay \in kInitRetryDelay..kMaxRetryDelay /\ 0 \in 0..MaxConnects BY NumberFacts
<1> QED BY <1>1, <1>2 DEF Init, TypeOK

(* The variables of Connector and TcpClient keep their types, for any      *)
(* number of connect() calls: no descriptor or timer is taken that does    *)
(* not exist, and retryDelayMs_ stays between its first value and its      *)
(* limit.                                                                  *)
THEOREM TypeCorrect == Spec => []TypeOK
  BY TypeInit, TypeStep, PTL DEF Spec

-----------------------------------------------------------------------------
(* The beginning and the end of an attempt. *)

(* What a step that may begin an attempt finds: no attempt, no connection, *)
(* no timer, and a client that is not destroyed.                           *)
Idle ==
    /\ channel = NoChannel /\ NoneUp /\ timers = {} /\ ~destroyed
    /\ \A t \in User : ~Starting(t)

LEMMA StartedInv ==
    ASSUME ClientInv, TypeOK', Idle, Begun \/ Scheduled \/ Failed, due' = {},
           UNCHANGED <<ready, retry, connection, destroyed, conns, closeCallback, call, stopped, stale>>,
           connects' > 0, connectorConnect', clientConnect \/ stopped => clientConnect' \/ stopped',
           pc' \in {"functors", "events"}, pc' = "functors" => InBatch,
           pc' # "functors" => todo' = 0,
           ~Contains(queue', StartTask),
           \A x : Contains(queue', x) => Contains(queue, x),
           \A x : Single(queue, x) => Single(queue', x)
    PROVE  ClientInv'
<1> USE DEF ClientInv
<1>1. ~Contains(queue', ResetTask) /\ ~channel.active /\ ready = {}
  <2>1. ~channel.active BY NoChannelFacts DEF Idle
  <2>2. ~Contains(queue, ResetTask) BY DEF Idle, ChannelInv
  <2>3. ready = {} BY <2>1 DEF Idle, NoneUp, PhaseInv, TypeOK
  <2> QED BY <2>1, <2>2, <2>3
<1>2. /\ channel'.active <=> state' = "kConnecting"
      /\ channel' # NoChannel => channel'.active
  BY <1>1, NoChannelFacts DEF Begun, Scheduled, Failed, Idle
<1>3. SocketsOwned'
  <2>1. CASE Begun
    <3>1. PICK fd \in Fd \ open : channel' = [fd |-> fd, active |-> TRUE] /\ open' = open \cup {fd}
      BY <2>1 DEF Begun
    <3>2. channel'.active /\ channel'.fd = fd BY <3>1
    <3> QED BY <1>1, <3>1, <3>2 DEF SocketsOwned
  <2>2. CASE UNCHANGED <<channel, open>> BY <2>2 DEF SocketsOwned
  <2> QED BY <2>1, <2>2 DEF Scheduled, Failed
<1>4. QueueInv' BY DEF QueueInv
<1>5. TokenInv'
  <2>1. NoneUp' /\ (\A t \in User : ~Starting(t)') BY DEF Idle, NoneUp, Starting
  <2>2. state' # "kDisconnected" => timers' = {} BY DEF Begun, Scheduled, Failed, Idle
  <2>3. timers' \subseteq {timerId'} BY DEF Begun, Scheduled, Failed, Idle
  <2> QED BY <2>1, <2>2, <2>3 DEF TokenInv, NoneUp, AtStart
<1>6. PhaseInv' BY <1>1 DEF PhaseInv, InBatch
<1>7. ChannelInv' BY <1>1, <1>2 DEF ChannelInv, Before, Contains
<1>8. DestroyInv' BY DEF DestroyInv, Idle
<1>9. TryInv'
  <2>1. ASSUME ~stopped PROVE Unhindered' BY <2>1 DEF TryInv, Unhindered
  <2>2. gaveUp' \/ Underway' BY DEF Begun, Scheduled, Failed, Underway, Idle
  <2> QED BY <2>1, <2>2 DEF TryInv
<1> QED BY <1>3, <1>4, <1>5, <1>6, <1>7, <1>8, <1>9

(* What a step that ends an attempt finds, and what deleting its channel   *)
(* leaves to the next batch.                                               *)
LEMMA AttemptFacts ==
    ASSUME ClientInv, state = "kConnecting"
    PROVE  /\ channel.active /\ channel.fd \in Fd /\ channel # NoChannel
           /\ conns[channel.fd] = "none" /\ NoneUp
           /\ timers = {} /\ due = {} /\ connects > 0 /\ pc # "restart" /\ ~AtStart
           /\ ~Contains(queue, StartTask) /\ ~Contains(queue, ResetTask)
           /\ \A t \in User : ~Starting(t)
           /\ ready \subseteq {channel.fd}
           /\ destroyed => ~connectorConnect
<1> USE DEF ClientInv
<1>1. channel.active BY DEF ChannelInv
<1>2. channel.fd \in Fd /\ channel # NoChannel BY <1>1, ChannelFacts
<1>3. conns[channel.fd] = "none" BY <1>1 DEF SocketsOwned
<1>4. NoneUp BY DEF TokenInv, NoneUp
<1>5. /\ timers = {} /\ due = {} /\ connects # 0 /\ pc # "restart" /\ ~AtStart
      /\ ~Contains(queue, StartTask) /\ \A t \in User : ~Starting(t)
  BY DEF TokenInv, Nothing
<1>6. connects > 0 BY <1>5 DEF TypeOK
<1>7. ~Contains(queue, ResetTask) BY <1>1 DEF ChannelInv
<1>8. ready \subseteq {channel.fd} BY <1>4 DEF PhaseInv, NoneUp, TypeOK
<1>9. destroyed => ~connectorConnect BY DEF DestroyInv
<1> QED BY <1>1, <1>2, <1>3, <1>4, <1>5, <1>6, <1>7, <1>8, <1>9

LEMMA RemoveFacts ==
    ASSUME TypeOK, NEW q \in Seq(Tasks), channel # NoChannel, ready \subseteq {channel.fd},
           ~Contains(q, ResetTask), RemoveAndResetChannel(q)
    PROVE  /\ channel' # NoChannel /\ ~channel'.active /\ ready' = {}
           /\ \A x : Contains(queue', x) <=> Contains(q, x) \/ x = ResetTask
           /\ \A x : Single(q, x) => Single(queue', x)
<1>1. channel' # NoChannel /\ ~channel'.active BY ChannelFacts DEF RemoveAndResetChannel
<1>2. ready' = {} BY DEF RemoveAndResetChannel
<1>3. queue' = Push(q, ResetTask) BY DEF RemoveAndResetChannel, ResetTask
<1> QED BY <1>1, <1>2, <1>3, PushFacts, TaskFacts

LEMMA EndedInv ==
    ASSUME ClientInv, TypeOK', state = "kConnecting", NEW q \in Seq(Tasks),
           \A x : Contains(q, x) => Contains(queue, x),
           \A x : Single(queue, x) => Single(q, x),
           RemoveAndResetChannel(q), open' = open \ {channel.fd},
           Retry(connectorConnect, retryDelay),
           UNCHANGED <<pc, due, gaveUp, connectorConnect, clientVars, call, historyVars>>,
           ~InBatch => todo' = todo
    PROVE  ClientInv'
<1> USE DEF ClientInv, clientVars, historyVars
<1>1. /\ channel.active /\ channel.fd \in Fd /\ channel # NoChannel
      /\ conns[channel.fd] = "none" /\ NoneUp
      /\ timers = {} /\ due = {} /\ connects > 0 /\ pc # "restart" /\ ~AtStart
      /\ ~Contains(queue, StartTask) /\ ~Contains(queue, ResetTask)
      /\ \A t \in User : ~Starting(t)
      /\ ready \subseteq {channel.fd}
      /\ destroyed => ~connectorConnect
  BY AttemptFacts
<1>2. /\ channel' # NoChannel /\ ~channel'.active /\ ready' = {}
      /\ \A x : Contains(queue', x) <=> Contains(q, x) \/ x = ResetTask
      /\ \A x : Single(q, x) => Single(queue', x)
  BY <1>1, RemoveFacts
<1>3. ResetTask # StartTask /\ ResetTask # StopTask
      /\ (\A id : ResetTask # CancelTask(id)) /\ \A fd : ResetTask # DestroyTask(fd)
  BY TaskFacts
<1>4. connectorConnect \in BOOLEAN /\ retryDelay \in Delays BY DEF TypeOK, Delays
<1>5. /\ state' = "kDisconnected"
      /\ \/ /\ connectorConnect
            /\ \E id \in TimerIds \ (timers \cup due \cup {timerId}) :
                  /\ timerId' = id /\ timers' = timers \cup {id}
                  /\ fresh' = IF InBatch THEN fresh \cup {id} ELSE fresh
         \/ ~connectorConnect /\ UNCHANGED <<timerId, timers, fresh>>
  BY <1>4, RetryFacts
<1>6. NoneUp' /\ (\A t \in User : ~Starting(t)') BY <1>1 DEF NoneUp, Starting
<1>7. timers' \subseteq {timerId'} /\ (pc = "functors" => timers' \ fresh' = {})
  BY <1>1, <1>5 DEF InBatch
<1>8. SocketsOwned' BY <1>1, <1>2 DEF SocketsOwned
<1>9. QueueInv' BY <1>2, <1>3 DEF QueueInv
<1>10. TokenInv' BY <1>1, <1>2, <1>3, <1>5, <1>6, <1>7 DEF TokenInv, NoneUp, AtStart
<1>11. PhaseInv' BY <1>1, <1>2 DEF PhaseInv, InBatch
<1>12. ChannelInv' BY <1>1, <1>2, <1>5, <1>6, <1>7 DEF ChannelInv
<1>13. DestroyInv' BY <1>1, <1>6 DEF DestroyInv
<1>14. TryInv'
  <2>1. ASSUME ~stopped PROVE Unhindered' /\ connectorConnect
    <3>1. Unhindered BY <2>1 DEF TryInv
    <3>2. connectorConnect BY <1>1, <3>1 DEF Unhindered, Starting
    <3> QED BY <1>2, <1>3, <3>1, <3>2 DEF Unhindered
  <2>2. connectorConnect => Underway' BY <1>1, <1>5 DEF Underway
  <2> QED BY <2>1, <2>2 DEF TryInv
<1> QED BY <1>8, <1>9, <1>10, <1>11, <1>12, <1>13, <1>14

-----------------------------------------------------------------------------
(* Steps that begin an attempt. *)

LEMMA RunStartStep ==
    ASSUME ClientInv, TypeOK', RunStartInLoop
    PROVE  ClientInv'
<1> USE DEF ClientInv
<1>1. /\ AtHead("startInLoop") /\ queue' = Tail(queue) /\ todo' = todo - 1 /\ StartInLoop
      /\ UNCHANGED <<pc, ready, due, connectorConnect, clientVars, call, historyVars>>
  BY DEF RunStartInLoop
<1>2. /\ pc = "functors" /\ queue \in Seq(Tasks) /\ todo \in 1..Len(queue)
      /\ Head(queue) = StartTask
  BY <1>1, AtHeadFacts, HeadFacts
<1>3. /\ Contains(queue, StartTask)
      /\ \A x : Contains(queue', x) => Contains(queue, x)
      /\ \A x : x # StartTask /\ Contains(queue, x) => Contains(queue', x)
      /\ \A x : Single(queue, x) => Single(queue', x)
      /\ Single(queue, StartTask) => ~Contains(queue', StartTask)
  BY <1>1, <1>2, TailFacts
<1>4. ~Contains(queue', StartTask) BY <1>3 DEF QueueInv
<1>5. Nothing /\ connects # 0 /\ \A t \in User : ~Starting(t) BY <1>3 DEF TokenInv
<1>6. connects > 0 BY <1>5 DEF TypeOK
<1>7. CASE connectorConnect /\ Connect(retryDelay)
  <2>1. retryDelay \in Delays BY DEF TypeOK, Delays
  <2>2. Begun \/ Scheduled \/ Failed BY <1>7, <2>1, ConnectFacts
  <2>3. ~destroyed BY <1>5, <1>7 DEF DestroyInv, Nothing
  <2>4. Idle BY <1>5, <2>3 DEF Idle, Nothing
  <2>5. due' = {} BY <1>1, <1>5 DEF Nothing
  <2> QED BY <1>1, <1>2, <1>3, <1>4, <1>6, <1>7, <2>2, <2>4, <2>5, StartedInv
          DEF clientVars, historyVars, InBatch
<1>8. CASE ~connectorConnect /\ UNCHANGED attemptVars
  <2> USE DEF attemptVars, clientVars, historyVars
  <2>1. stopped BY <1>5, <1>6, <1>8 DEF TryInv, Unhindered, Starting
  <2>2. ResetTask # StartTask BY TaskFacts
  <2>3. SocketsOwned' BY <1>1, <1>8 DEF SocketsOwned
  <2>4. QueueInv' BY <1>1, <1>3, <1>8 DEF QueueInv
  <2>5. TokenInv'
    <3>1. Nothing' BY <1>1, <1>5, <1>8 DEF Nothing, NoneUp
    <3>2. \A t \in User : ~Starting(t)' BY <1>1, <1>5 DEF Starting
    <3> QED BY <1>1, <1>4, <1>5, <1>8, <3>1, <3>2 DEF TokenInv, Nothing, NoneUp, AtStart
  <2>6. PhaseInv' BY <1>1, <1>2, <1>8 DEF PhaseInv, InBatch
  <2>7. ChannelInv'
    <3>1. Before(queue, ResetTask, todo) => Before(queue', ResetTask, todo')
      BY <1>1, <1>2, TailFacts
    <3> QED BY <1>1, <1>3, <1>8, <2>2, <3>1 DEF ChannelInv, NoneUp
  <2>8. DestroyInv' BY <1>1, <1>8 DEF DestroyInv, NoneUp
  <2>9. TryInv' BY <1>1, <2>1 DEF TryInv
  <2> QED BY <2>3, <2>4, <2>5, <2>6, <2>7, <2>8, <2>9
<1> QED BY <1>1, <1>7, <1>8 DEF StartInLoop

LEMMA RetryTimerStep ==
    ASSUME ClientInv, TypeOK', RetryTimer
    PROVE  ClientInv'
<1> USE DEF ClientInv
<1>1. /\ pc = "events" /\ StartInLoop
      /\ UNCHANGED <<pc, queue, todo, ready, connectorConnect, clientVars, call, historyVars>>
  BY DEF RetryTimer
<1>2. due # {} /\ due' = {} /\ timers = {} BY DEF RetryTimer, TokenInv
<1>3. state = "kDisconnected" /\ channel = NoChannel BY <1>2 DEF TokenInv, ChannelInv
<1>4. NoneUp BY <1>3 DEF TokenInv, NoneUp
<1>5. connects # 0 /\ ~Contains(queue, StartTask) /\ \A t \in User : ~Starting(t)
  BY <1>2 DEF TokenInv, Nothing
<1>6. connects > 0 BY <1>5 DEF TypeOK
<1>7. CASE connectorConnect /\ Connect(retryDelay)
  <2>1. retryDelay \in Delays BY DEF TypeOK, Delays
  <2>2. Begun \/ Scheduled \/ Failed BY <1>7, <2>1, ConnectFacts
  <2>3. ~destroyed BY <1>3, <1>7 DEF DestroyInv
  <2>4. Idle BY <1>2, <1>3, <1>4, <1>5, <2>3 DEF Idle
  <2>5. todo' = 0 BY <1>1 DEF PhaseInv, InBatch
  <2> QED BY <1>1, <1>2, <1>5, <1>6, <1>7, <2>2, <2>4, <2>5, StartedInv
          DEF clientVars, historyVars
<1>8. CASE ~connectorConnect /\ UNCHANGED attemptVars
  <2> USE DEF attemptVars, clientVars, historyVars
  <2>1. stopped BY <1>5, <1>6, <1>8 DEF TryInv, Unhindered, Starting
  <2>3. SocketsOwned' BY <1>1, <1>8 DEF SocketsOwned
  <2>4. QueueInv' BY <1>1, <1>8 DEF QueueInv
  <2>5. TokenInv'
    <3>2. \A t \in User : ~Starting(t)' BY <1>1, <1>5 DEF Starting
    <3> QED BY <1>1, <1>2, <1>3, <1>5, <1>8, <3>2 DEF TokenInv, NoneUp, AtStart
  <2>6. PhaseInv' BY <1>1, <1>2, <1>8 DEF PhaseInv, InBatch
  <2>7. ChannelInv' BY <1>1, <1>2, <1>8 DEF ChannelInv, NoneUp
  <2>8. DestroyInv' BY <1>1, <1>8 DEF DestroyInv, NoneUp
  <2>9. TryInv' BY <1>1, <2>1 DEF TryInv
  <2> QED BY <2>3, <2>4, <2>5, <2>6, <2>7, <2>8, <2>9
<1> QED BY <1>1, <1>7, <1>8 DEF StartInLoop

LEMMA StartAttemptStep ==
    ASSUME ClientInv, TypeOK', StartAttempt
    PROVE  ClientInv'
<1> USE DEF ClientInv
<1>1. /\ AtStart /\ StartInLoop /\ pc' \in {"functors", "events"} /\ (pc' = "functors" <=> InBatch)
      /\ UNCHANGED <<queue, todo, ready, due, connectorConnect, clientVars, call, historyVars>>
  BY DEF StartAttempt
<1>2. /\ Nothing /\ connects # 0 /\ ~destroyed /\ ~Contains(queue, StartTask)
      /\ \A t \in User : ~Starting(t)
  BY <1>1 DEF TokenInv
<1>3. connects > 0 BY <1>2 DEF TypeOK
<1>4. pc' # "functors" => todo' = 0 BY <1>1 DEF PhaseInv
<1>5. CASE connectorConnect /\ Connect(retryDelay)
  <2>1. retryDelay \in Delays BY DEF TypeOK, Delays
  <2>2. Begun \/ Scheduled \/ Failed BY <1>5, <2>1, ConnectFacts
  <2>3. Idle BY <1>2 DEF Idle, Nothing
  <2>4. due' = {} BY <1>1, <1>2 DEF Nothing
  <2> QED BY <1>1, <1>2, <1>3, <1>4, <1>5, <2>2, <2>3, <2>4, StartedInv DEF clientVars, historyVars
<1>6. CASE ~connectorConnect /\ UNCHANGED attemptVars
  <2> USE DEF attemptVars, clientVars, historyVars
  <2>1. stopped BY <1>2, <1>3, <1>6 DEF TryInv, Unhindered, Starting
  <2>2. ~AtStart' /\ (InBatch' <=> InBatch) BY <1>1 DEF AtStart, InBatch
  <2>3. SocketsOwned' BY <1>1, <1>6 DEF SocketsOwned
  <2>4. QueueInv' BY <1>1, <1>6 DEF QueueInv
  <2>5. TokenInv'
    <3>1. \A t \in User : ~Starting(t)' BY <1>1, <1>2 DEF Starting
    <3> QED BY <1>1, <1>2, <1>6, <2>2, <3>1 DEF TokenInv, NoneUp, Nothing
  <2>6. PhaseInv' BY <1>1, <1>6, <2>2 DEF PhaseInv
  <2>7. ChannelInv' BY <1>1, <1>2, <1>6 DEF ChannelInv, NoneUp, Nothing
  <2>8. DestroyInv' BY <1>1, <1>6 DEF DestroyInv, NoneUp
  <2>9. TryInv' BY <1>1, <2>1 DEF TryInv
  <2> QED BY <2>3, <2>4, <2>5, <2>6, <2>7, <2>8, <2>9
<1> QED BY <1>1, <1>5, <1>6 DEF StartInLoop

LEMMA RestartStep ==
    ASSUME ClientInv, TypeOK', Restart
    PROVE  ClientInv'
<1> USE DEF ClientInv, clientVars, historyVars
<1>1. /\ pc = "restart" /\ pc' = "startInEvents" /\ connectorConnect' = TRUE
      /\ state' = "kDisconnected"
      /\ UNCHANGED <<queue, todo, ready, due, channel, timerId, timers, fresh, open, gaveUp,
                     clientVars, call, historyVars>>
  BY DEF Restart
<1>2. /\ state = "kConnected" /\ NoneUp /\ channel = NoChannel /\ ~destroyed
      /\ timers = {} /\ due = {}
  BY <1>1 DEF TokenInv
<1>3. connects # 0 /\ ~Contains(queue, StartTask) /\ \A t \in User : ~Starting(t)
  BY <1>2 DEF TokenInv, Nothing
<1>4. Nothing' /\ AtStart' /\ ~InBatch' /\ ~InBatch
  BY <1>1, <1>2 DEF Nothing, NoneUp, AtStart, InBatch
<1>5. \A t \in User : ~Starting(t)' BY <1>1, <1>3 DEF Starting
<1>6. SocketsOwned' BY <1>1 DEF SocketsOwned
<1>7. QueueInv' BY <1>1 DEF QueueInv
<1>8. TokenInv' BY <1>1, <1>2, <1>3, <1>4, <1>5 DEF TokenInv, Nothing, NoneUp
<1>9. PhaseInv' BY <1>1, <1>4 DEF PhaseInv
<1>10. ChannelInv' BY <1>1, <1>2, NoChannelFacts DEF ChannelInv
<1>11. DestroyInv' BY <1>1, <1>2 DEF DestroyInv
<1>12. TryInv' BY <1>1, <1>4 DEF TryInv, Unhindered, Underway
<1> QED BY <1>6, <1>7, <1>8, <1>9, <1>10, <1>11, <1>12

LEMMA ConnectInLoopStep ==
    ASSUME MaxConnects <= 1, ClientInv, TypeOK', ConnectInLoop
    PROVE  ClientInv'
<1> USE DEF ClientInv, attemptVars
<1>1. /\ pc \in {"functors", "events"} /\ ~destroyed /\ connects < MaxConnects
      /\ connects' = connects + 1 /\ clientConnect' = TRUE /\ connectorConnect' = TRUE
      /\ pc' = IF InBatch THEN "startInFunctors" ELSE "startInEvents"
      /\ UNCHANGED <<queue, todo, ready, due, attemptVars, retry, connection, destroyed, conns,
                     closeCallback, call, stopped, stale>>
  BY DEF ConnectInLoop, InLoopThread
<1>2. connects = 0 /\ connects' # 0 BY <1>1, NumberFacts DEF TypeOK
<1>3. Nothing /\ ~Contains(queue, StartTask) /\ \A t \in User : ~Starting(t)
  BY <1>2 DEF TokenInv
<1>4. AtStart' /\ (InBatch' <=> InBatch) /\ pc' # "functors" /\ pc' # "restart"
  BY <1>1 DEF AtStart, InBatch
<1>5. Nothing' /\ \A t \in User : ~Starting(t)' BY <1>1, <1>3 DEF Nothing, NoneUp, Starting
<1>6. SocketsOwned' BY <1>1 DEF SocketsOwned
<1>7. QueueInv' BY <1>1 DEF QueueInv
<1>8. TokenInv' BY <1>1, <1>2, <1>3, <1>4, <1>5 DEF TokenInv, Nothing, NoneUp
<1>9. PhaseInv' BY <1>1, <1>4 DEF PhaseInv
<1>10. ChannelInv' BY <1>1, <1>4 DEF ChannelInv, NoneUp
<1>11. DestroyInv' BY <1>1 DEF DestroyInv
<1>12. TryInv' BY <1>1, <1>4 DEF TryInv, Unhindered, Underway
<1> QED BY <1>6, <1>7, <1>8, <1>9, <1>10, <1>11, <1>12

-----------------------------------------------------------------------------
(* Steps that end an attempt, and the connection. *)

LEMMA StopInLoopStep ==
    ASSUME ClientInv, TypeOK', StopInLoop
    PROVE  ClientInv'
<1> USE DEF ClientInv
<1>1. /\ AtHead("stopInLoop") /\ todo' = todo - 1
      /\ UNCHANGED <<pc, due, connectorConnect, clientVars, call, historyVars>>
  BY DEF StopInLoop
<1>2. /\ pc = "functors" /\ queue \in Seq(Tasks) /\ todo \in 1..Len(queue)
      /\ Head(queue) = StopTask
  BY <1>1, AtHeadFacts, HeadFacts
<1>3. /\ Contains(queue, StopTask) /\ Tail(queue) \in Seq(Tasks)
      /\ \A x : Contains(Tail(queue), x) => Contains(queue, x)
      /\ \A x : x # StopTask /\ Contains(queue, x) => Contains(Tail(queue), x)
      /\ \A x : Single(queue, x) => Single(Tail(queue), x)
      /\ Before(queue, ResetTask, todo) => Before(Tail(queue), ResetTask, todo - 1)
  BY <1>2, TailFacts
<1>4. CASE /\ state = "kConnecting"
           /\ RemoveAndResetChannel(Tail(queue)) /\ open' = open \ {channel.fd}
           /\ Retry(connectorConnect, retryDelay) /\ UNCHANGED gaveUp
  BY <1>1, <1>2, <1>3, <1>4, EndedInv DEF InBatch
<1>5. CASE queue' = Tail(queue) /\ UNCHANGED <<ready, attemptVars>>
  <2> USE DEF attemptVars, clientVars, historyVars
  <2>1. stopped BY <1>3 DEF TryInv, Unhindered
  <2>2. ResetTask # StopTask /\ StartTask # StopTask BY TaskFacts
  <2>3. SocketsOwned' BY <1>1, <1>5 DEF SocketsOwned
  <2>4. QueueInv' BY <1>1, <1>3, <1>5 DEF QueueInv
  <2>5. TokenInv' BY <1>1, <1>3, <1>5 DEF TokenInv, Nothing, NoneUp, Starting, AtStart
  <2>6. PhaseInv' BY <1>1, <1>2, <1>5 DEF PhaseInv, InBatch
  <2>7. ChannelInv' BY <1>1, <1>3, <1>5, <2>2 DEF ChannelInv, NoneUp
  <2>8. DestroyInv' BY <1>1, <1>5 DEF DestroyInv, NoneUp
  <2>9. TryInv' BY <1>1, <2>1 DEF TryInv
  <2> QED BY <2>3, <2>4, <2>5, <2>6, <2>7, <2>8, <2>9
<1> QED BY <1>4, <1>5 DEF StopInLoop

(* A connection is established: it is handed to TcpClient, or closed       *)
(* because stop() was called meanwhile.                                    *)
LEMMA EstablishedInv ==
    ASSUME ClientInv, TypeOK', CanHandle, RemoveAndResetChannel(queue), state' = "kConnected",
           \/ connectorConnect /\ NewConnection(channel.fd) /\ UNCHANGED open
           \/ ~connectorConnect /\ open' = open \ {channel.fd} /\ UNCHANGED <<clientVars, stale>>,
           UNCHANGED <<retryDelay, timerId, timers, fresh, pc, todo, due, gaveUp, connectorConnect,
                       call, connects, stopped, lastIsStop>>
    PROVE  ClientInv'
<1> USE DEF ClientInv
<1>1. state = "kConnecting" /\ pc = "events" BY DEF CanHandle
<1>2. /\ channel.active /\ channel.fd \in Fd /\ channel # NoChannel
      /\ conns[channel.fd] = "none" /\ NoneUp
      /\ timers = {} /\ due = {} /\ connects > 0
      /\ ~Contains(queue, StartTask) /\ ~Contains(queue, ResetTask)
      /\ \A t \in User : ~Starting(t)
      /\ ready \subseteq {channel.fd}
      /\ destroyed => ~connectorConnect
  BY <1>1, AttemptFacts
<1>3. queue \in Seq(Tasks) BY DEF TypeOK
<1>4. /\ channel' # NoChannel /\ ~channel'.active /\ ready' = {}
      /\ \A x : Contains(queue', x) <=> Contains(queue, x) \/ x = ResetTask
      /\ \A x : Single(queue, x) => Single(queue', x)
  BY <1>2, <1>3, RemoveFacts
<1>5. ResetTask # StartTask /\ ResetTask # StopTask
      /\ (\A id : ResetTask # CancelTask(id)) /\ \A fd : ResetTask # DestroyTask(fd)
  BY TaskFacts
<1>6. PhaseInv' BY <1>1, <1>4 DEF PhaseInv, InBatch
<1>7. ChannelInv' BY <1>1, <1>2, <1>4 DEF ChannelInv
<1>8. \A t \in User : ~Starting(t)' BY <1>2 DEF Starting
<1>9. CASE connectorConnect /\ NewConnection(channel.fd) /\ UNCHANGED open
  <2>1. /\ ~destroyed /\ UNCHANGED <<clientConnect, retry, destroyed>>
        /\ connection' = channel.fd /\ closeCallback' = "client" /\ ~stale'
        /\ conns' = [conns EXCEPT ![channel.fd] = "up"]
    BY <1>2, <1>9 DEF NewConnection, DestroyInv
  <2>2. /\ conns'[channel.fd] = "up"
        /\ \A fd \in Fd : fd # channel.fd => conns'[fd] = conns[fd]
    BY <1>2, <2>1 DEF TypeOK
  <2>3. SocketsOwned' BY <1>2, <1>4, <1>9, <2>2 DEF SocketsOwned
  <2>4. QueueInv'
    <3>1. ~Contains(queue, DestroyTask(channel.fd)) BY <1>2 DEF QueueInv
    <3> QED BY <1>4, <1>5, <2>2, <3>1 DEF QueueInv
  <2>5. TokenInv' BY <1>1, <1>2, <1>4, <1>5, <1>8, <2>1, <2>2 DEF TokenInv, NoneUp, AtStart
  <2>6. DestroyInv' BY <2>1 DEF DestroyInv
  <2>7. TryInv'
    <3>1. connection' # NoFd BY <1>2, <2>1, NumberFacts
    <3>2. Underway' BY <3>1 DEF Underway
    <3>3. ASSUME ~stopped PROVE Unhindered' BY <1>4, <1>5, <2>1, <3>3 DEF TryInv, Unhindered
    <3> QED BY <3>2, <3>3 DEF TryInv
  <2> QED BY <1>6, <1>7, <2>3, <2>4, <2>5, <2>6, <2>7
<1>10. CASE ~connectorConnect /\ open' = open \ {channel.fd} /\ UNCHANGED <<clientVars, stale>>
  <2> USE DEF clientVars
  <2>1. stopped BY <1>2, <1>10 DEF TryInv, Unhindered, Starting
  <2>2. SocketsOwned' BY <1>2, <1>4, <1>10 DEF SocketsOwned
  <2>3. QueueInv' BY <1>4, <1>5, <1>10 DEF QueueInv
  <2>4. NoneUp' BY <1>2, <1>10 DEF NoneUp
  <2>5. TokenInv' BY <1>1, <1>2, <1>4, <1>5, <1>8, <1>10, <2>4 DEF TokenInv, NoneUp, AtStart
  <2>6. DestroyInv' BY <1>10, <2>4 DEF DestroyInv
  <2>7. TryInv' BY <2>1 DEF TryInv
  <2> QED BY <1>6, <1>7, <2>2, <2>3, <2>5, <2>6, <2>7
<1> QED BY <1>9, <1>10

LEMMA HandleStep ==
    ASSUME ClientInv, TypeOK', HandleWrite \/ HandleError
    PROVE  ClientInv'
<1>1. /\ CanHandle /\ RemoveAndResetChannel(queue)
      /\ UNCHANGED <<pc, todo, due, gaveUp, connectorConnect, call, connects, stopped, lastIsStop>>
  BY DEF HandleWrite, HandleError, historyVars
<1>2. queue \in Seq(Tasks) /\ state = "kConnecting" BY <1>1 DEF ClientInv, TypeOK, CanHandle
<1>3. CASE /\ Retry(connectorConnect, retryDelay) /\ open' = open \ {channel.fd}
           /\ UNCHANGED <<clientVars, stale>>
  BY <1>1, <1>2, <1>3, EndedInv DEF historyVars
<1>4. CASE /\ state' = "kConnected"
           /\ \/ connectorConnect /\ NewConnection(channel.fd) /\ UNCHANGED open
              \/ ~connectorConnect /\ open' = open \ {channel.fd} /\ UNCHANGED <<clientVars, stale>>
           /\ UNCHANGED <<retryDelay, timerId, timers, fresh>>
  BY <1>1, <1>4, EstablishedInv
<1> QED BY <1>3, <1>4 DEF HandleWrite, HandleError, historyVars

LEMMA CloseStep ==
    ASSUME ClientInv, TypeOK', NEW fd \in Fd, CloseConnection(fd)
    PROVE  ClientInv'
<1> USE DEF ClientInv
<1>1. /\ pc = "events" /\ fd \in ready /\ conns[fd] = "up" /\ ready' = ready \ {fd}
      /\ conns' = [conns EXCEPT ![fd] = "closing"] /\ queue' = Push(queue, DestroyTask(fd))
      /\ UNCHANGED <<todo, due, attemptVars, connectorConnect, clientConnect, retry,
                     destroyed, closeCallback, call, connects, stopped, lastIsStop>>
  BY DEF CloseConnection
<1>2. channel = NoChannel /\ state = "kConnected" /\ connection = fd
  BY <1>1 DEF ChannelInv, TokenInv
<1>3. conns'[fd] = "closing" /\ \A f \in Fd : f # fd => conns'[f] = conns[f] BY <1>1 DEF TypeOK
<1>4. NoneUp' BY <1>2, <1>3 DEF NoneUp, TokenInv
<1>5. ~NoneUp BY <1>1 DEF NoneUp
<1>6. /\ connects # 0 /\ ~Contains(queue, StartTask) /\ timers = {} /\ due = {}
      /\ \A t \in User : ~Starting(t)
  BY <1>2 DEF TokenInv, Nothing
<1>7. \A t \in User : ~Starting(t)' BY <1>1, <1>6 DEF Starting
<1>8. ~Contains(queue, DestroyTask(fd)) BY <1>1 DEF QueueInv
<1>9. queue \in Seq(Tasks) /\ DestroyTask(fd) \in Tasks BY TaskFacts DEF TypeOK
<1>10. /\ \A x : Contains(queue', x) <=> Contains(queue, x) \/ x = DestroyTask(fd)
       /\ \A x : Single(queue, x) => Single(queue', x)
  BY <1>1, <1>8, <1>9, PushFacts
<1>11. /\ DestroyTask(fd) # StartTask /\ DestroyTask(fd) # StopTask /\ DestroyTask(fd) # ResetTask
       /\ (\A id : DestroyTask(fd) # CancelTask(id))
       /\ \A f : f # fd => DestroyTask(fd) # DestroyTask(f)
  BY TaskFacts
<1>12. \/ /\ closeCallback = "client" /\ ~destroyed /\ ~stale' /\ connection' = NoFd
          /\ pc' = IF clientConnect /\ retry THEN "restart" ELSE pc
       \/ destroyed /\ ~stale' /\ UNCHANGED <<connection, pc>>
  BY <1>5 DEF CloseConnection, DestroyInv
<1>13. SocketsOwned' BY <1>1, <1>3, <1>2, NoChannelFacts DEF SocketsOwned, attemptVars
<1>14. QueueInv' BY <1>3, <1>10, <1>11 DEF QueueInv
<1>15. TokenInv'
  <2>1. UNCHANGED <<state, channel, timers, due, connects, destroyed>> BY <1>1 DEF attemptVars
  <2>2. connects' # 0 /\ ~Contains(queue', StartTask) BY <1>6, <1>10, <1>11, <2>1
  <2>3. ~destroyed' => connection' = NoFd BY <1>12, <2>1
  <2> QED BY <1>1, <1>2, <1>4, <1>6, <1>7, <1>12, <2>1, <2>2, <2>3 DEF TokenInv, NoneUp, AtStart
<1>16. PhaseInv' BY <1>1, <1>3, <1>12 DEF PhaseInv, attemptVars, InBatch
<1>17. ChannelInv' BY <1>1, <1>2, <1>6, <1>10, <1>11, <1>12 DEF ChannelInv, attemptVars
<1>18. DestroyInv' BY <1>1, <1>2, <1>4, <1>5, <1>12 DEF DestroyInv, attemptVars
<1>19. TryInv'
  <2>1. ASSUME ~stopped PROVE Unhindered' /\ Underway'
    <3>1. Unhindered BY <2>1 DEF TryInv
    <3>2. Unhindered' BY <1>1, <1>10, <1>11, <3>1 DEF Unhindered
    <3>3. clientConnect /\ ~destroyed BY <3>1 DEF Unhindered
    <3> QED BY <1>1, <1>2, <1>12, <3>2, <3>3 DEF Underway, attemptVars
  <2> QED BY <1>1, <2>1 DEF TryInv
<1> QED BY <1>13, <1>14, <1>15, <1>16, <1>17, <1>18, <1>19

-----------------------------------------------------------------------------
(* Other functors, and the phases of the loop. *)

LEMMA BatchStep ==
    ASSUME ClientInv, TypeOK', ResetChannel \/ CancelInLoop \/ ConnectDestroyed
    PROVE  ClientInv'
<1> USE DEF ClientInv
<1>1. /\ \E op : AtHead(op)
      /\ queue' = Tail(queue) /\ todo' = todo - 1
      /\ UNCHANGED <<pc, ready, state, retryDelay, timerId, gaveUp, connectorConnect,
                     clientConnect, retry, connection, destroyed, closeCallback, call,
                     connects, stopped, lastIsStop, stale>>
  BY DEF ResetChannel, CancelInLoop, ConnectDestroyed, clientVars, historyVars
<1>2. /\ pc = "functors" /\ queue \in Seq(Tasks) /\ todo \in 1..Len(queue)
      /\ Head(queue) \in Tasks
  BY <1>1, AtHeadFacts
<1>3. /\ Contains(queue, Head(queue))
      /\ \A x : Contains(queue', x) => Contains(queue, x)
      /\ \A x : x # Head(queue) /\ Contains(queue, x) => Contains(queue', x)
      /\ \A x : Single(queue, x) => Single(queue', x)
      /\ Single(queue, Head(queue)) => ~Contains(queue', Head(queue))
      /\ \A x : Before(queue, x, todo) => Before(queue', x, todo')
  BY <1>1, <1>2, TailFacts
<1>4. due = {} /\ ready = {} BY <1>2 DEF PhaseInv
<1>5. CASE ResetChannel
  <2>1. Head(queue) = ResetTask BY <1>2, <1>5, HeadFacts, AtHeadFacts DEF ResetChannel
  <2>2. ~Contains(queue', ResetTask) BY <1>3, <2>1 DEF QueueInv
  <2>3. channel # NoChannel /\ ~channel.active BY <1>3, <2>1 DEF ChannelInv
  <2>4. channel' = NoChannel /\ ~channel'.active /\ UNCHANGED <<due, timers, fresh, open, conns>>
    BY <1>5, NoChannelFacts DEF ResetChannel, clientVars
  <2>5. StartTask # ResetTask BY TaskFacts
  <2>6. SocketsOwned' BY <2>3, <2>4 DEF SocketsOwned
  <2>7. QueueInv' BY <1>3, <2>4 DEF QueueInv
  <2>8. TokenInv' BY <1>1, <1>3, <2>4 DEF TokenInv, Nothing, NoneUp, Starting, AtStart
  <2>9. PhaseInv' BY <1>1, <1>2, <1>4, <2>4 DEF PhaseInv, InBatch
  <2>10. ChannelInv' BY <1>1, <1>4, <2>2, <2>3, <2>4 DEF ChannelInv, Before, Contains
  <2>11. DestroyInv' BY <1>1, <2>4 DEF DestroyInv, NoneUp
  <2>12. TryInv' BY <1>1, <1>3, <2>1, <2>4, <2>5 DEF TryInv, Unhindered, Underway, Starting, AtStart
  <2> QED BY <2>6, <2>7, <2>8, <2>9, <2>10, <2>11, <2>12
<1>6. CASE CancelInLoop
  <2>1. /\ Head(queue).arg \in TimerIds \cup {NoTimer}
        /\ Head(queue) = CancelTask(Head(queue).arg)
    BY <1>2, <1>6, HeadFacts, AtHeadFacts DEF CancelInLoop
  <2>2. stopped BY <1>3, <2>1 DEF TryInv, Unhindered
  <2>3. /\ timers' \subseteq timers /\ due' = {} /\ timers' \ fresh' \subseteq timers \ fresh
        /\ UNCHANGED <<channel, open, conns>>
    BY <1>4, <1>6 DEF CancelInLoop, clientVars
  <2>4. Head(queue) # StartTask /\ Head(queue) # ResetTask BY <2>1, TaskFacts
  <2>5. SocketsOwned' BY <2>3 DEF SocketsOwned
  <2>6. QueueInv' BY <1>3, <2>3 DEF QueueInv
  <2>7. TokenInv' BY <1>1, <1>3, <1>4, <2>3 DEF TokenInv, Nothing, NoneUp, Starting, AtStart
  <2>8. PhaseInv' BY <1>1, <1>2, <1>4, <2>3 DEF PhaseInv, InBatch
  <2>9. ChannelInv' BY <1>1, <1>3, <1>4, <2>3, <2>4 DEF ChannelInv, NoneUp
  <2>10. DestroyInv' BY <1>1, <2>3 DEF DestroyInv, NoneUp
  <2>11. TryInv' BY <1>1, <2>2 DEF TryInv
  <2> QED BY <2>5, <2>6, <2>7, <2>8, <2>9, <2>10, <2>11
<1>7. CASE ConnectDestroyed
  <2> DEFINE fd == Head(queue).arg
  <2>1. fd \in Fd /\ Head(queue) = DestroyTask(fd)
    BY <1>2, <1>7, HeadFacts, AtHeadFacts DEF ConnectDestroyed
  <2>2. conns[fd] = "closing" /\ ~Contains(queue', Head(queue)) BY <1>3, <2>1 DEF QueueInv
  <2>3. /\ conns' = [conns EXCEPT ![fd] = "none"] /\ open' = open \ {fd}
        /\ UNCHANGED <<channel, due, timers, fresh>>
    BY <1>7 DEF ConnectDestroyed
  <2>4. conns'[fd] = "none" /\ \A f \in Fd : f # fd => conns'[f] = conns[f]
    BY <2>1, <2>3 DEF TypeOK
  <2>5. /\ DestroyTask(fd) # StartTask /\ DestroyTask(fd) # ResetTask
        /\ \A f : f # fd => DestroyTask(fd) # DestroyTask(f)
    BY TaskFacts
  <2> HIDE DEF fd
  <2>6. \A f \in Fd : conns'[f] = "up" <=> conns[f] = "up" BY <2>2, <2>4
  <2>7. SocketsOwned' BY <2>1, <2>2, <2>3, <2>4 DEF SocketsOwned
  <2>8. QueueInv' BY <1>3, <2>1, <2>2, <2>4 DEF QueueInv
  <2>9. TokenInv'
    <3>1. connection \in Fd \cup {NoFd} BY DEF TypeOK
    <3> QED BY <1>1, <1>3, <2>3, <2>6, <3>1 DEF TokenInv, Nothing, NoneUp, Starting, AtStart
  <2>10. PhaseInv' BY <1>1, <1>2, <1>4, <2>3 DEF PhaseInv, InBatch
  <2>11. ChannelInv' BY <1>1, <1>3, <1>4, <2>1, <2>3, <2>5, <2>6 DEF ChannelInv, NoneUp
  <2>12. DestroyInv' BY <1>1, <2>6 DEF DestroyInv, NoneUp
  <2>13. TryInv' BY <1>1, <1>3, <2>1, <2>3, <2>5 DEF TryInv, Unhindered, Underway, Starting, AtStart
  <2> QED BY <2>7, <2>8, <2>9, <2>10, <2>11, <2>12, <2>13
<1> QED BY <1>5, <1>6, <1>7

(* The timer of a retry and the descriptor of a new connection are found   *)
(* only by a poll that follows the deletion of the attempt's channel.      *)
LEMMA PollStep ==
    ASSUME ClientInv, TypeOK', Poll
    PROVE  ClientInv'
<1> USE DEF ClientInv, clientVars, historyVars
<1>1. /\ pc = "functors" /\ todo = 0 /\ pc' = "events" /\ ready' \in SUBSET Watched
      /\ due' \in SUBSET (IF queue = <<>> THEN timers ELSE timers \ fresh)
      /\ timers' = timers \ due' /\ fresh' = {}
      /\ UNCHANGED <<queue, todo, state, channel, retryDelay, timerId, open, gaveUp,
                     connectorConnect, clientVars, call, historyVars>>
  BY DEF Poll
<1>2. due = {} BY <1>1 DEF PhaseInv, InBatch
<1>3. due' \subseteq timers /\ timers' \cup due' = timers \cup due /\ timers' \cap due' = {}
  BY <1>1, <1>2
<1>4. Before(queue, ResetTask, 0) => ~Contains(queue, ResetTask) BY DEF Before, Contains, TypeOK
<1>5. queue = <<>> => ~Contains(queue, ResetTask) BY DEF Contains
<1>6. ASSUME due' # {} PROVE channel = NoChannel
  <2>1. state = "kDisconnected" BY <1>3, <1>6 DEF TokenInv
  <2>2. ~Contains(queue, ResetTask) BY <1>1, <1>4, <1>5, <1>6 DEF ChannelInv
  <2> QED BY <2>1, <2>2 DEF ChannelInv
<1>7. ASSUME NEW fd \in ready', conns[fd] = "up" PROVE channel = NoChannel
  <2>1. fd \in Fd BY <1>1, <1>7 DEF Watched
  <2>2. state = "kConnected" /\ ~NoneUp BY <1>7, <2>1 DEF TokenInv, NoneUp
  <2>3. ~Contains(queue, ResetTask) BY <1>1, <1>4, <2>2 DEF ChannelInv
  <2> QED BY <2>2, <2>3 DEF ChannelInv
<1>8. \A fd \in ready' : conns[fd] = "up" \/ (channel.active /\ channel.fd = fd)
  BY <1>1 DEF Watched
<1>9. SocketsOwned' BY <1>1 DEF SocketsOwned
<1>10. QueueInv' BY <1>1 DEF QueueInv
<1>11. TokenInv' BY <1>1, <1>2, <1>3 DEF TokenInv, Nothing, NoneUp, Starting, AtStart
<1>12. PhaseInv' BY <1>1, <1>8 DEF PhaseInv, InBatch
<1>13. ChannelInv' BY <1>1, <1>6, <1>7 DEF ChannelInv
<1>14. DestroyInv' BY <1>1 DEF DestroyInv, NoneUp
<1>15. TryInv' BY <1>1, <1>3 DEF TryInv, Unhindered, Underway, Starting, AtStart
<1> QED BY <1>9, <1>10, <1>11, <1>12, <1>13, <1>14, <1>15

LEMMA IterationStep ==
    ASSUME ClientInv, TypeOK', NextIteration
    PROVE  ClientInv'
<1> USE DEF ClientInv, attemptVars, clientVars, historyVars
<1>1. /\ pc = "events" /\ ready = {} /\ due = {} /\ pc' = "functors" /\ todo' = Len(queue)
      /\ UNCHANGED <<queue, ready, due, attemptVars, connectorConnect, clientVars, call, historyVars>>
  BY DEF NextIteration
<1>2. Before(queue', ResetTask, todo') BY <1>1 DEF Before, TypeOK
<1>3. SocketsOwned' BY <1>1 DEF SocketsOwned
<1>4. QueueInv' BY <1>1 DEF QueueInv
<1>5. TokenInv' BY <1>1 DEF TokenInv, Nothing, NoneUp, Starting, AtStart
<1>6. PhaseInv' BY <1>1 DEF PhaseInv, InBatch
<1>7. ChannelInv' BY <1>1, <1>2 DEF ChannelInv
<1>8. DestroyInv' BY <1>1 DEF DestroyInv, NoneUp
<1>9. TryInv' BY <1>1 DEF TryInv, Unhindered, Underway, Starting, AtStart
<1> QED BY <1>3, <1>4, <1>5, <1>6, <1>7, <1>8, <1>9

-----------------------------------------------------------------------------
(* Calls of other threads. *)

LEMMA ConnectCallStep ==
    ASSUME MaxConnects <= 1, ClientInv, TypeOK', NEW t \in User, ConnectCall(t)
    PROVE  ClientInv'
<1> USE DEF ClientInv, loopVars, attemptVars
<1>1. /\ ~destroyed /\ connects < MaxConnects /\ connects' = connects + 1 /\ clientConnect' = TRUE
      /\ call[t] = "out" /\ call' = [call EXCEPT ![t] = "startSet"]
      /\ UNCHANGED <<loopVars, attemptVars, connectorConnect, retry, connection,
                     destroyed, conns, closeCallback, stopped, stale>>
  BY DEF ConnectCall, Step
<1>2. connects = 0 /\ connects' # 0 BY <1>1, NumberFacts DEF TypeOK
<1>3. Nothing /\ ~Contains(queue, StartTask) /\ \A u \in User : ~Starting(u)
  BY <1>2 DEF TokenInv
<1>4. call'[t] = "startSet" /\ \A u \in User : u # t => call'[u] = call[u] BY <1>1 DEF TypeOK
<1>5. Nothing' BY <1>1, <1>3 DEF Nothing, NoneUp
<1>6. Starting(t)' /\ \A u \in User : u # t => ~Starting(u)' BY <1>3, <1>4 DEF Starting
<1>7. SocketsOwned' BY <1>1 DEF SocketsOwned
<1>8. QueueInv' BY <1>1 DEF QueueInv
<1>9. TokenInv' BY <1>1, <1>2, <1>3, <1>5, <1>6 DEF TokenInv, NoneUp, AtStart
<1>10. PhaseInv' BY <1>1 DEF PhaseInv, InBatch
<1>11. ChannelInv' BY <1>1 DEF ChannelInv, NoneUp
<1>12. DestroyInv' BY <1>1 DEF DestroyInv
<1>13. TryInv'
  <2>1. ASSUME ~stopped PROVE Unhindered' BY <1>1, <1>4, <2>1 DEF TryInv, Unhindered
  <2> QED BY <1>1, <1>6, <2>1 DEF TryInv
<1> QED BY <1>7, <1>8, <1>9, <1>10, <1>11, <1>12, <1>13

LEMMA StartSetStep ==
    ASSUME ClientInv, TypeOK', NEW t \in User, StartSet(t)
    PROVE  ClientInv'
<1> USE DEF ClientInv, loopVars, attemptVars, clientVars, historyVars
<1>1. /\ call[t] = "startSet" /\ call' = [call EXCEPT ![t] = "startQueue"]
      /\ connectorConnect' = TRUE
      /\ UNCHANGED <<loopVars, attemptVars, clientVars, historyVars>>
  BY DEF StartSet, Step
<1>2. call'[t] = "startQueue" /\ \A u \in User : u # t => call'[u] = call[u] BY <1>1 DEF TypeOK
<1>3. ~destroyed BY <1>1 DEF DestroyInv
<1>4. \A u \in User : Starting(u)' <=> Starting(u) BY <1>1, <1>2 DEF Starting
<1>5. Starting(t) BY <1>1 DEF Starting
<1>6. SocketsOwned' BY <1>1 DEF SocketsOwned
<1>7. QueueInv' BY <1>1 DEF QueueInv
<1>8. TokenInv' BY <1>1, <1>4 DEF TokenInv, NoneUp, Nothing, AtStart
<1>9. PhaseInv' BY <1>1 DEF PhaseInv, InBatch
<1>10. ChannelInv' BY <1>1 DEF ChannelInv, NoneUp
<1>11. DestroyInv' BY <1>1, <1>3 DEF DestroyInv
<1>12. TryInv'
  <2>1. ASSUME ~stopped PROVE Unhindered' BY <1>1, <1>2, <2>1 DEF TryInv, Unhindered
  <2> QED BY <1>1, <1>4, <1>5, <2>1 DEF TryInv
<1> QED BY <1>6, <1>7, <1>8, <1>9, <1>10, <1>11, <1>12

LEMMA StartQueueStep ==
    ASSUME ClientInv, TypeOK', NEW t \in User, StartQueue(t)
    PROVE  ClientInv'
<1> USE DEF ClientInv, attemptVars, clientVars, historyVars
<1>1. /\ call[t] = "startQueue" /\ call' = [call EXCEPT ![t] = "out"]
      /\ queue' = Push(queue, StartTask)
      /\ UNCHANGED <<pc, todo, ready, due, attemptVars, connectorConnect, clientVars, historyVars>>
  BY DEF StartQueue, Step, StartTask
<1>2. call'[t] = "out" /\ \A u \in User : u # t => call'[u] = call[u] BY <1>1 DEF TypeOK
<1>3. Starting(t) BY <1>1 DEF Starting
<1>4. /\ Nothing /\ connects # 0 /\ ~Contains(queue, StartTask)
      /\ \A u \in User : Starting(u) => u = t
  BY <1>3 DEF TokenInv
<1>5. Nothing' BY <1>1, <1>4 DEF Nothing, NoneUp
<1>6. \A u \in User : ~Starting(u)' BY <1>2, <1>4 DEF Starting
<1>7. queue \in Seq(Tasks) BY DEF TypeOK
<1>8. /\ \A x : Contains(queue', x) <=> Contains(queue, x) \/ x = StartTask
      /\ \A x : Single(queue, x) => Single(queue', x)
      /\ \A x, n : x # StartTask /\ Before(queue, x, n) => Before(queue', x, n)
  BY <1>1, <1>4, <1>7, PushFacts, TaskFacts
<1>9. /\ StartTask # ResetTask /\ StartTask # StopTask
      /\ (\A id : StartTask # CancelTask(id)) /\ \A fd : StartTask # DestroyTask(fd)
  BY TaskFacts
<1>10. SocketsOwned' BY <1>1 DEF SocketsOwned
<1>11. QueueInv' BY <1>1, <1>8, <1>9 DEF QueueInv
<1>12. TokenInv' BY <1>1, <1>3, <1>4, <1>5, <1>6 DEF TokenInv, NoneUp, Nothing, AtStart
<1>13. PhaseInv' BY <1>1 DEF PhaseInv, InBatch
<1>14. ChannelInv' BY <1>1, <1>8, <1>9 DEF ChannelInv, NoneUp
<1>15. DestroyInv' BY <1>1, <1>2 DEF DestroyInv, NoneUp
<1>16. TryInv'
  <2>1. ASSUME ~stopped PROVE Unhindered'
    <3>1. Unhindered BY <2>1 DEF TryInv
    <3>2. \A u \in User : call[u] # "startSet" BY <1>1, <1>4 DEF Starting
    <3>3. connects > 0 BY <1>4 DEF TypeOK
    <3>4. connectorConnect BY <3>1, <3>2, <3>3 DEF Unhindered
    <3> QED BY <1>1, <1>2, <1>8, <1>9, <3>1, <3>4 DEF Unhindered
  <2>2. Underway' BY <1>8 DEF Underway
  <2> QED BY <1>1, <2>1, <2>2 DEF TryInv
<1> QED BY <1>10, <1>11, <1>12, <1>13, <1>14, <1>15, <1>16

(* stop() in another thread. *)
LEMMA StopFlagsStep ==
    ASSUME ClientInv, TypeOK', NEW t \in User, StopCall(t) \/ StopSet(t)
    PROVE  ClientInv'
<1> USE DEF ClientInv, loopVars, attemptVars, clientVars, historyVars
<1>1. PICK from \in {"out", "stopSet"}, to \in {"stopSet", "stopQueue"} :
         call[t] = from /\ call' = [call EXCEPT ![t] = to]
  BY DEF StopCall, StopSet, Step
<1>2. /\ UNCHANGED <<loopVars, attemptVars, retry, connection, destroyed, conns, closeCallback,
                     connects, stale>>
      /\ connectorConnect' => connectorConnect
  BY DEF StopCall, StopSet
<1>3. call'[t] = to /\ \A u \in User : u # t => call'[u] = call[u] BY <1>1 DEF TypeOK
<1>4. ~destroyed BY DEF StopCall, StopSet, Step, DestroyInv
<1>5. stopped' BY DEF StopCall, StopSet, Step, TryInv, Unhindered
<1>6. \A u \in User : Starting(u)' <=> Starting(u) BY <1>1, <1>3 DEF Starting
<1>7. SocketsOwned' BY <1>2 DEF SocketsOwned
<1>8. QueueInv' BY <1>2 DEF QueueInv
<1>9. TokenInv' BY <1>2, <1>6 DEF TokenInv, NoneUp, Nothing, AtStart
<1>10. PhaseInv' BY <1>2 DEF PhaseInv, InBatch
<1>11. ChannelInv' BY <1>2 DEF ChannelInv, NoneUp
<1>12. DestroyInv' BY <1>2, <1>4 DEF DestroyInv
<1>13. TryInv' BY <1>5 DEF TryInv
<1> QED BY <1>7, <1>8, <1>9, <1>10, <1>11, <1>12, <1>13

LEMMA StopQueuesStep ==
    ASSUME ClientInv, TypeOK', NEW t \in User, StopQueue(t) \/ StopCancel(t)
    PROVE  ClientInv'
<1> USE DEF ClientInv, attemptVars, clientVars, historyVars
<1>1. PICK from \in {"stopQueue", "stopCancel"}, to \in {"stopCancel", "out"} :
         call[t] = from /\ call' = [call EXCEPT ![t] = to]
  BY DEF StopQueue, StopCancel, Step
<1>2. UNCHANGED <<pc, todo, ready, due, attemptVars, connectorConnect, clientVars, historyVars>>
  BY DEF StopQueue, StopCancel
<1>3. call'[t] = to /\ \A u \in User : u # t => call'[u] = call[u] BY <1>1 DEF TypeOK
<1>4. ~destroyed /\ stopped BY <1>1 DEF DestroyInv, TryInv, Unhindered
<1>5. \A u \in User : Starting(u)' <=> Starting(u) BY <1>1, <1>3 DEF Starting
<1>6. PICK y \in Tasks : /\ queue' = Push(queue, y)
                         /\ y # StartTask /\ y # ResetTask /\ \A fd : y # DestroyTask(fd)
  <2>1. \A id : CancelTask(id) # StartTask /\ CancelTask(id) # ResetTask
                /\ \A fd : CancelTask(id) # DestroyTask(fd)
    BY TaskFacts
  <2>2. StopTask # StartTask /\ StopTask # ResetTask /\ \A fd : StopTask # DestroyTask(fd)
    BY TaskFacts
  <2>3. CASE StopQueue(t) BY <2>2, <2>3, TaskFacts DEF StopQueue, StopTask
  <2>4. CASE StopCancel(t)
    <3>1. PICK id \in {timerId, NoTimer} : queue' = Push(queue, CancelTask(id))
      BY <2>4 DEF StopCancel
    <3>2. id \in TimerIds \cup {NoTimer} BY DEF TypeOK
    <3> QED BY <2>1, <3>1, <3>2, TaskFacts
  <2> QED BY <2>3, <2>4
<1>7. queue \in Seq(Tasks) BY DEF TypeOK
<1>8. /\ \A x : x # y => (Contains(queue', x) <=> Contains(queue, x))
      /\ \A x : x # y /\ Single(queue, x) => Single(queue', x)
      /\ \A x, n : x # y /\ Before(queue, x, n) => Before(queue', x, n)
  BY <1>6, <1>7, PushFacts
<1>9. SocketsOwned' BY <1>2 DEF SocketsOwned
<1>10. QueueInv' BY <1>2, <1>6, <1>8 DEF QueueInv
<1>11. TokenInv' BY <1>2, <1>5, <1>6, <1>8 DEF TokenInv, NoneUp, Nothing, AtStart
<1>12. PhaseInv' BY <1>2 DEF PhaseInv, InBatch
<1>13. ChannelInv' BY <1>2, <1>6, <1>8 DEF ChannelInv, NoneUp
<1>14. DestroyInv' BY <1>2, <1>4 DEF DestroyInv
<1>15. TryInv' BY <1>2, <1>4 DEF TryInv
<1> QED BY <1>9, <1>10, <1>11, <1>12, <1>13, <1>14, <1>15

-----------------------------------------------------------------------------
(* Calls in the loop thread. *)

(* Connector::stop() only takes away: the flag, and a timer. *)
LEMMA StopConnectorFacts ==
    ASSUME ClientInv, StopConnector
    PROVE  /\ timers' \subseteq timers /\ due' \subseteq due /\ timers' \ fresh' \subseteq timers \ fresh
           /\ \A x : x # StopTask => (Contains(queue', x) <=> Contains(queue, x))
           /\ \A x : x # StopTask /\ Single(queue, x) => Single(queue', x)
           /\ \A x, n : x # StopTask /\ Before(queue, x, n) => Before(queue', x, n)
           /\ ~connectorConnect'
<1>1. queue \in Seq(Tasks) /\ StopTask \in Tasks BY TaskFacts DEF ClientInv, TypeOK
<1>2. queue' = Push(queue, StopTask) BY DEF StopConnector, StopTask
<1>3. /\ timers' \subseteq timers /\ due' \subseteq due /\ timers' \ fresh' \subseteq timers \ fresh
      /\ ~connectorConnect'
  BY DEF StopConnector
<1>4. /\ \A x : x # StopTask => (Contains(queue', x) <=> Contains(queue, x))
      /\ \A x : x # StopTask /\ Single(queue, x) => Single(queue', x)
      /\ \A x, n : x # StopTask /\ Before(queue, x, n) => Before(queue', x, n)
  BY <1>1, <1>2, PushFacts
<1> QED BY <1>3, <1>4

LEMMA StopConnectorStep ==
    ASSUME ClientInv, TypeOK', StopConnector,
           UNCHANGED <<pc, todo, ready, state, channel, timerId, open, connection, conns,
                       closeCallback, call, connects, stale>>,
           stopped', destroyed => destroyed',
           destroyed' /\ ~destroyed =>
              connection = NoFd /\ pc # "restart" /\ ~AtStart /\ \A t \in User : call[t] = "out"
    PROVE  ClientInv'
<1> USE DEF ClientInv
<1>1. /\ timers' \subseteq timers /\ due' \subseteq due /\ timers' \ fresh' \subseteq timers \ fresh
      /\ \A x : x # StopTask => (Contains(queue', x) <=> Contains(queue, x))
      /\ \A x : x # StopTask /\ Single(queue, x) => Single(queue', x)
      /\ \A x, n : x # StopTask /\ Before(queue, x, n) => Before(queue', x, n)
      /\ ~connectorConnect'
  BY StopConnectorFacts
<1>2. StopTask # StartTask /\ StopTask # ResetTask /\ \A fd : StopTask # DestroyTask(fd)
  BY TaskFacts
<1>3. ASSUME ~destroyed, destroyed' PROVE NoneUp BY <1>3, NumberFacts DEF TokenInv, NoneUp
<1>4. SocketsOwned' BY DEF SocketsOwned
<1>5. QueueInv' BY <1>1, <1>2 DEF QueueInv
<1>6. TokenInv' BY <1>1, <1>2 DEF TokenInv, NoneUp, Nothing, Starting, AtStart
<1>7. PhaseInv' BY <1>1 DEF PhaseInv, InBatch
<1>8. ChannelInv' BY <1>1, <1>2 DEF ChannelInv, NoneUp
<1>9. DestroyInv' BY <1>1, <1>3 DEF DestroyInv, NoneUp
<1>10. TryInv' BY DEF TryInv
<1> QED BY <1>4, <1>5, <1>6, <1>7, <1>8, <1>9, <1>10

LEMMA StopCalledStep ==
    ASSUME ClientInv, TypeOK', StopCalledInLoop
    PROVE  ClientInv'
  BY StopConnectorStep DEF StopCalledInLoop

LEMMA DisconnectStep ==
    ASSUME ClientInv, TypeOK', Disconnect
    PROVE  ClientInv'
<1> USE DEF ClientInv, loopVars, attemptVars
<1>1. /\ stopped' = TRUE
      /\ UNCHANGED <<loopVars, attemptVars, connectorConnect, retry, connection,
                     destroyed, conns, closeCallback, call, connects, lastIsStop, stale>>
  BY DEF Disconnect
<1>2. SocketsOwned' BY <1>1 DEF SocketsOwned
<1>3. QueueInv' BY <1>1 DEF QueueInv
<1>4. TokenInv' BY <1>1 DEF TokenInv, NoneUp, Nothing, Starting, AtStart
<1>5. PhaseInv' BY <1>1 DEF PhaseInv, InBatch
<1>6. ChannelInv' BY <1>1 DEF ChannelInv, NoneUp
<1>7. DestroyInv' BY <1>1 DEF DestroyInv, NoneUp
<1>8. TryInv' BY <1>1 DEF TryInv
<1> QED BY <1>2, <1>3, <1>4, <1>5, <1>6, <1>7, <1>8

LEMMA DestroyStep ==
    ASSUME ClientInv, TypeOK', Destroy
    PROVE  ClientInv'
<1> USE DEF ClientInv
<1>1. /\ pc # "restart" /\ ~AtStart /\ ~destroyed /\ destroyed' = TRUE /\ stopped' = TRUE
      /\ \A t \in User : call[t] = "out"
      /\ UNCHANGED <<pc, todo, ready, state, channel, retryDelay, timerId, open, gaveUp,
                     clientConnect, retry, connection, conns, call, connects, lastIsStop, stale>>
  BY DEF Destroy, InLoopThread, Quiet, AtStart
<1>2. CASE /\ connection # NoFd /\ closeCallback' = "detail"
           /\ UNCHANGED <<queue, due, connectorConnect, timers, fresh>>
  <2>1. connection \in Fd /\ conns[connection] = "up" BY <1>1, <1>2 DEF TokenInv, TypeOK
  <2>2. state = "kConnected" BY <2>1 DEF TokenInv
  <2>3. SocketsOwned' BY <1>1, <1>2 DEF SocketsOwned
  <2>4. QueueInv' BY <1>1, <1>2 DEF QueueInv
  <2>5. TokenInv' BY <1>1, <1>2 DEF TokenInv, NoneUp, Nothing, Starting, AtStart
  <2>6. PhaseInv' BY <1>1, <1>2 DEF PhaseInv, InBatch
  <2>7. ChannelInv' BY <1>1, <1>2 DEF ChannelInv, NoneUp
  <2>8. DestroyInv' BY <1>1, <1>2, <2>2 DEF DestroyInv
  <2>9. TryInv' BY <1>1 DEF TryInv
  <2> QED BY <2>3, <2>4, <2>5, <2>6, <2>7, <2>8, <2>9
<1>3. CASE connection = NoFd /\ StopConnector /\ UNCHANGED closeCallback
  BY <1>1, <1>3, StopConnectorStep
<1> QED BY <1>2, <1>3 DEF Destroy

-----------------------------------------------------------------------------
(* Theorems. *)

LEMMA ClientInit == Init => ClientInv
<1> SUFFICES ASSUME Init PROVE ClientInv OBVIOUS
<1> USE DEF Init
<1>1. TypeOK BY TypeInit
<1>2. \A x : ~Contains(queue, x) /\ Single(queue, x) BY DEF Contains, Single
<1>3. SocketsOwned BY NoChannelFacts DEF SocketsOwned
<1>4. QueueInv BY <1>2 DEF QueueInv
<1>5. TokenInv BY <1>2 DEF TokenInv, NoneUp, Nothing, Starting, AtStart
<1>6. PhaseInv BY DEF PhaseInv
<1>7. ChannelInv BY <1>2, NoChannelFacts DEF ChannelInv, NoneUp
<1>8. DestroyInv BY DEF DestroyInv
<1>9. TryInv BY <1>2 DEF TryInv, Unhindered
<1> QED BY <1>1, <1>3, <1>4, <1>5, <1>6, <1>7, <1>8, <1>9 DEF ClientInv

LEMMA ClientStep ==
    ASSUME MaxConnects <= 1
    PROVE  ClientInv /\ [Next]_vars => ClientInv'
<1> SUFFICES ASSUME ClientInv, [Next]_vars PROVE ClientInv' OBVIOUS
<1>1. TypeOK' BY TypeStep DEF ClientInv
<1>2. CASE Next
  BY <1>1, <1>2, NextCases, RunStartStep, StopInLoopStep, BatchStep, PollStep, IterationStep,
     RetryTimerStep, HandleStep, RestartStep, StartAttemptStep, CloseStep, ConnectInLoopStep,
     StopCalledStep, DisconnectStep, DestroyStep, ConnectCallStep, StartSetStep, StartQueueStep, StopFlagsStep,
     StopQueuesStep
<1>3. CASE UNCHANGED vars
  <2> USE <1>3 DEF ClientInv, vars, loopVars, attemptVars, clientVars, historyVars
  <2>1. SocketsOwned' BY DEF SocketsOwned
  <2>2. QueueInv' BY DEF QueueInv
  <2>3. TokenInv' BY DEF TokenInv, NoneUp, Nothing, Starting, AtStart
  <2>4. PhaseInv' BY DEF PhaseInv, InBatch
  <2>5. ChannelInv' BY DEF ChannelInv, NoneUp
  <2>6. DestroyInv' BY DEF DestroyInv, NoneUp
  <2>7. TryInv' BY DEF TryInv, Unhindered, Underway, Starting, AtStart
  <2> QED BY <1>1, <2>1, <2>2, <2>3, <2>4, <2>5, <2>6, <2>7
<1> QED BY <1>2, <1>3

(* With one connect(), the client keeps ClientInv, whatever is stopped,    *)
(* disconnected, lost or destroyed meanwhile, and in whichever thread.     *)
THEOREM ClientInvariant ==
    ASSUME MaxConnects <= 1
    PROVE  Spec => []ClientInv
  BY ClientInit, ClientStep, PTL DEF Spec

(* Connector and TcpClient neither leak a socket nor close one twice.      *)
THEOREM NoSocketLost ==
    ASSUME MaxConnects <= 1
    PROVE  Spec => []SocketsOwned
<1>1. ClientInv => SocketsOwned BY DEF ClientInv
<1> QED BY <1>1, ClientInvariant, PTL

LEMMA AssertionsFollow == ClientInv => Assertions
<1> SUFFICES ASSUME ClientInv PROVE Assertions OBVIOUS
<1> USE DEF ClientInv
<1>1. ASSUME AtHead("startInLoop") PROVE state = "kDisconnected" /\ channel = NoChannel
  <2>1. Head(queue) = StartTask /\ queue \in Seq(Tasks) /\ todo \in 1..Len(queue)
    BY <1>1, AtHeadFacts, HeadFacts
  <2>2. Contains(queue, StartTask) BY <2>1, TailFacts
  <2> QED BY <2>2 DEF TokenInv, Nothing
<1>2. due # {} => state = "kDisconnected" /\ channel = NoChannel BY DEF TokenInv, ChannelInv
<1>3. channel.active <=> state = "kConnecting" BY DEF ChannelInv
<1>4. AtStart => state = "kDisconnected" /\ channel = NoChannel BY DEF TokenInv, Nothing
<1> QED BY <1>1, <1>2, <1>3, <1>4 DEF Assertions

(* The assertions of Connector.cc hold in every interleaving of one        *)
(* connect() with stop(), disconnect(), the destructor and the network: in *)
(* particular connecting() finds channel_ empty although a functor of a    *)
(* later batch empties it.                                                 *)
THEOREM ConnectorAssertionsHold ==
    ASSUME MaxConnects <= 1
    PROVE  Spec => []Assertions
  BY ClientInvariant, AssertionsFollow, PTL

LEMMA TryingFollows == ClientInv => StillTrying
<1> SUFFICES ASSUME ClientInv, connects > 0, ~stopped, ~gaveUp, Quiet
             PROVE  \/ Queued("startInLoop") \/ AtStart
                    \/ state = "kConnecting" /\ channel.fd \in Watched
                    \/ state = "kDisconnected" /\ timers \cup due = {timerId}
                    \/ state = "kConnected" /\ (connection # NoFd \/ pc = "restart" \/ ~retry)
  BY DEF StillTrying
<1> USE DEF ClientInv
<1>1. \A t \in User : ~Starting(t) BY DEF Quiet, Starting
<1>2. Underway BY <1>1 DEF TryInv
<1>3. Contains(queue, StartTask) => Queued("startInLoop") BY TaskFacts DEF Contains, Queued
<1>4. ASSUME state = "kConnecting" PROVE channel.fd \in Watched
  <2>1. channel.active /\ channel.fd \in Fd BY <1>4, AttemptFacts
  <2>2. ASSUME NEW c \in [fd : Fd, active : BOOLEAN], c.active
        PROVE  c = [fd |-> c.fd, active |-> TRUE]
    BY <2>2
  <2>3. channel \in [fd : Fd, active : BOOLEAN] BY <2>1, NoChannelFacts DEF TypeOK
  <2>4. channel = [fd |-> channel.fd, active |-> TRUE] BY <2>1, <2>2, <2>3
  <2> QED BY <2>1, <2>4 DEF Watched
<1> QED BY <1>2, <1>3, <1>4 DEF Underway

(* The connector never forgets what it was told: until somebody stops it   *)
(* an attempt is queued, in progress or scheduled, or the connection is    *)
(* up, and with retry_ a lost connection is being replaced.                *)
THEOREM NeverIdle ==
    ASSUME MaxConnects <= 1
    PROVE  Spec => []StillTrying
  BY ClientInvariant, TryingFollows, PTL

(* ~TcpClient() in the loop thread leaves nothing behind that would call   *)
(* newConnection() or removeConnection() of the destroyed object.          *)
THEOREM NoCallAfterDestruction ==
    ASSUME MaxConnects <= 1
    PROVE  Spec => []NoStaleClient
<1>1. ClientInv => NoStaleClient BY DEF ClientInv, DestroyInv, NoStaleClient
<1> QED BY <1>1, ClientInvariant, PTL
=============================================================================

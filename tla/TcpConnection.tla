--------------------------- MODULE TcpConnection ---------------------------
(***************************************************************************)
(* net/TcpConnection.{h,cc} with the parts of net/TcpServer.cc and         *)
(* net/Channel.{h,cc} that create, watch and remove a connection: the life *)
(* of one accepted connection, from newConnection() in the server's base   *)
(* loop to the destructor, and the path of the bytes its user sends.       *)
(*                                                                         *)
(* The loops are taken at their contract (FunctorQueue.tla): each runs its *)
(* queued functors one at a time and in order, and calls a watcher between *)
(* them.  Loop threads and the user's own threads interleave; off the loop *)
(* send() is two steps and shutdown() three, because state_ is tested and  *)
(* set without a lock.                                                     *)
(***************************************************************************)
EXTENDS Naturals, Sequences, FiniteSets

CONSTANTS
    User,        \* threads of the user other than the loops' threads
    IoUser,      \* user code that runs in the connection's loop thread
    Message,     \* messages; each is sent at most once (bound)
    Nobody,      \* the sender of a message not sent yet
    Size,        \* bytes per message
    HighWaterMark

ASSUME ThreadAssumption == IoUser \notin User /\ Nobody \notin User \cup {IoUser}
ASSUME SizeAssumption == Size \in Nat \ {0} /\ HighWaterMark \in Nat \ {0}

VARIABLES
    state,          \* state_, or "none" before the constructor
    connections,    \* is the connection in TcpServer::connections_?
    active,         \* is channel_'s watcher started?
    events,         \* channel_'s interest
    queue,          \* the functors queued in each loop that hold the connection;
                    \* with setThreadNum(0) the base loop is the only loop
    handling,       \* the loop thread is in "message": messageCallback_, or "no"
    revents,        \* events of the current handleEvent() not handled yet
    outputBuffer,   \* outputBuffer_
    holders,        \* threads that keep a TcpConnectionPtr
    calling,        \* per thread: the next step of its send() or shutdown() call
    sending,        \* messages send() accepted off the loop, not queued yet
    unread,         \* kernel: unread data
    peerClosed,     \* kernel: the peer's FIN arrived
    reset,          \* kernel: RST arrived: "no", "pending" (SO_ERROR), "seen"
    writeShut,      \* kernel: we sent FIN
    wire,           \* history: bytes the kernel accepted
    sentBy,         \* history: whose send() accepted a message
    promised,       \* history: messages the caller of the effective shutdown()
                    \* had sent before
    callbacks       \* history: calls of connectionCallback_

connVars == <<state, connections, active, events, handling, revents, outputBuffer>>
callerVars == <<holders, calling, sending>>
kernelVars == <<unread, peerClosed, reset, writeShut>>
historyVars == <<wire, sentBy, promised, callbacks>>
vars == <<connVars, queue, callerVars, kernelVars, historyVars>>

Threads == User \cup {IoUser}
BaseLoop == "base"
Loops == DOMAIN queue
SameLoop == Loops = {BaseLoop}
IoLoop == IF SameLoop THEN BaseLoop ELSE "io"      \* the connection's loop
StateE == {"kConnecting", "kConnected", "kDisconnecting", "kDisconnected"}

Task(op) == [op |-> op]
SendTask(m) == [op |-> "sendInLoop", msg |-> m]
Tasks == {Task(op) : op \in {"connectEstablished", "connectDestroyed",
                             "removeConnection", "shutdownInLoop",
                             "writeComplete", "highWaterMark"}}
         \cup {SendTask(m) : m \in Message}

Byte == Message \X (1..Size)
Bytes(m) == [i \in 1..Size |-> <<m, i>>]
Suffix(s, n) == SubSeq(s, n + 1, Len(s))   \* s without its first n elements

TypeOK ==
    /\ state \in StateE \cup {"none"}
    /\ connections \in BOOLEAN /\ active \in BOOLEAN
    /\ events \subseteq {"READ", "WRITE"}
    /\ Loops \in {{BaseLoop}, {BaseLoop, "io"}}
    /\ queue \in [Loops -> Seq(Tasks)]
    /\ handling \in {"no", "message"}
    /\ revents \subseteq {"WRITE"}
    /\ outputBuffer \in Seq(Byte)
    /\ holders \subseteq Threads
    /\ calling \in [User -> {"out", "send", "set", "queue"}]
    /\ sending \subseteq Message
    /\ unread \in BOOLEAN /\ peerClosed \in BOOLEAN /\ writeShut \in BOOLEAN
    /\ reset \in {"no", "pending", "seen"}
    /\ wire \in Seq(Byte) /\ callbacks \in Seq({"UP", "DOWN"})
    /\ sentBy \in [Message -> Threads \cup {Nobody}]
    /\ promised \subseteq Message

-----------------------------------------------------------------------------
Init ==
    /\ state = "none"
    /\ connections = FALSE
    /\ active = FALSE
    /\ events = {}
    /\ \E loops \in {{BaseLoop}, {BaseLoop, "io"}} : queue = [l \in loops |-> <<>>]
    /\ handling = "no"
    /\ revents = {}
    /\ outputBuffer = <<>>
    /\ holders = {}
    /\ calling = [t \in User |-> "out"] /\ sending = {}
    /\ unread = FALSE /\ peerClosed = FALSE /\ reset = "no" /\ writeShut = FALSE
    /\ wire = <<>> /\ callbacks = <<>>
    /\ sentBy = [m \in Message |-> Nobody]
    /\ promised = {}

(* The shared_ptrs to the connection.  When none is left it is destroyed. *)
Referenced == connections \/ holders # {} \/ \E l \in Loops : queue[l] # <<>>

(* Code that may call the connection's methods: the user's threads that    *)
(* hold it, and callbacks in its loop thread.                              *)
MayCall(t) ==
    /\ t \in holders \/ (t = IoUser /\ handling = "message")
    /\ t \in User => calling[t] = "out"

Enqueue(l, task) == [queue EXCEPT ![l] = Append(@, task)]
isWriting == "WRITE" \in events

-----------------------------------------------------------------------------
(* TcpServer::newConnection() in the base loop: the constructor starts the *)
(* watcher with no interest, the map keeps the connection, and             *)
(* connectEstablished() goes through the connection's loop.                *)
Established ==
    /\ state' = "kConnected"
    /\ events' = {"READ"}
    /\ holders' = Threads
    /\ callbacks' = Append(callbacks, "UP")

(* Channel::Channel() starts the watcher, with no interest yet. *)
StartWatcher == active' = TRUE

NewConnection ==
    /\ state = "none"
    /\ connections' = TRUE
    /\ StartWatcher
    /\ \/ /\ SameLoop      \* runInLoop() in the loop thread: run at once
          /\ Established
          /\ UNCHANGED queue
       \/ /\ ~SameLoop
          /\ state' = "kConnecting"
          /\ queue' = Enqueue(IoLoop, Task("connectEstablished"))
          /\ UNCHANGED <<events, holders, callbacks>>
    /\ UNCHANGED <<handling, revents, outputBuffer, calling, sending, kernelVars,
                   wire, sentBy, promised>>

(* The loop runs the functor at the head of its queue. *)
AtHead(l, op) ==
    /\ queue[l] # <<>>
    /\ Head(queue[l]).op = op
    /\ l = IoLoop => handling = "no"

Dequeued(l) == [queue EXCEPT ![l] = Tail(@)]

ConnectEstablished ==
    /\ AtHead(IoLoop, "connectEstablished")
    /\ queue' = Dequeued(IoLoop)
    /\ Established
    /\ UNCHANGED <<connections, active, handling, revents, outputBuffer, calling,
                   sending, kernelVars, wire, sentBy, promised>>

(* Mutant: removeConnectionInLoop() only erases the map entry. *)
RemoveConnectionForgets ==
    /\ AtHead(BaseLoop, "removeConnection")
    /\ connections' = FALSE
    /\ queue' = Dequeued(BaseLoop)
    /\ UNCHANGED <<state, active, events, handling, revents, outputBuffer,
                   callerVars, kernelVars, historyVars>>

(* removeConnectionInLoop() hands the connection back to its own loop. *)
RemoveConnection ==
    /\ AtHead(BaseLoop, "removeConnection")
    /\ connections' = FALSE
    /\ queue' = [Dequeued(BaseLoop) EXCEPT ![IoLoop] =
                    Append(@, Task("connectDestroyed"))]
    /\ UNCHANGED <<state, active, events, handling, revents, outputBuffer,
                   callerVars, kernelVars, historyVars>>

(* Mutant: connectDestroyed() without channel_->remove(). *)
ConnectDestroyedKeepsChannel ==
    /\ AtHead(IoLoop, "connectDestroyed")
    /\ queue' = Dequeued(IoLoop)
    /\ state' = "kDisconnected"
    /\ events' = {}
    /\ callbacks' = Append(callbacks, "DOWN")
    /\ UNCHANGED <<connections, active, handling, revents, outputBuffer, callerVars,
                   kernelVars, wire, sentBy, promised>>

(* Channel::remove() stops the watcher. *)
RemoveChannel == active' = FALSE

(* connectDestroyed(): disableAll(), the callback, and channel_->remove(). *)
ConnectDestroyed ==
    /\ AtHead(IoLoop, "connectDestroyed")
    /\ queue' = Dequeued(IoLoop)
    /\ state' = "kDisconnected"
    /\ events' = {}
    /\ RemoveChannel
    /\ callbacks' = Append(callbacks, "DOWN")
    /\ UNCHANGED <<connections, handling, revents, outputBuffer, callerVars,
                   kernelVars, wire, sentBy, promised>>

(* writeCompleteCallback_ and highWaterMarkCallback_: user code only. *)
RunUserCallback ==
    /\ AtHead(IoLoop, "writeComplete") \/ AtHead(IoLoop, "highWaterMark")
    /\ queue' = Dequeued(IoLoop)
    /\ UNCHANGED <<connVars, callerVars, kernelVars, historyVars>>

(* A user's thread drops its TcpConnectionPtr. *)
Release(t) ==
    /\ t \in holders
    /\ t \in User => calling[t] = "out"
    /\ holders' = holders \ {t}
    /\ UNCHANGED <<connVars, queue, calling, sending, kernelVars, historyVars>>

-----------------------------------------------------------------------------
(* Sending. *)

(* What write(2) may return for n bytes: a count, EWOULDBLOCK, or EPIPE.   *)
Writable == reset = "no" /\ ~writeShut
WriteResults(n) == IF Writable THEN 0..n ELSE {}
FaultError == ~Writable

(* sendInLoop(m), queue0 being the loop's queue once its functor is out.   *)
(* A first write of n bytes goes directly to the socket if nothing is      *)
(* waiting; n = 0 stands for EWOULDBLOCK.                                  *)
Direct == ~isWriting /\ outputBuffer = <<>>

Buffered(m, n, queue0) ==
    /\ outputBuffer' = outputBuffer \o Suffix(Bytes(m), n)
    /\ events' = events \cup {"WRITE"}
    /\ wire' = wire \o SubSeq(Bytes(m), 1, n)
    /\ queue' = IF /\ Len(outputBuffer) + Size - n >= HighWaterMark
                   /\ Len(outputBuffer) < HighWaterMark
                THEN [queue0 EXCEPT ![IoLoop] = Append(@, Task("highWaterMark"))]
                ELSE queue0

(* Mutant: a direct write although bytes are waiting in outputBuffer_. *)
SendInLoopOvertakes(m, queue0) ==
    /\ \/ /\ ~isWriting
          /\ \E n \in WriteResults(Size) :
             \/ /\ n < Size
                /\ Buffered(m, n, queue0)
             \/ /\ n = Size
                /\ wire' = wire \o Bytes(m)
                /\ queue' = [queue0 EXCEPT ![IoLoop] = Append(@, Task("writeComplete"))]
                /\ UNCHANGED <<outputBuffer, events>>
       \/ /\ ~isWriting /\ FaultError
          /\ queue' = queue0
          /\ UNCHANGED <<outputBuffer, events, wire>>
       \/ isWriting /\ Buffered(m, 0, queue0)
    /\ UNCHANGED writeShut

SendInLoop(m, queue0) ==
    /\ \/ /\ Direct
          /\ \E n \in WriteResults(Size) :
             \/ /\ n < Size
                /\ Buffered(m, n, queue0)
             \/ /\ n = Size
                /\ wire' = wire \o Bytes(m)
                /\ queue' = [queue0 EXCEPT ![IoLoop] = Append(@, Task("writeComplete"))]
                /\ UNCHANGED <<outputBuffer, events>>
       \/ /\ Direct /\ FaultError     \* the message is dropped
          /\ queue' = queue0
          /\ UNCHANGED <<outputBuffer, events, wire>>
       \/ ~Direct /\ Buffered(m, 0, queue0)
    /\ UNCHANGED writeShut

(* send(), t's message m being new: only a connected connection takes it.  *)
Accept(t, m) ==
    /\ MayCall(t)
    /\ sentBy[m] = Nobody
    /\ state = "kConnected"
    /\ sentBy' = [sentBy EXCEPT ![m] = t]

(* send() in the loop thread. *)
SendInLoopThread(m) ==
    /\ Accept(IoUser, m)
    /\ SendInLoop(m, queue)
    /\ UNCHANGED <<state, connections, active, handling, revents, callerVars,
                   unread, peerClosed, reset, promised, callbacks>>

(* send() in another thread: test state_, queue the functor. *)
SendTest(t, m) ==
    /\ Accept(t, m)
    /\ calling' = [calling EXCEPT ![t] = "send"]
    /\ sending' = sending \cup {m}
    /\ UNCHANGED <<connVars, queue, holders, kernelVars, wire, promised, callbacks>>

SendQueue(t, m) ==
    /\ calling[t] = "send"
    /\ m \in sending /\ sentBy[m] = t
    /\ calling' = [calling EXCEPT ![t] = "out"]
    /\ sending' = sending \ {m}
    /\ queue' = Enqueue(IoLoop, SendTask(m))
    /\ UNCHANGED <<connVars, holders, kernelVars, historyVars>>

RunSendInLoop ==
    /\ AtHead(IoLoop, "sendInLoop")
    /\ SendInLoop(Head(queue[IoLoop]).msg, Dequeued(IoLoop))
    /\ UNCHANGED <<state, connections, active, handling, revents, callerVars,
                   unread, peerClosed, reset, sentBy, promised, callbacks>>

-----------------------------------------------------------------------------
(* Shutting down. *)

(* Mutant: the write side is closed although bytes are waiting. *)
ShutdownInLoopAtOnce(writing) == writeShut' = TRUE

(* shutdownInLoop(), when channel_ is writing or not. *)
ShutdownInLoop(writing) == writeShut' = (writeShut \/ ~writing)

(* The call that takes a connected connection down promises its caller     *)
(* that what it sent before goes out first.                                *)
SetDisconnecting(t) ==
    /\ state' = "kDisconnecting"
    /\ promised' = IF state = "kConnected"
                   THEN promised \cup {m \in Message : sentBy[m] = t}
                   ELSE promised

(* shutdown() in the loop thread. *)
ShutdownInLoopThread ==
    /\ MayCall(IoUser)
    /\ state = "kConnected"
    /\ SetDisconnecting(IoUser)
    /\ ShutdownInLoop(isWriting)
    /\ UNCHANGED <<connections, active, events, handling, revents, outputBuffer,
                   queue, callerVars, unread, peerClosed, reset, wire,
                   sentBy, callbacks>>

(* shutdown() in another thread: test state_, set it, queue the functor. *)
ShutdownTest(t) ==
    /\ MayCall(t)
    /\ state = "kConnected"
    /\ calling' = [calling EXCEPT ![t] = "set"]
    /\ UNCHANGED <<connVars, queue, holders, sending, kernelVars, historyVars>>

ShutdownSet(t) ==
    /\ calling[t] = "set"
    /\ calling' = [calling EXCEPT ![t] = "queue"]
    /\ SetDisconnecting(t)
    /\ UNCHANGED <<connections, active, events, handling, revents, outputBuffer,
                   queue, holders, sending, kernelVars, wire, sentBy, callbacks>>

ShutdownQueue(t) ==
    /\ calling[t] = "queue"
    /\ calling' = [calling EXCEPT ![t] = "out"]
    /\ queue' = Enqueue(IoLoop, Task("shutdownInLoop"))
    /\ UNCHANGED <<connVars, holders, sending, kernelVars, historyVars>>

RunShutdownInLoop ==
    /\ AtHead(IoLoop, "shutdownInLoop")
    /\ queue' = Dequeued(IoLoop)
    /\ ShutdownInLoop(isWriting)
    /\ UNCHANGED <<connVars, callerVars, unread, peerClosed, reset, historyVars>>

-----------------------------------------------------------------------------
(* Channel::handleEvent(): the read callback, then the write callback, for *)
(* a started watcher.  libev reports only events the watcher asks for.     *)

CanHandle(r) == active /\ handling = "no" /\ r # {} /\ r \subseteq events

(* Mutant: handleWrite() never calls disableWriting(). *)
HandleWriteKeepsWriting(n) ==
    /\ n \in WriteResults(Len(outputBuffer)) \cup {0}
    /\ outputBuffer' = Suffix(outputBuffer, n)
    /\ wire' = wire \o SubSeq(outputBuffer, 1, n)
    /\ \/ /\ n > 0 /\ n = Len(outputBuffer)
          /\ queue' = Enqueue(IoLoop, Task("writeComplete"))
          /\ IF state = "kDisconnecting" THEN ShutdownInLoop(FALSE) ELSE UNCHANGED writeShut
       \/ /\ n = 0 \/ n < Len(outputBuffer)
          /\ UNCHANGED <<queue, writeShut>>
    /\ UNCHANGED events

(* handleWrite() of n bytes; n = 0 stands for a failing write, which is    *)
(* only logged.                                                            *)
HandleWrite(n) ==
    /\ n \in WriteResults(Len(outputBuffer)) \cup {0}
    /\ outputBuffer' = Suffix(outputBuffer, n)
    /\ wire' = wire \o SubSeq(outputBuffer, 1, n)
    /\ \/ /\ n > 0 /\ n = Len(outputBuffer)
          /\ events' = events \ {"WRITE"}
          /\ queue' = Enqueue(IoLoop, Task("writeComplete"))
          /\ IF state = "kDisconnecting" THEN ShutdownInLoop(FALSE) ELSE UNCHANGED writeShut
       \/ /\ n = 0 \/ n < Len(outputBuffer)
          /\ UNCHANGED <<events, queue, writeShut>>

WriteEvent ==
    /\ CanHandle({"WRITE"})
    /\ \E n \in 0..Len(outputBuffer) : HandleWrite(n)
    /\ UNCHANGED <<state, connections, active, handling, revents, callerVars,
                   unread, peerClosed, reset, sentBy, promised, callbacks>>

(* The read callback finds data: messageCallback_ runs user code. *)
ReadMessage(r) ==
    /\ CanHandle(r) /\ "READ" \in r
    /\ unread /\ reset = "no"
    /\ unread' = FALSE
    /\ handling' = "message"
    /\ revents' = r \ {"READ"}
    /\ UNCHANGED <<state, connections, active, events, outputBuffer, queue,
                   callerVars, peerClosed, reset, writeShut, historyVars>>

(* messageCallback_ returns; the write callback follows if it is due, and  *)
(* does nothing if channel_ stopped writing meanwhile.                     *)
EndMessage ==
    /\ handling = "message"
    /\ handling' = "no"
    /\ revents' = {}
    /\ \/ /\ "WRITE" \in revents /\ isWriting
          /\ \E n \in 0..Len(outputBuffer) : HandleWrite(n)
       \/ /\ ~("WRITE" \in revents /\ isWriting)
          /\ UNCHANGED <<events, outputBuffer, queue, writeShut, wire>>
    /\ UNCHANGED <<state, connections, active, callerVars, unread, peerClosed,
                   reset, sentBy, promised, callbacks>>

(* The read callback fails (ECONNRESET): handleError() reads and logs the  *)
(* error; the write callback then fails as well and is logged.             *)
ReadError(r) ==
    /\ CanHandle(r) /\ "READ" \in r
    /\ reset = "pending"
    /\ reset' = "seen"
    /\ UNCHANGED <<connVars, queue, callerVars, unread, peerClosed, writeShut,
                   historyVars>>

(* Mutant: handleClose() without disableAll(). *)
HandleCloseKeepsReading(r) ==
    /\ CanHandle(r) /\ "READ" \in r
    /\ reset # "no" \/ (peerClosed /\ ~unread)
    /\ \/ /\ SameLoop
          /\ connections' = FALSE
          /\ queue' = Enqueue(IoLoop, Task("connectDestroyed"))
       \/ /\ ~SameLoop
          /\ queue' = Enqueue(BaseLoop, Task("removeConnection"))
          /\ UNCHANGED connections
    /\ UNCHANGED <<state, active, events, handling, revents, outputBuffer,
                   callerVars, kernelVars, historyVars>>

(* The read callback finds the end of the stream (after a reset: once some *)
(* call has consumed the error).  handleClose() disables the channel, so a *)
(* write callback in the same event does nothing, and closeCallback_ is    *)
(* TcpServer::removeConnection().                                          *)
HandleClose(r) ==
    /\ CanHandle(r) /\ "READ" \in r
    /\ reset # "no" \/ (peerClosed /\ ~unread)
    /\ events' = {}
    /\ \/ /\ SameLoop      \* removeConnectionInLoop() runs at once
          /\ connections' = FALSE
          /\ queue' = Enqueue(IoLoop, Task("connectDestroyed"))
       \/ /\ ~SameLoop
          /\ queue' = Enqueue(BaseLoop, Task("removeConnection"))
          /\ UNCHANGED connections
    /\ UNCHANGED <<state, active, handling, revents, outputBuffer,
                   callerVars, kernelVars, historyVars>>

-----------------------------------------------------------------------------
(* The peer and the network. *)
PeerSend ==
    /\ ~peerClosed /\ reset = "no" /\ ~unread
    /\ unread' = TRUE
    /\ UNCHANGED <<connVars, queue, callerVars, peerClosed, reset, writeShut, historyVars>>

PeerClose ==
    /\ ~peerClosed /\ reset = "no"
    /\ peerClosed' = TRUE
    /\ UNCHANGED <<connVars, queue, callerVars, unread, reset, writeShut, historyVars>>

PeerReset ==
    /\ reset = "no"
    /\ reset' = "pending"
    /\ UNCHANGED <<connVars, queue, callerVars, unread, peerClosed, writeShut, historyVars>>

-----------------------------------------------------------------------------
IoEvents == {{"READ"}, {"READ", "WRITE"}}

RunTask ==
    \/ ConnectEstablished \/ RemoveConnection \/ ConnectDestroyed
    \/ RunUserCallback \/ RunSendInLoop \/ RunShutdownInLoop

ReadEvent == \E r \in IoEvents : ReadMessage(r) \/ ReadError(r) \/ HandleClose(r)

Next ==
    \/ NewConnection
    \/ RunTask
    \/ ReadEvent
    \/ EndMessage
    \/ WriteEvent
    \/ \E t \in Threads : Release(t)
    \/ \E m \in Message : \/ SendInLoopThread(m)
                          \/ \E t \in User : SendTest(t, m) \/ SendQueue(t, m)
    \/ ShutdownInLoopThread
    \/ \E t \in User : ShutdownTest(t) \/ ShutdownSet(t) \/ ShutdownQueue(t)
    \/ PeerSend \/ PeerClose \/ PeerReset

Spec == Init /\ [][Next]_vars

(* Both loops run their functors and call a watcher whose event stays      *)
(* ready, and callbacks return (EventLoop.tla); nothing is assumed of the  *)
(* user or of the peer.                                                    *)
Fairness == WF_vars(RunTask) /\ WF_vars(ReadEvent) /\ WF_vars(EndMessage)

FairSpec == Spec /\ Fairness

-----------------------------------------------------------------------------
(* Properties. *)

(* A connection is destroyed only when no event can reach it any more: its *)
(* watcher is stopped, none of its callbacks is running.  libev keeps a    *)
(* raw pointer to the watcher and handleEvent() a raw pointer to the       *)
(* connection, so this is what the functors that carry a TcpConnectionPtr  *)
(* from loop to loop are for.                                              *)
NoDanglingWatcher ==
    state # "none" /\ ~Referenced => ~active /\ handling = "no"

(* Whatever the loops' interleaving, the assertions at the start of        *)
(* connectEstablished() and connectDestroyed() and in                      *)
(* removeConnectionInLoop() (n == 1) hold.                                 *)
LifeCycle ==
    /\ AtHead(IoLoop, "connectEstablished") => state = "kConnecting"
    /\ AtHead(IoLoop, "connectDestroyed") => state \in {"kConnected", "kDisconnecting"}
    /\ AtHead(BaseLoop, "removeConnection") => connections

(* The interest in writing follows outputBuffer_: channel_ waits for the   *)
(* socket to be writable only while bytes are waiting, or libev would call *)
(* handleWrite() in every iteration for nothing; and bytes that wait while *)
(* the connection is up have channel_ waiting, or they would never leave.  *)
(* sendInLoop(), handleWrite() and handleClose() each keep half of this.   *)
WriteInterest ==
    /\ isWriting => outputBuffer # <<>>
    /\ "READ" \in events /\ outputBuffer # <<>> => isWriting

(* To its user a connection comes up once and goes down once, and its      *)
(* bytes reach the kernel in the order in which sendInLoop() took them,    *)
(* none lost or repeated, across direct writes, partial writes, and sends  *)
(* that come between handleClose() and connectDestroyed(); while it is up, *)
(* shutdownInLoop() and handleWrite() close the write side behind the last *)
(* byte.                                                                   *)
Phase ==
    CASE callbacks = <<>> -> "new"
      [] callbacks = <<"UP">> -> IF "READ" \in events THEN "up" ELSE "closing"
      [] callbacks = <<"UP", "DOWN">> -> "down"
      [] OTHER -> "again"
Promise == INSTANCE Connection WITH phase <- Phase, backlog <- outputBuffer,
                                    sent <- wire, open <- ~writeShut
ImplementsConnection == Promise!Spec

Delivered(m) == \A i \in 1..Size : \E k \in 1..Len(wire) : wire[k] = <<m, i>>

(* The write side is closed only after everything that the caller of       *)
(* shutdown() had sent before has been written, while the connection is    *)
(* up; T is the set of callers.                                            *)
GracefulFor(T) ==
    writeShut /\ reset = "no" /\ "READ" \in events =>
        \A m \in promised : sentBy[m] \in T => Delivered(m)

(* So it is for a caller in the loop thread: shutdownInLoop() waits for    *)
(* the output buffer, and handleWrite() resumes it.                        *)
LoopShutdownIsGraceful == GracefulFor({IoUser})

(* send() and shutdown() are both "Thread safe", so it should hold for a   *)
(* caller in any thread.                                                   *)
ShutdownIsGraceful == GracefulFor(Threads)

(* A connection whose peer is gone is eventually taken down, across the    *)
(* three hops handleClose -> removeConnectionInLoop -> connectDestroyed.   *)
PeerGoneIsDestroyed ==
    (callbacks = <<"UP">> /\ (peerClosed \/ reset # "no")) ~> (callbacks = <<"UP", "DOWN">>)
=============================================================================

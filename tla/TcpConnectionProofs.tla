------------------------ MODULE TcpConnectionProofs ------------------------
(***************************************************************************)
(* Proofs about TcpConnection.tla, for any threads, messages, sizes and    *)
(* high water mark, and for either choice of loops.                        *)
(***************************************************************************)
EXTENDS TcpConnection, TLAPS, SequenceTheorems

-----------------------------------------------------------------------------
(* The inductive invariant. *)

Contains(q, x) == \E i \in 1..Len(q) : q[i] = x
Single(q, x) == \A i, j \in 1..Len(q) : q[i] = x /\ q[j] = x => i = j

(* The functors the argument follows: all but the user's own callbacks. *)
Tracked == Tasks \ {Task("writeComplete"), Task("highWaterMark")}

IoQueue == queue[IoLoop]
BaseQueue == queue[BaseLoop]
EstablishTask == Task("connectEstablished")
RemoveTask == Task("removeConnection")
DestroyTask == Task("connectDestroyed")
ShutdownTask == Task("shutdownInLoop")

(* Before connectEstablished() nobody can reach the connection. *)
Untouched ==
    /\ callbacks = <<>> /\ events = {} /\ handling = "no" /\ holders = {}
    /\ outputBuffer = <<>> /\ \A t \in User : calling[t] = "out"

NotCreated ==
    /\ Untouched /\ state = "none" /\ ~connections /\ ~active
    /\ \A l \in Loops, x \in Tracked : ~Contains(queue[l], x)

Connecting ==
    /\ Untouched /\ state = "kConnecting" /\ connections /\ active
    /\ ~SameLoop /\ Contains(IoQueue, EstablishTask) /\ Single(IoQueue, EstablishTask)
    /\ \A x \in Tracked : Contains(IoQueue, x) => x = EstablishTask
    /\ \A x \in Tracked : ~Contains(BaseQueue, x)

(* Between the two calls of the connection callback. *)
Up ==
    /\ callbacks = <<"UP">> /\ "READ" \in events /\ connections /\ active
    /\ state \in {"kConnected", "kDisconnecting"}
    /\ ~Contains(IoQueue, EstablishTask) /\ ~Contains(IoQueue, DestroyTask)
    /\ ~Contains(BaseQueue, RemoveTask)

(* After handleClose(): exactly one functor carries the connection on, in  *)
(* the base loop while the map still has it, then in its own loop.         *)
Closing ==
    /\ callbacks = <<"UP">> /\ "READ" \notin events /\ active /\ handling = "no"
    /\ state \in {"kConnected", "kDisconnecting"}
    /\ ~Contains(IoQueue, EstablishTask)
    /\ \/ /\ connections /\ ~SameLoop
          /\ Contains(BaseQueue, RemoveTask) /\ Single(BaseQueue, RemoveTask)
          /\ ~Contains(IoQueue, DestroyTask)
       \/ /\ ~connections
          /\ ~Contains(BaseQueue, RemoveTask)
          /\ Contains(IoQueue, DestroyTask) /\ Single(IoQueue, DestroyTask)

(* After connectDestroyed(); a shutdown() that tested state_ before may    *)
(* still set it.                                                           *)
Down ==
    /\ callbacks = <<"UP", "DOWN">> /\ "READ" \notin events /\ ~active /\ ~connections
    /\ handling = "no" /\ state \in {"kDisconnecting", "kDisconnected"}
    /\ ~Contains(IoQueue, EstablishTask) /\ ~Contains(IoQueue, DestroyTask)
    /\ ~Contains(BaseQueue, RemoveTask)

StageInv == NotCreated \/ Connecting \/ Up \/ Closing \/ Down

(* A message is with the thread that sends it, or on its way through the   *)
(* queue once, or its bytes have been taken, never two of these; what the  *)
(* loop's own thread sent is taken whole as long as the connection was not *)
(* reset.                                                                  *)
Accepted == wire \o outputBuffer
Taken(m) == \E k \in 1..Len(Accepted) : Accepted[k][1] = m
Whole(m) == \A i \in 1..Size : \E k \in 1..Len(Accepted) : Accepted[k] = <<m, i>>

SendInv ==
    \A m \in Message :
       /\ Single(IoQueue, SendTask(m))
       /\ Contains(IoQueue, SendTask(m)) => sentBy[m] # Nobody /\ ~Taken(m)
       /\ m \in sending => /\ sentBy[m] \in User
                           /\ ~Contains(IoQueue, SendTask(m)) /\ ~Taken(m)
       /\ Taken(m) => sentBy[m] # Nobody
       /\ sentBy[m] = IoUser /\ reset = "no" => Whole(m)

(* The write side is closed, or about to be, only after state_ was set;    *)
(* channel_ waits to write only while bytes are waiting; while the         *)
(* connection is up, waiting bytes have a watcher and none is left behind  *)
(* a closed write side.                                                    *)
ShutInv ==
    /\ writeShut => state \in {"kDisconnecting", "kDisconnected"}
    /\ Contains(IoQueue, ShutdownTask) => state \in {"kDisconnecting", "kDisconnected"}
    /\ \A t \in User : calling[t] = "queue" => state \in {"kDisconnecting", "kDisconnected"}
    /\ isWriting => outputBuffer # <<>>
    /\ "READ" \in events /\ outputBuffer # <<>> => isWriting
    /\ "READ" \in events /\ writeShut => outputBuffer = <<>> /\ ~isWriting

ConnInv == TypeOK /\ StageInv /\ SendInv /\ ShutInv

-----------------------------------------------------------------------------
(* Functors and queues. *)

LEMMA SizeNat == Size \in Nat /\ Size > 0 /\ HighWaterMark \in Nat
  BY SizeAssumption

(* A functor is told by its operation, and a send by its message. *)
LEMMA TaskFacts ==
    /\ \A op : Task(op).op = op
    /\ \A m : SendTask(m).op = "sendInLoop" /\ SendTask(m).msg = m
    /\ \A x \in Tasks : /\ x.op # "sendInLoop" => x = Task(x.op)
                        /\ x.op = "sendInLoop" => x.msg \in Message /\ x = SendTask(x.msg)
<1>1. \A op : Task(op).op = op BY DEF Task
<1>2. \A m : SendTask(m).op = "sendInLoop" /\ SendTask(m).msg = m BY DEF SendTask
<1>3. ASSUME NEW x \in Tasks
      PROVE  /\ x.op # "sendInLoop" => x = Task(x.op)
             /\ x.op = "sendInLoop" => x.msg \in Message /\ x = SendTask(x.msg)
  <2>1. CASE \E op \in {"connectEstablished", "connectDestroyed", "removeConnection",
                        "shutdownInLoop", "writeComplete", "highWaterMark"} : x = Task(op)
    BY <1>1, <2>1
  <2>2. CASE \E m \in Message : x = SendTask(m) BY <1>2, <2>2
  <2> QED BY <2>1, <2>2 DEF Tasks
<1> QED BY <1>1, <1>2, <1>3

(* The functors of the life cycle are tracked and differ. *)
LEMMA TrackedFacts ==
    /\ EstablishTask \in Tracked /\ RemoveTask \in Tracked
    /\ DestroyTask \in Tracked /\ ShutdownTask \in Tracked
    /\ \A m \in Message : SendTask(m) \in Tracked
    /\ EstablishTask # RemoveTask /\ EstablishTask # DestroyTask
    /\ EstablishTask # ShutdownTask /\ RemoveTask # DestroyTask
    /\ RemoveTask # ShutdownTask /\ DestroyTask # ShutdownTask
    /\ \A m : /\ SendTask(m) # EstablishTask /\ SendTask(m) # RemoveTask
              /\ SendTask(m) # DestroyTask /\ SendTask(m) # ShutdownTask
    /\ \A m, n : SendTask(m) = SendTask(n) => m = n
    /\ Tracked \subseteq Tasks
    /\ Task("writeComplete") \in Tasks /\ Task("highWaterMark") \in Tasks
<1>1. /\ EstablishTask.op = "connectEstablished" /\ RemoveTask.op = "removeConnection"
      /\ DestroyTask.op = "connectDestroyed" /\ ShutdownTask.op = "shutdownInLoop"
      /\ Task("writeComplete").op = "writeComplete"
      /\ Task("highWaterMark").op = "highWaterMark"
  BY TaskFacts DEF EstablishTask, RemoveTask, DestroyTask, ShutdownTask
<1>2. /\ EstablishTask \in Tasks /\ RemoveTask \in Tasks /\ DestroyTask \in Tasks
      /\ ShutdownTask \in Tasks /\ \A m \in Message : SendTask(m) \in Tasks
      /\ Task("writeComplete") \in Tasks /\ Task("highWaterMark") \in Tasks
  BY DEF Tasks, EstablishTask, RemoveTask, DestroyTask, ShutdownTask
<1>3. \A m : SendTask(m).op = "sendInLoop" /\ SendTask(m).msg = m BY TaskFacts
<1>4. Tracked \subseteq Tasks BY DEF Tracked
<1>5. /\ EstablishTask \in Tracked /\ RemoveTask \in Tracked
      /\ DestroyTask \in Tracked /\ ShutdownTask \in Tracked
      /\ \A m \in Message : SendTask(m) \in Tracked
  BY <1>1, <1>2, <1>3 DEF Tracked
<1>6. /\ EstablishTask # RemoveTask /\ EstablishTask # DestroyTask
      /\ EstablishTask # ShutdownTask /\ RemoveTask # DestroyTask
      /\ RemoveTask # ShutdownTask /\ DestroyTask # ShutdownTask
  BY <1>1
<1>7. \A m : /\ SendTask(m) # EstablishTask /\ SendTask(m) # RemoveTask
             /\ SendTask(m) # DestroyTask /\ SendTask(m) # ShutdownTask
  BY <1>1, <1>3
<1>8. \A m, n : SendTask(m) = SendTask(n) => m = n BY <1>3
<1> QED BY <1>2, <1>4, <1>5, <1>6, <1>7, <1>8

(* What Append and Tail do to the functors in a queue. *)
LEMMA AppendContains ==
    ASSUME NEW q \in Seq(Tasks), NEW y \in Tasks
    PROVE  /\ Append(q, y) \in Seq(Tasks)
           /\ \A x : Contains(Append(q, y), x) <=> Contains(q, x) \/ x = y
           /\ \A x : x # y /\ Single(q, x) => Single(Append(q, y), x)
           /\ ~Contains(q, y) => Single(Append(q, y), y)
<1>1. /\ Append(q, y) \in Seq(Tasks) /\ Len(q) \in Nat
      /\ Len(Append(q, y)) = Len(q) + 1
      /\ \A i \in 1..Len(q) : Append(q, y)[i] = q[i]
      /\ Append(q, y)[Len(q) + 1] = y
  OBVIOUS
<1>2. \A i : i \in 1..Len(Append(q, y)) <=> i \in 1..Len(q) \/ i = Len(q) + 1
  BY <1>1
<1> QED BY <1>1, <1>2 DEF Contains, Single

LEMMA TailContains ==
    ASSUME NEW q \in Seq(Tasks), q # <<>>
    PROVE  /\ Tail(q) \in Seq(Tasks) /\ Head(q) \in Tasks
           /\ Contains(q, Head(q))
           /\ \A x : Contains(Tail(q), x) => Contains(q, x)
           /\ \A x : x # Head(q) /\ Contains(q, x) => Contains(Tail(q), x)
           /\ \A x : Single(q, x) => Single(Tail(q), x)
           /\ Single(q, Head(q)) => ~Contains(Tail(q), Head(q))
<1>1. /\ Tail(q) \in Seq(Tasks) /\ Len(q) \in Nat \ {0} /\ Len(Tail(q)) = Len(q) - 1
      /\ \A i \in 1..Len(Tail(q)) : Tail(q)[i] = q[i + 1]
      /\ Head(q) = q[1] /\ q[1] \in Tasks
  OBVIOUS
<1>2. \A i \in 1..Len(Tail(q)) : i + 1 \in 1..Len(q) /\ i + 1 # 1
  BY <1>1
<1>3. 1 \in 1..Len(q) BY <1>1
<1>4. Contains(q, Head(q)) BY <1>1, <1>3 DEF Contains
<1>5. \A x : Contains(Tail(q), x) => Contains(q, x) BY <1>1, <1>2 DEF Contains
<1>6. ASSUME NEW x, x # Head(q), Contains(q, x) PROVE Contains(Tail(q), x)
  <2>1. PICK i \in 1..Len(q) : q[i] = x BY <1>6 DEF Contains
  <2>2. i # 1 BY <1>1, <1>6, <2>1
  <2>3. i - 1 \in 1..Len(Tail(q)) /\ (i - 1) + 1 = i BY <1>1, <2>1, <2>2
  <2> QED BY <1>1, <2>1, <2>3 DEF Contains
<1>7. ASSUME NEW x, Single(q, x), NEW i \in 1..Len(Tail(q)), NEW j \in 1..Len(Tail(q)),
             Tail(q)[i] = x, Tail(q)[j] = x
      PROVE  i = j
  <2>1. i + 1 = j + 1 BY <1>1, <1>2, <1>7 DEF Single
  <2> QED BY <1>1, <2>1
<1>8. Single(q, Head(q)) => ~Contains(Tail(q), Head(q))
  BY <1>1, <1>2, <1>3 DEF Single, Contains
<1> QED BY <1>1, <1>4, <1>5, <1>6, <1>7, <1>8 DEF Single

(* The loops of a run: the base loop, and a second one or not. *)
LEMMA LoopFacts ==
    ASSUME TypeOK
    PROVE  /\ BaseLoop \in Loops /\ IoLoop \in Loops
           /\ \A l \in Loops : l = BaseLoop \/ l = IoLoop
           /\ SameLoop <=> IoLoop = BaseLoop
           /\ queue \in [Loops -> Seq(Tasks)]
<1>1. CASE Loops = {BaseLoop}
  BY <1>1 DEF TypeOK, SameLoop, IoLoop
<1>2. CASE Loops = {BaseLoop, "io"}
  <2>1. BaseLoop # "io" BY DEF BaseLoop
  <2>2. ~SameLoop BY <1>2, <2>1 DEF SameLoop
  <2> QED BY <1>2, <2>1, <2>2 DEF TypeOK, IoLoop
<1> QED BY <1>1, <1>2 DEF TypeOK

LEMMA LoopsKept ==
    ASSUME DOMAIN queue' = DOMAIN queue
    PROVE  Loops' = Loops /\ IoLoop' = IoLoop /\ SameLoop' = SameLoop
  BY DEF Loops, IoLoop, SameLoop, BaseLoop

(* What a step may do to the tracked functors: nothing, add one at the end *)
(* of a queue, or take one from its head.                                  *)
Same(l, x) ==
    /\ Contains(queue'[l], x) <=> Contains(queue[l], x)
    /\ Single(queue[l], x) => Single(queue'[l], x)

QueueTyped == DOMAIN queue' = DOMAIN queue /\ queue' \in [Loops -> Seq(Tasks)]

QueueKept == QueueTyped /\ \A l \in Loops, x \in Tracked : Same(l, x)

QueueAdded(k, y) ==
    /\ QueueTyped
    /\ \A l \in Loops, x \in Tracked : ~(l = k /\ x = y) => Same(l, x)
    /\ Contains(queue'[k], y)
    /\ ~Contains(queue[k], y) => Single(queue'[k], y)

QueueDropped(k, y) ==
    /\ QueueTyped
    /\ \A l \in Loops, x \in Tracked : ~(l = k /\ x = y) => Same(l, x)
    /\ Contains(queue[k], y)
    /\ Single(queue[k], y) => ~Contains(queue'[k], y) /\ Single(queue'[k], y)

LEMMA UnchangedKept ==
    ASSUME TypeOK, UNCHANGED queue
    PROVE  QueueKept
  BY LoopFacts DEF QueueKept, QueueTyped, Same, Loops

(* Queueing one of the user's callbacks changes nothing that is tracked. *)
LEMMA EnqueueKept ==
    ASSUME TypeOK, NEW y \in {Task("writeComplete"), Task("highWaterMark")},
           queue' = Enqueue(IoLoop, y)
    PROVE  QueueKept
<1>1. /\ queue \in [Loops -> Seq(Tasks)] /\ IoLoop \in Loops BY LoopFacts
<1>2. y \in Tasks /\ y \notin Tracked BY TrackedFacts DEF Tracked
<1>3. queue[IoLoop] \in Seq(Tasks) BY <1>1
<1>4. /\ queue'[IoLoop] = Append(queue[IoLoop], y)
      /\ \A l \in Loops : l # IoLoop => queue'[l] = queue[l]
      /\ DOMAIN queue' = DOMAIN queue
  BY <1>1 DEF Enqueue
<1>5. queue' \in [Loops -> Seq(Tasks)]
  BY <1>1, <1>2, <1>3, <1>4, AppendContains DEF Enqueue
<1>6. \A x \in Tracked : Same(IoLoop, x)
  <2>1. /\ \A x : Contains(queue'[IoLoop], x) <=> Contains(queue[IoLoop], x) \/ x = y
        /\ \A x : x # y /\ Single(queue[IoLoop], x) => Single(queue'[IoLoop], x)
    BY <1>2, <1>3, <1>4, AppendContains
  <2> QED BY <1>2, <2>1 DEF Same
<1>7. \A l \in Loops, x \in Tracked : l # IoLoop => Same(l, x) BY <1>4 DEF Same
<1> QED BY <1>4, <1>5, <1>6, <1>7 DEF QueueKept, QueueTyped

LEMMA EnqueueAdded ==
    ASSUME TypeOK, NEW k \in Loops, NEW y \in Tracked, queue' = Enqueue(k, y)
    PROVE  QueueAdded(k, y)
<1>1. queue \in [Loops -> Seq(Tasks)] BY LoopFacts
<1>2. y \in Tasks BY TrackedFacts
<1>3. queue[k] \in Seq(Tasks) BY <1>1
<1>4. /\ queue'[k] = Append(queue[k], y)
      /\ \A l \in Loops : l # k => queue'[l] = queue[l]
      /\ DOMAIN queue' = DOMAIN queue
  BY <1>1 DEF Enqueue
<1>5. queue' \in [Loops -> Seq(Tasks)]
  BY <1>1, <1>2, <1>3, <1>4, AppendContains DEF Enqueue
<1>6. /\ \A x : Contains(queue'[k], x) <=> Contains(queue[k], x) \/ x = y
      /\ \A x : x # y /\ Single(queue[k], x) => Single(queue'[k], x)
      /\ ~Contains(queue[k], y) => Single(queue'[k], y)
  BY <1>2, <1>3, <1>4, AppendContains
<1>7. \A x \in Tracked : x # y => Same(k, x) BY <1>6 DEF Same
<1>8. \A l \in Loops, x \in Tracked : l # k => Same(l, x) BY <1>4 DEF Same
<1> QED BY <1>4, <1>5, <1>6, <1>7, <1>8 DEF QueueAdded, QueueTyped

LEMMA DequeuedDropped ==
    ASSUME TypeOK, NEW k \in Loops, queue[k] # <<>>, queue' = Dequeued(k)
    PROVE  QueueDropped(k, Head(queue[k]))
<1>1. queue \in [Loops -> Seq(Tasks)] BY LoopFacts
<1>2. queue[k] \in Seq(Tasks) BY <1>1
<1>3. /\ queue'[k] = Tail(queue[k])
      /\ \A l \in Loops : l # k => queue'[l] = queue[l]
      /\ DOMAIN queue' = DOMAIN queue
  BY <1>1 DEF Dequeued
<1>4. /\ queue'[k] \in Seq(Tasks)
      /\ Contains(queue[k], Head(queue[k]))
      /\ \A x : Contains(queue'[k], x) => Contains(queue[k], x)
      /\ \A x : x # Head(queue[k]) /\ Contains(queue[k], x) => Contains(queue'[k], x)
      /\ \A x : Single(queue[k], x) => Single(queue'[k], x)
      /\ Single(queue[k], Head(queue[k])) => ~Contains(queue'[k], Head(queue[k]))
  BY <1>2, <1>3, TailContains
<1>5. queue' \in [Loops -> Seq(Tasks)] BY <1>1, <1>3, <1>4 DEF Dequeued
<1>6. \A x \in Tracked : x # Head(queue[k]) => Same(k, x) BY <1>4 DEF Same
<1>7. \A l \in Loops, x \in Tracked : l # k => Same(l, x) BY <1>3 DEF Same
<1> QED BY <1>3, <1>4, <1>5, <1>6, <1>7 DEF QueueDropped, QueueTyped

LEMMA DropUntracked ==
    ASSUME TypeOK, NEW k, NEW y, y \notin Tracked, QueueDropped(k, y)
    PROVE  QueueKept
  BY DEF QueueDropped, QueueKept

(* The functor AtHead() finds. *)
LEMMA HeadFacts ==
    ASSUME TypeOK, NEW l \in Loops, NEW op, AtHead(l, op)
    PROVE  /\ queue[l] # <<>> /\ Head(queue[l]) \in Tasks /\ Head(queue[l]).op = op
           /\ Contains(queue[l], Head(queue[l]))
           /\ op # "sendInLoop" => Head(queue[l]) = Task(op)
           /\ op = "sendInLoop" => /\ Head(queue[l]).msg \in Message
                                   /\ Head(queue[l]) = SendTask(Head(queue[l]).msg)
<1>1. queue[l] \in Seq(Tasks) BY LoopFacts
<1>2. queue[l] # <<>> /\ Head(queue[l]).op = op BY DEF AtHead
<1>3. Head(queue[l]) \in Tasks /\ Contains(queue[l], Head(queue[l]))
  BY <1>1, <1>2, TailContains
<1> QED BY <1>2, <1>3, TaskFacts

-----------------------------------------------------------------------------
(* Bytes. *)

LEMMA BytesFacts ==
    ASSUME NEW m \in Message
    PROVE  /\ Bytes(m) \in Seq(Byte) /\ Len(Bytes(m)) = Size
           /\ \A i \in 1..Size : Bytes(m)[i] = <<m, i>>
<1>1. \A i \in 1..Size : <<m, i>> \in Byte BY DEF Byte
<1> QED BY <1>1, SizeNat DEF Bytes

LEMMA ByteConcat ==
    ASSUME NEW s \in Seq(Byte), NEW t \in Seq(Byte), NEW u \in Seq(Byte)
    PROVE  (s \o t) \o u = s \o (t \o u)
<1> DEFINE S == Byte
<1>1. s \in Seq(S) /\ t \in Seq(S) /\ u \in Seq(S) OBVIOUS
<1> HIDE DEF S
<1> QED BY <1>1, ConcatAssociative

(* A sequence cut in two is its parts. *)
LEMMA CutFacts ==
    ASSUME NEW q \in Seq(Byte), NEW n \in 0..Len(q)
    PROVE  /\ SubSeq(q, 1, n) \in Seq(Byte) /\ Len(SubSeq(q, 1, n)) = n
           /\ Suffix(q, n) \in Seq(Byte) /\ Len(Suffix(q, n)) = Len(q) - n
           /\ SubSeq(q, 1, n) \o Suffix(q, n) = q
           /\ n = 0 => SubSeq(q, 1, n) = <<>> /\ Suffix(q, n) = q
           /\ n = Len(q) => SubSeq(q, 1, n) = q /\ Suffix(q, n) = <<>>
<1>1. Len(q) \in Nat /\ n \in Nat /\ n <= Len(q) OBVIOUS
<1>2. \A i \in 1..n : q[i] \in Byte BY <1>1, ElementOfSeq
<1>3. \A i \in (n + 1)..Len(q) : q[i] \in Byte BY <1>1, ElementOfSeq
<1>4. SubSeq(q, 1, n) \in Seq(Byte) /\ Len(SubSeq(q, 1, n)) = n
  BY <1>1, <1>2, SubSeqProperties
<1>5. Suffix(q, n) \in Seq(Byte) /\ Len(Suffix(q, n)) = Len(q) - n
  BY <1>1, <1>3, SubSeqProperties DEF Suffix
<1>6. SubSeq(q, 1, Len(q)) = q BY SubSeqFull
<1>7. SubSeq(q, 1, n) \o Suffix(q, n) = q
  <2>1. 1 \in 1..Len(q) + 1 /\ n \in (1 - 1)..Len(q) /\ Len(q) \in n..Len(q) BY <1>1
  <2>2. SubSeq(q, 1, n) \o SubSeq(q, n + 1, Len(q)) = SubSeq(q, 1, Len(q))
    BY <2>1, ConcatAdjacentSubSeq, Zenon
  <2> QED BY <1>6, <2>2, Zenon DEF Suffix
<1>8. n = 0 => SubSeq(q, 1, n) = <<>> /\ Suffix(q, n) = q
  BY <1>1, <1>6, SubSeqEmpty DEF Suffix
<1>9. n = Len(q) => SubSeq(q, 1, n) = q /\ Suffix(q, n) = <<>>
  BY <1>1, <1>6, SubSeqEmpty DEF Suffix
<1> QED BY <1>4, <1>5, <1>7, <1>8, <1>9

(* The taken bytes are a sequence, and its parts are known by position. *)
LEMMA AcceptedFacts ==
    ASSUME wire \in Seq(Byte), outputBuffer \in Seq(Byte)
    PROVE  /\ Accepted \in Seq(Byte) /\ Len(Accepted) = Len(wire) + Len(outputBuffer)
           /\ outputBuffer = <<>> => Accepted = wire
  BY ConcatProperties, ConcatEmptySeq DEF Accepted

(* What sendInLoop() does to the connection's bytes and events: the        *)
(* message is dropped, or all its bytes follow those taken before.         *)
SendEffect(m, queue0) ==
    /\ outputBuffer' \in Seq(Byte) /\ wire' \in Seq(Byte)
    /\ writeShut' = writeShut
    /\ \/ Direct /\ FaultError /\ UNCHANGED <<outputBuffer, wire, events>>
       \/ /\ wire' \o outputBuffer' = Accepted \o Bytes(m)
          /\ events' = events \/ events' = events \cup {"WRITE"}
          /\ outputBuffer' # <<>> <=> "WRITE" \in events'
          /\ writeShut => ~Direct
    /\ \/ queue' = queue0
       \/ \E y \in {Task("writeComplete"), Task("highWaterMark")} :
             queue' = [queue0 EXCEPT ![IoLoop] = Append(@, y)]

LEMMA BufferedEffect ==
    ASSUME TypeOK, NEW m \in Message, NEW n \in 0..Size, NEW queue0,
           n = 0 \/ outputBuffer = <<>>, Buffered(m, n, queue0)
    PROVE  /\ outputBuffer' \in Seq(Byte) /\ wire' \in Seq(Byte)
           /\ wire' \o outputBuffer' = Accepted \o Bytes(m)
           /\ n < Size => outputBuffer' # <<>>
           /\ events' = events \cup {"WRITE"}
           /\ \/ queue' = queue0
              \/ queue' = [queue0 EXCEPT ![IoLoop] = Append(@, Task("highWaterMark"))]
<1>1. wire \in Seq(Byte) /\ outputBuffer \in Seq(Byte) BY DEF TypeOK
<1>2. Bytes(m) \in Seq(Byte) /\ Len(Bytes(m)) = Size /\ n \in 0..Len(Bytes(m))
  BY BytesFacts
<1> DEFINE head == SubSeq(Bytes(m), 1, n)
           rest == Suffix(Bytes(m), n)
<1>3. /\ head \in Seq(Byte) /\ rest \in Seq(Byte) /\ head \o rest = Bytes(m)
      /\ Len(rest) = Size - n
      /\ n = 0 => head = <<>> /\ rest = Bytes(m)
  BY <1>2, CutFacts
<1>4. /\ outputBuffer' = outputBuffer \o rest /\ wire' = wire \o head
      /\ events' = events \cup {"WRITE"}
      /\ \/ queue' = queue0
         \/ queue' = [queue0 EXCEPT ![IoLoop] = Append(@, Task("highWaterMark"))]
  BY DEF Buffered
<1> HIDE DEF head, rest
<1>5. outputBuffer' \in Seq(Byte) /\ wire' \in Seq(Byte)
  BY <1>1, <1>3, <1>4, ConcatProperties
<1>6. wire' \o outputBuffer' = Accepted \o Bytes(m)
  <2>1. CASE n = 0
    <3>1. wire' = wire /\ outputBuffer' = outputBuffer \o Bytes(m)
      BY <1>1, <1>3, <1>4, <2>1, ConcatEmptySeq
    <3>2. (wire \o outputBuffer) \o Bytes(m) = wire \o (outputBuffer \o Bytes(m))
      BY <1>1, <1>2, ByteConcat
    <3> QED BY <3>1, <3>2 DEF Accepted
  <2>2. CASE outputBuffer = <<>>
    <3>1. outputBuffer' = rest /\ Accepted = wire
      BY <1>1, <1>3, <1>4, <2>2, ConcatEmptySeq DEF Accepted
    <3>2. (wire \o head) \o rest = wire \o (head \o rest)
      BY <1>1, <1>3, ByteConcat
    <3> QED BY <1>3, <1>4, <3>1, <3>2
  <2> QED BY <2>1, <2>2
<1>7. ASSUME n < Size PROVE outputBuffer' # <<>>
  <2>1. Len(outputBuffer') = Len(outputBuffer) + (Size - n)
    <3>1. Len(outputBuffer \o rest) = Len(outputBuffer) + Len(rest)
      BY <1>1, <1>3, ConcatProperties
    <3> QED BY <1>3, <1>4, <3>1
  <2>2. Len(outputBuffer) \in Nat /\ Size - n > 0 /\ Size \in Nat
    BY <1>1, <1>7, SizeNat
  <2>3. Len(outputBuffer') # 0 BY <2>1, <2>2
  <2> QED BY <2>3
<1> QED BY <1>4, <1>5, <1>6, <1>7

LEMMA SendInLoopEffect ==
    ASSUME TypeOK, NEW m \in Message, NEW queue0, SendInLoop(m, queue0)
    PROVE  SendEffect(m, queue0)
<1>1. wire \in Seq(Byte) /\ outputBuffer \in Seq(Byte) BY DEF TypeOK
<1>2. Bytes(m) \in Seq(Byte) /\ Len(Bytes(m)) = Size BY BytesFacts
<1>3. writeShut' = writeShut BY DEF SendInLoop
<1>4. ASSUME Direct, NEW n \in WriteResults(Size), n < Size, Buffered(m, n, queue0)
      PROVE  SendEffect(m, queue0)
  <2>1. n \in 0..Size /\ Writable /\ ~writeShut /\ outputBuffer = <<>>
    BY <1>4 DEF WriteResults, Writable, Direct
  <2>2. /\ outputBuffer' \in Seq(Byte) /\ wire' \in Seq(Byte)
        /\ wire' \o outputBuffer' = Accepted \o Bytes(m)
        /\ outputBuffer' # <<>> /\ events' = events \cup {"WRITE"}
        /\ \/ queue' = queue0
           \/ queue' = [queue0 EXCEPT ![IoLoop] = Append(@, Task("highWaterMark"))]
    BY <1>4, <2>1, BufferedEffect
  <2>3. "WRITE" \in events' BY <2>2
  <2>4. \/ queue' = queue0
        \/ \E y \in {Task("writeComplete"), Task("highWaterMark")} :
              queue' = [queue0 EXCEPT ![IoLoop] = Append(@, y)]
    BY <2>2
  <2> QED BY <1>3, <2>1, <2>2, <2>3, <2>4 DEF SendEffect
<1>5. ASSUME Direct, NEW n \in WriteResults(Size), n = Size,
             wire' = wire \o Bytes(m),
             queue' = [queue0 EXCEPT ![IoLoop] = Append(@, Task("writeComplete"))],
             UNCHANGED <<outputBuffer, events>>
      PROVE  SendEffect(m, queue0)
  <2>1. ~writeShut /\ outputBuffer = <<>> /\ outputBuffer' = <<>> /\ "WRITE" \notin events'
    BY <1>5 DEF WriteResults, Writable, Direct, isWriting
  <2>2. wire' \in Seq(Byte) BY <1>1, <1>2, <1>5, ConcatProperties
  <2>3. wire' \o outputBuffer' = wire' /\ Accepted = wire
    BY <1>1, <2>1, <2>2, ConcatEmptySeq DEF Accepted
  <2>4. \E y \in {Task("writeComplete"), Task("highWaterMark")} :
              queue' = [queue0 EXCEPT ![IoLoop] = Append(@, y)]
    BY <1>5
  <2> QED BY <1>1, <1>3, <1>5, <2>1, <2>2, <2>3, <2>4 DEF SendEffect
<1>6. ASSUME Direct, FaultError, queue' = queue0, UNCHANGED <<outputBuffer, events, wire>>
      PROVE  SendEffect(m, queue0)
  BY <1>1, <1>3, <1>6 DEF SendEffect
<1>7. ASSUME ~Direct, Buffered(m, 0, queue0)
      PROVE  SendEffect(m, queue0)
  <2>1. 0 \in 0..Size /\ 0 < Size BY SizeNat
  <2>2. /\ outputBuffer' \in Seq(Byte) /\ wire' \in Seq(Byte)
        /\ wire' \o outputBuffer' = Accepted \o Bytes(m)
        /\ outputBuffer' # <<>> /\ events' = events \cup {"WRITE"}
        /\ \/ queue' = queue0
           \/ queue' = [queue0 EXCEPT ![IoLoop] = Append(@, Task("highWaterMark"))]
    BY <1>7, <2>1, BufferedEffect
  <2>3. \/ queue' = queue0
        \/ \E y \in {Task("writeComplete"), Task("highWaterMark")} :
              queue' = [queue0 EXCEPT ![IoLoop] = Append(@, y)]
    BY <2>2
  <2> QED BY <1>3, <1>7, <2>2, <2>3 DEF SendEffect
<1> QED BY <1>4, <1>5, <1>6, <1>7 DEF SendInLoop

(* What handleWrite() does: bytes move from the buffer to the wire, and    *)
(* the write side is closed behind the last one if the user asked for it.  *)
WriteEffect ==
    /\ outputBuffer' \in Seq(Byte) /\ wire' \in Seq(Byte)
    /\ wire' \o outputBuffer' = Accepted
    /\ \/ events' = events /\ writeShut' = writeShut /\ queue' = queue
          /\ (outputBuffer' # <<>> <=> outputBuffer # <<>>)
          /\ (writeShut => outputBuffer' = outputBuffer)
       \/ /\ ~writeShut
          /\ events' = events \ {"WRITE"} /\ outputBuffer' = <<>>
          /\ queue' = Enqueue(IoLoop, Task("writeComplete"))
          /\ writeShut' = writeShut \/ (writeShut' = TRUE /\ state = "kDisconnecting")

LEMMA HandleWriteEffect ==
    ASSUME TypeOK, NEW n \in 0..Len(outputBuffer), HandleWrite(n)
    PROVE  WriteEffect
<1>1. wire \in Seq(Byte) /\ outputBuffer \in Seq(Byte) BY DEF TypeOK
<1> DEFINE head == SubSeq(outputBuffer, 1, n)
           rest == Suffix(outputBuffer, n)
<1>2. /\ head \in Seq(Byte) /\ rest \in Seq(Byte) /\ head \o rest = outputBuffer
      /\ n = 0 => head = <<>> /\ rest = outputBuffer
      /\ n = Len(outputBuffer) => rest = <<>>
      /\ Len(rest) = Len(outputBuffer) - n
  BY <1>1, CutFacts
<1>3. outputBuffer' = rest /\ wire' = wire \o head BY DEF HandleWrite
<1>4. n > 0 => ~writeShut BY DEF HandleWrite, WriteResults, Writable
<1> HIDE DEF head, rest
<1>5. outputBuffer' \in Seq(Byte) /\ wire' \in Seq(Byte) BY <1>1, <1>2, <1>3, ConcatProperties
<1>6. wire' \o outputBuffer' = Accepted
  <2>1. (wire \o head) \o rest = wire \o (head \o rest) BY <1>1, <1>2, ByteConcat
  <2> QED BY <1>2, <1>3, <2>1 DEF Accepted
<1>7. outputBuffer' # <<>> => outputBuffer # <<>>
  <2> SUFFICES ASSUME outputBuffer = <<>> PROVE outputBuffer' = <<>>
    OBVIOUS
  <2>1. Len(outputBuffer) = 0 OBVIOUS
  <2>2. n = Len(outputBuffer) BY <2>1
  <2> QED BY <1>2, <1>3, <2>2
<1>8. CASE n > 0 /\ n = Len(outputBuffer)
  <2>1. /\ events' = events \ {"WRITE"} /\ outputBuffer' = <<>> /\ ~writeShut
        /\ queue' = Enqueue(IoLoop, Task("writeComplete"))
    <3>1. ~(n = 0 \/ n < Len(outputBuffer)) BY <1>8
    <3>2. /\ events' = events \ {"WRITE"}
          /\ queue' = Enqueue(IoLoop, Task("writeComplete"))
      BY <3>1 DEF HandleWrite
    <3> QED BY <1>2, <1>3, <1>4, <1>8, <3>2
  <2>2. writeShut' = writeShut \/ (writeShut' = TRUE /\ state = "kDisconnecting")
    BY <1>8 DEF HandleWrite, ShutdownInLoop
  <2> QED BY <1>5, <1>6, <2>1, <2>2 DEF WriteEffect
<1>9. CASE ~(n > 0 /\ n = Len(outputBuffer))
  <2>1. UNCHANGED <<events, queue, writeShut>> BY <1>9 DEF HandleWrite
  <2>2. writeShut => outputBuffer' = outputBuffer
    <3>1. writeShut => n = 0 BY <1>4
    <3> QED BY <1>2, <1>3, <3>1
  <2>3. outputBuffer # <<>> => outputBuffer' # <<>>
    <3> SUFFICES ASSUME outputBuffer # <<>> PROVE outputBuffer' # <<>>
      OBVIOUS
    <3>1. Len(outputBuffer) \in Nat \ {0} BY <1>1
    <3>2. Len(rest) # 0 BY <1>2, <1>9, <3>1
    <3> QED BY <1>3, <3>2
  <2> QED BY <1>5, <1>6, <1>7, <2>1, <2>2, <2>3 DEF WriteEffect
<1> QED BY <1>8, <1>9

-----------------------------------------------------------------------------
(* The steps of Next, as one disjunction the proofs split on. *)
LEMMA NextCases ==
    ASSUME Next
    PROVE  \/ NewConnection \/ ConnectEstablished \/ RemoveConnection
           \/ ConnectDestroyed \/ RunUserCallback \/ RunSendInLoop \/ RunShutdownInLoop
           \/ \E r \in IoEvents : ReadMessage(r)
           \/ \E r \in IoEvents : ReadError(r)
           \/ \E r \in IoEvents : HandleClose(r)
           \/ EndMessage \/ WriteEvent
           \/ \E t \in Threads : Release(t)
           \/ \E m \in Message : SendInLoopThread(m)
           \/ \E t \in User, m \in Message : SendTest(t, m)
           \/ \E t \in User, m \in Message : SendQueue(t, m)
           \/ ShutdownInLoopThread
           \/ \E t \in User : ShutdownTest(t)
           \/ \E t \in User : ShutdownSet(t)
           \/ \E t \in User : ShutdownQueue(t)
           \/ PeerSend \/ PeerClose \/ PeerReset
  BY Zenon DEF Next, RunTask, ReadEvent

(* The two queues after a step. *)
LEMMA QueuesNext ==
    ASSUME TypeOK, QueueTyped
    PROVE  /\ Loops' = Loops /\ (SameLoop' <=> SameLoop) /\ IoLoop' = IoLoop
           /\ IoQueue' = queue'[IoLoop] /\ BaseQueue' = queue'[BaseLoop]
           /\ IoQueue = queue[IoLoop] /\ BaseQueue = queue[BaseLoop]
           /\ IoLoop \in Loops /\ BaseLoop \in Loops
  BY LoopsKept, LoopFacts DEF QueueTyped, IoQueue, BaseQueue, BaseLoop

(* What a functor is taken out for, with one of the user's callbacks       *)
(* possibly queued behind.                                                 *)
LEMMA DequeuedEnqueued ==
    ASSUME TypeOK, queue[IoLoop] # <<>>, Head(queue[IoLoop]) \in Tracked,
           \/ queue' = Dequeued(IoLoop)
           \/ \E y \in {Task("writeComplete"), Task("highWaterMark")} :
                 queue' = [Dequeued(IoLoop) EXCEPT ![IoLoop] = Append(@, y)]
    PROVE  QueueDropped(IoLoop, Head(queue[IoLoop]))
<1>1. CASE queue' = Dequeued(IoLoop) BY <1>1, LoopFacts, DequeuedDropped
<1>2. ASSUME NEW y \in {Task("writeComplete"), Task("highWaterMark")},
             queue' = [Dequeued(IoLoop) EXCEPT ![IoLoop] = Append(@, y)]
      PROVE  QueueDropped(IoLoop, Head(queue[IoLoop]))
  <2> DEFINE q == Tail(queue[IoLoop])
             h == Head(queue[IoLoop])
  <2>1. queue \in [Loops -> Seq(Tasks)] /\ IoLoop \in Loops BY LoopFacts
  <2>2. queue[IoLoop] \in Seq(Tasks) BY <2>1
  <2>3. y \in Tasks /\ y \notin Tracked BY TrackedFacts DEF Tracked
  <2>4. /\ q \in Seq(Tasks)
        /\ Contains(queue[IoLoop], h)
        /\ \A x : Contains(q, x) => Contains(queue[IoLoop], x)
        /\ \A x : x # h /\ Contains(queue[IoLoop], x) => Contains(q, x)
        /\ \A x : Single(queue[IoLoop], x) => Single(q, x)
        /\ Single(queue[IoLoop], h) => ~Contains(q, h)
    BY <2>2, TailContains
  <2>5. /\ queue'[IoLoop] = Append(q, y)
        /\ \A l \in Loops : l # IoLoop => queue'[l] = queue[l]
        /\ DOMAIN queue' = DOMAIN queue
    BY <1>2, <2>1 DEF Dequeued
  <2>6. h \in Tasks BY <2>2, TailContains
  <2> HIDE DEF q, h
  <2>7. /\ Append(q, y) \in Seq(Tasks)
        /\ \A x : Contains(Append(q, y), x) <=> Contains(q, x) \/ x = y
        /\ \A x : x # y /\ Single(q, x) => Single(Append(q, y), x)
        /\ ~Contains(q, y) => Single(Append(q, y), y)
    BY <2>3, <2>4, AppendContains
  <2>8. queue' \in [Loops -> Seq(Tasks)]
    <3>1. DOMAIN queue' = Loops BY <2>5 DEF Loops
    <3>2. queue' = [l \in DOMAIN queue' |-> queue'[l]] BY <1>2 DEF Dequeued
    <3>3. \A l \in Loops : queue'[l] \in Seq(Tasks) BY <2>1, <2>5, <2>7
    <3> QED BY <3>1, <3>2, <3>3
  <2>9. \A x \in Tracked : x # h => Same(IoLoop, x)
    BY <2>3, <2>4, <2>5, <2>7 DEF Same
  <2>10. \A l \in Loops, x \in Tracked : l # IoLoop => Same(l, x) BY <2>5 DEF Same
  <2>11. h \in Tracked /\ Single(queue[IoLoop], h) =>
            ~Contains(queue'[IoLoop], h) /\ Single(queue'[IoLoop], h)
    BY <2>3, <2>4, <2>5, <2>7
  <2> QED BY <2>4, <2>5, <2>8, <2>9, <2>10, <2>11 DEF QueueDropped, QueueTyped, h
<1> QED BY <1>1, <1>2

(* What each step does to the queues. *)
LEMMA QueueSteps ==
    ASSUME TypeOK, [Next]_vars
    PROVE  QueueTyped
<1>1. BaseLoop \in Loops /\ IoLoop \in Loops BY LoopFacts
<1>2. ASSUME UNCHANGED queue PROVE QueueTyped BY <1>2, UnchangedKept DEF QueueKept
<1>3. ASSUME NEW op, NEW l \in Loops, AtHead(l, op), queue' = Dequeued(l) PROVE QueueTyped
  BY <1>3, DequeuedDropped DEF AtHead, QueueDropped
<1>4. ASSUME NEW l \in Loops, NEW y \in Tracked, queue' = Enqueue(l, y) PROVE QueueTyped
  BY <1>4, EnqueueAdded DEF QueueAdded
<1>5. ASSUME NEW y \in {Task("writeComplete"), Task("highWaterMark")},
             queue' = Enqueue(IoLoop, y)
      PROVE  QueueTyped
  BY <1>5, EnqueueKept DEF QueueKept
<1>6. CASE UNCHANGED vars BY <1>2, <1>6 DEF vars
<1>7. CASE NewConnection
  <2>1. queue' = queue \/ queue' = Enqueue(IoLoop, EstablishTask)
    BY <1>7 DEF NewConnection, EstablishTask
  <2> QED BY <1>1, <1>2, <1>4, <2>1, TrackedFacts
<1>8. CASE ConnectEstablished BY <1>1, <1>3, <1>8 DEF ConnectEstablished
<1>9. CASE RemoveConnection
  <2>1. queue \in [Loops -> Seq(Tasks)] /\ queue[BaseLoop] # <<>>
    BY <1>9, LoopFacts DEF RemoveConnection, AtHead
  <2>2. Dequeued(BaseLoop) \in [Loops -> Seq(Tasks)]
    <3>1. Tail(queue[BaseLoop]) \in Seq(Tasks) BY <1>1, <2>1, TailContains
    <3> QED BY <1>1, <2>1, <3>1 DEF Dequeued
  <2>3. queue' = [Dequeued(BaseLoop) EXCEPT ![IoLoop] = Append(@, DestroyTask)]
    BY <1>9 DEF RemoveConnection, DestroyTask
  <2>4. Append(Dequeued(BaseLoop)[IoLoop], DestroyTask) \in Seq(Tasks)
    <3>1. Dequeued(BaseLoop)[IoLoop] \in Seq(Tasks) BY <1>1, <2>2
    <3>2. DestroyTask \in Tasks BY TrackedFacts
    <3> QED BY <3>1, <3>2
  <2>5. queue' \in [Loops -> Seq(Tasks)] BY <1>1, <2>2, <2>3, <2>4
  <2> QED BY <2>1, <2>5 DEF QueueTyped, Loops
<1>10. CASE ConnectDestroyed BY <1>1, <1>3, <1>10 DEF ConnectDestroyed
<1>11. CASE RunUserCallback BY <1>1, <1>3, <1>11 DEF RunUserCallback
<1>12. CASE RunSendInLoop
  <2>1. /\ queue[IoLoop] # <<>> /\ Head(queue[IoLoop]).msg \in Message
        /\ Head(queue[IoLoop]) = SendTask(Head(queue[IoLoop]).msg)
    BY <1>1, <1>12, HeadFacts DEF RunSendInLoop
  <2>2. SendEffect(Head(queue[IoLoop]).msg, Dequeued(IoLoop))
    BY <1>12, <2>1, SendInLoopEffect DEF RunSendInLoop
  <2>3. Head(queue[IoLoop]) \in Tracked BY <2>1, TrackedFacts
  <2> QED BY <2>1, <2>2, <2>3, DequeuedEnqueued DEF SendEffect, QueueDropped
<1>13. CASE RunShutdownInLoop BY <1>1, <1>3, <1>13 DEF RunShutdownInLoop
<1>14. ASSUME NEW r \in IoEvents, ReadMessage(r) PROVE QueueTyped
  BY <1>2, <1>14 DEF ReadMessage
<1>15. ASSUME NEW r \in IoEvents, ReadError(r) PROVE QueueTyped
  BY <1>2, <1>15 DEF ReadError
<1>16. ASSUME NEW r \in IoEvents, HandleClose(r) PROVE QueueTyped
  <2>1. queue' = Enqueue(IoLoop, DestroyTask) \/ queue' = Enqueue(BaseLoop, RemoveTask)
    BY <1>16 DEF HandleClose, DestroyTask, RemoveTask
  <2> QED BY <1>1, <1>4, <2>1, TrackedFacts
<1>17. ASSUME WriteEffect PROVE QueueTyped
  <2>1. queue' = queue \/ queue' = Enqueue(IoLoop, Task("writeComplete"))
    BY <1>17 DEF WriteEffect
  <2> QED BY <1>2, <1>5, <2>1
<1>18. CASE EndMessage
  <2>1. (\E n \in 0..Len(outputBuffer) : HandleWrite(n)) \/ UNCHANGED queue
    BY <1>18 DEF EndMessage
  <2> QED BY <1>2, <1>17, <2>1, HandleWriteEffect
<1>19. CASE WriteEvent BY <1>17, <1>19, HandleWriteEffect DEF WriteEvent
<1>20. ASSUME NEW t \in Threads, Release(t) PROVE QueueTyped
  BY <1>2, <1>20 DEF Release
<1>21. ASSUME NEW m \in Message, SendInLoopThread(m) PROVE QueueTyped
  <2>1. SendEffect(m, queue) BY <1>21, SendInLoopEffect DEF SendInLoopThread
  <2>2. \/ queue' = queue
        \/ \E y \in {Task("writeComplete"), Task("highWaterMark")} : queue' = Enqueue(IoLoop, y)
    BY <2>1 DEF SendEffect, Enqueue
  <2> QED BY <1>2, <1>5, <2>2
<1>27. ASSUME NEW t \in User, NEW m \in Message, SendTest(t, m) PROVE QueueTyped
  BY <1>2, <1>27 DEF SendTest
<1>28. ASSUME NEW t \in User, NEW m \in Message, SendQueue(t, m) PROVE QueueTyped
  BY <1>1, <1>4, <1>28, TrackedFacts DEF SendQueue
<1>22. CASE ShutdownInLoopThread BY <1>2, <1>22 DEF ShutdownInLoopThread
<1>23. ASSUME NEW t \in User, ShutdownTest(t) PROVE QueueTyped
  BY <1>2, <1>23 DEF ShutdownTest
<1>24. ASSUME NEW t \in User, ShutdownSet(t) PROVE QueueTyped
  BY <1>2, <1>24 DEF ShutdownSet
<1>25. ASSUME NEW t \in User, ShutdownQueue(t) PROVE QueueTyped
  <2>1. queue' = Enqueue(IoLoop, ShutdownTask)
    BY <1>25 DEF ShutdownQueue, ShutdownTask
  <2> QED BY <1>1, <1>4, <2>1, TrackedFacts
<1>26. CASE PeerSend \/ PeerClose \/ PeerReset
  BY <1>2, <1>26 DEF PeerSend, PeerClose, PeerReset
<1> QED
  BY <1>6, <1>7, <1>8, <1>9, <1>10, <1>11, <1>12, <1>13, <1>14, <1>15, <1>16, <1>18,
     <1>19, <1>20, <1>21, <1>22, <1>23, <1>24, <1>25, <1>26, <1>27, <1>28, NextCases

(* Every step keeps the connection well typed. *)
LEMMA TypeStep ==
    ASSUME TypeOK, [Next]_vars
    PROVE  TypeOK'
<1> DEFINE ConnTyped == /\ state' \in StateE \cup {"none"}
                        /\ connections' \in BOOLEAN /\ active' \in BOOLEAN
                        /\ events' \subseteq {"READ", "WRITE"}
                        /\ handling' \in {"no", "message"} /\ revents' \subseteq {"WRITE"}
                        /\ outputBuffer' \in Seq(Byte)
           CallerTyped == /\ holders' \subseteq Threads
                          /\ calling' \in [User -> {"out", "send", "set", "queue"}]
                          /\ sending' \subseteq Message
           KernelTyped == /\ unread' \in BOOLEAN /\ peerClosed' \in BOOLEAN
                          /\ writeShut' \in BOOLEAN /\ reset' \in {"no", "pending", "seen"}
           HistoryTyped == /\ wire' \in Seq(Byte) /\ callbacks' \in Seq({"UP", "DOWN"})
                           /\ sentBy' \in [Message -> Threads \cup {Nobody}]
                           /\ promised' \subseteq Message
<1>1. SUFFICES ConnTyped /\ CallerTyped /\ KernelTyped /\ HistoryTyped
  <2>1. QueueTyped BY QueueSteps
  <2>2. Loops' = Loops /\ Loops \in {{BaseLoop}, {BaseLoop, "io"}}
    BY <2>1, QueuesNext DEF TypeOK
  <2>3. (queue \in [Loops -> Seq(Tasks)])' BY <2>1, <2>2 DEF QueueTyped
  <2>4. (Loops \in {{BaseLoop}, {BaseLoop, "io"}})' BY <2>2 DEF BaseLoop
  <2> QED BY <2>3, <2>4 DEF TypeOK
<1>2. TypeOK BY DEF TypeOK
<1>3. ASSUME UNCHANGED connVars PROVE ConnTyped BY <1>3 DEF TypeOK, connVars
<1>4. ASSUME UNCHANGED callerVars PROVE CallerTyped BY <1>4 DEF TypeOK, callerVars
<1>5. ASSUME UNCHANGED kernelVars PROVE KernelTyped BY <1>5 DEF TypeOK, kernelVars
<1>6. ASSUME UNCHANGED historyVars PROVE HistoryTyped BY <1>6 DEF TypeOK, historyVars
<1>7. CASE UNCHANGED vars
  BY <1>3, <1>4, <1>5, <1>6, <1>7 DEF vars
<1>8. ASSUME Established, UNCHANGED <<calling, sending, wire, sentBy, promised>>
      PROVE  /\ state' \in StateE /\ events' \subseteq {"READ", "WRITE"}
             /\ CallerTyped /\ HistoryTyped
  <2>1. callbacks' \in Seq({"UP", "DOWN"}) BY <1>8 DEF Established, TypeOK
  <2> QED BY <1>8, <2>1 DEF Established, TypeOK, StateE
<1>9. CASE NewConnection
  <2>1. /\ connections' = TRUE /\ active' = TRUE
        /\ UNCHANGED <<handling, revents, outputBuffer, calling, sending, kernelVars,
                       wire, sentBy, promised>>
        /\ \/ Established
           \/ state' = "kConnecting" /\ UNCHANGED <<events, holders, callbacks>>
    BY <1>9 DEF NewConnection, StartWatcher
  <2>2. KernelTyped BY <1>5, <2>1
  <2>3. CASE Established BY <1>8, <2>1, <2>2, <2>3 DEF TypeOK
  <2>4. CASE state' = "kConnecting" /\ UNCHANGED <<events, holders, callbacks>>
    BY <2>1, <2>2, <2>4 DEF TypeOK, StateE
  <2> QED BY <2>1, <2>3, <2>4
<1>10. CASE ConnectEstablished
  <2>1. /\ Established
        /\ UNCHANGED <<connections, active, handling, revents, outputBuffer, calling, sending,
                       kernelVars, wire, sentBy, promised>>
    BY <1>10 DEF ConnectEstablished
  <2>2. KernelTyped BY <1>5, <2>1
  <2> QED BY <1>8, <2>1, <2>2 DEF TypeOK
<1>11. CASE RemoveConnection
  <2>1. /\ connections' = FALSE
        /\ UNCHANGED <<state, active, events, handling, revents, outputBuffer>>
        /\ UNCHANGED <<callerVars, kernelVars, historyVars>>
    BY <1>11 DEF RemoveConnection
  <2> QED BY <1>4, <1>5, <1>6, <2>1 DEF TypeOK
<1>12. CASE ConnectDestroyed
  <2>1. /\ state' = "kDisconnected" /\ events' = {} /\ active' = FALSE
        /\ callbacks' = Append(callbacks, "DOWN")
        /\ UNCHANGED <<connections, handling, revents, outputBuffer, wire, sentBy, promised>>
        /\ UNCHANGED <<callerVars, kernelVars>>
    BY <1>12 DEF ConnectDestroyed, RemoveChannel
  <2>2. callbacks' \in Seq({"UP", "DOWN"}) BY <2>1 DEF TypeOK
  <2>3. HistoryTyped BY <2>1, <2>2 DEF TypeOK
  <2> QED BY <1>4, <1>5, <2>1, <2>3 DEF TypeOK, StateE
<1>13. CASE RunUserCallback
  BY <1>3, <1>4, <1>5, <1>6, <1>13 DEF RunUserCallback
<1>14. ASSUME NEW m \in Message, NEW queue0, SendInLoop(m, queue0)
       PROVE  /\ outputBuffer' \in Seq(Byte) /\ wire' \in Seq(Byte)
              /\ events' \subseteq {"READ", "WRITE"} /\ writeShut' \in BOOLEAN
  <2>1. SendEffect(m, queue0) BY <1>14, SendInLoopEffect
  <2> QED BY <2>1 DEF SendEffect, TypeOK
<1>15. CASE RunSendInLoop
  <2>1. Head(queue[IoLoop]).msg \in Message
    BY <1>15, LoopFacts, HeadFacts DEF RunSendInLoop
  <2>2. /\ SendInLoop(Head(queue[IoLoop]).msg, Dequeued(IoLoop))
        /\ UNCHANGED <<state, connections, active, handling, revents, callerVars,
                       unread, peerClosed, reset, sentBy, promised, callbacks>>
    BY <1>15 DEF RunSendInLoop
  <2>3. CallerTyped BY <1>4, <2>2
  <2> QED BY <1>14, <2>1, <2>2, <2>3 DEF TypeOK
<1>16. ASSUME NEW w, ShutdownInLoop(w) PROVE writeShut' \in BOOLEAN
  BY <1>16, Zenon DEF ShutdownInLoop
<1>17. CASE RunShutdownInLoop
  <2>1. /\ UNCHANGED connVars /\ UNCHANGED callerVars /\ UNCHANGED historyVars
        /\ UNCHANGED <<unread, peerClosed, reset>> /\ ShutdownInLoop(isWriting)
    BY <1>17 DEF RunShutdownInLoop
  <2>2. KernelTyped BY <1>16, <2>1 DEF TypeOK
  <2> QED BY <1>3, <1>4, <1>6, <2>1, <2>2
<1>18. ASSUME NEW r \in IoEvents, ReadMessage(r) PROVE ConnTyped /\ CallerTyped /\ KernelTyped /\ HistoryTyped
  <2>1. /\ unread' = FALSE /\ handling' = "message" /\ revents' = r \ {"READ"}
        /\ UNCHANGED <<state, connections, active, events, outputBuffer, peerClosed, reset, writeShut>>
        /\ UNCHANGED callerVars /\ UNCHANGED historyVars
    BY <1>18 DEF ReadMessage
  <2>2. r \subseteq {"READ", "WRITE"} BY DEF IoEvents
  <2> QED BY <1>4, <1>6, <2>1, <2>2 DEF TypeOK
<1>19. ASSUME NEW r \in IoEvents, ReadError(r) PROVE ConnTyped /\ CallerTyped /\ KernelTyped /\ HistoryTyped
  <2>1. /\ reset' = "seen" /\ UNCHANGED <<unread, peerClosed, writeShut>>
        /\ UNCHANGED connVars /\ UNCHANGED callerVars /\ UNCHANGED historyVars
    BY <1>19 DEF ReadError
  <2> QED BY <1>3, <1>4, <1>6, <2>1 DEF TypeOK
<1>20. ASSUME NEW r \in IoEvents, HandleClose(r) PROVE ConnTyped /\ CallerTyped /\ KernelTyped /\ HistoryTyped
  <2>1. /\ events' = {} /\ (connections' = FALSE \/ connections' = connections)
        /\ UNCHANGED <<state, active, handling, revents, outputBuffer>>
        /\ UNCHANGED callerVars /\ UNCHANGED kernelVars /\ UNCHANGED historyVars
    BY <1>20 DEF HandleClose
  <2> QED BY <1>4, <1>5, <1>6, <2>1 DEF TypeOK
<1>21. ASSUME NEW n \in 0..Len(outputBuffer), HandleWrite(n)
       PROVE  /\ outputBuffer' \in Seq(Byte) /\ wire' \in Seq(Byte)
              /\ events' \subseteq {"READ", "WRITE"} /\ writeShut' \in BOOLEAN
  <2>1. WriteEffect BY <1>21, HandleWriteEffect
  <2> QED BY <2>1 DEF WriteEffect, TypeOK
<1>22. CASE EndMessage
  <2>1. /\ handling' = "no" /\ revents' = {}
        /\ \/ \E n \in 0..Len(outputBuffer) : HandleWrite(n)
           \/ UNCHANGED <<events, outputBuffer, queue, writeShut, wire>>
        /\ UNCHANGED <<state, connections, active, callerVars, unread, peerClosed,
                       reset, sentBy, promised, callbacks>>
    BY <1>22 DEF EndMessage
  <2>2. /\ outputBuffer' \in Seq(Byte) /\ wire' \in Seq(Byte)
        /\ events' \subseteq {"READ", "WRITE"} /\ writeShut' \in BOOLEAN
    BY <1>21, <2>1 DEF TypeOK
  <2>3. CallerTyped BY <1>4, <2>1
  <2> QED BY <2>1, <2>2, <2>3 DEF TypeOK
<1>23. CASE WriteEvent
  <2>1. /\ \E n \in 0..Len(outputBuffer) : HandleWrite(n)
        /\ UNCHANGED <<state, connections, active, handling, revents, callerVars,
                       unread, peerClosed, reset, sentBy, promised, callbacks>>
    BY <1>23 DEF WriteEvent
  <2>2. CallerTyped BY <1>4, <2>1
  <2> QED BY <1>21, <2>1, <2>2 DEF TypeOK
<1>24. ASSUME NEW t \in Threads, Release(t) PROVE ConnTyped /\ CallerTyped /\ KernelTyped /\ HistoryTyped
  <2>1. /\ holders' = holders \ {t} /\ calling' = calling /\ sending' = sending
        /\ UNCHANGED connVars /\ UNCHANGED kernelVars /\ UNCHANGED historyVars
    BY <1>24 DEF Release
  <2> QED BY <1>3, <1>5, <1>6, <2>1 DEF TypeOK
<1>25. ASSUME NEW m \in Message, SendInLoopThread(m) PROVE ConnTyped /\ CallerTyped /\ KernelTyped /\ HistoryTyped
  <2>1. /\ sentBy' = [sentBy EXCEPT ![m] = IoUser] /\ SendInLoop(m, queue)
        /\ UNCHANGED <<state, connections, active, handling, revents, callerVars,
                       unread, peerClosed, reset, promised, callbacks>>
    BY <1>25 DEF SendInLoopThread, Accept
  <2>2. /\ outputBuffer' \in Seq(Byte) /\ wire' \in Seq(Byte)
        /\ events' \subseteq {"READ", "WRITE"} /\ writeShut' \in BOOLEAN
    BY <1>14, <2>1
  <2>3. CallerTyped BY <1>4, <2>1
  <2>4. IoUser \in Threads BY DEF Threads
  <2> QED BY <2>1, <2>2, <2>3, <2>4 DEF TypeOK
<1>32. ASSUME NEW t \in User, NEW m \in Message, SendTest(t, m) PROVE ConnTyped /\ CallerTyped /\ KernelTyped /\ HistoryTyped
  <2>1. /\ sentBy' = [sentBy EXCEPT ![m] = t] /\ calling' = [calling EXCEPT ![t] = "send"]
        /\ sending' = sending \cup {m} /\ UNCHANGED <<holders, wire, promised, callbacks>>
        /\ UNCHANGED connVars /\ UNCHANGED kernelVars
    BY <1>32 DEF SendTest, Accept
  <2>2. t \in Threads BY DEF Threads
  <2> QED BY <1>3, <1>5, <2>1, <2>2 DEF TypeOK
<1>33. ASSUME NEW t \in User, NEW m \in Message, SendQueue(t, m) PROVE ConnTyped /\ CallerTyped /\ KernelTyped /\ HistoryTyped
  <2>1. /\ calling' = [calling EXCEPT ![t] = "out"] /\ sending' = sending \ {m}
        /\ holders' = holders
        /\ UNCHANGED connVars /\ UNCHANGED kernelVars /\ UNCHANGED historyVars
    BY <1>33 DEF SendQueue
  <2> QED BY <1>3, <1>5, <1>6, <2>1 DEF TypeOK
<1>26. ASSUME NEW t, SetDisconnecting(t)
       PROVE  state' \in StateE /\ promised' \subseteq Message
  BY <1>26 DEF SetDisconnecting, StateE, TypeOK
<1>27. CASE ShutdownInLoopThread
  <2>1. /\ SetDisconnecting(IoUser) /\ ShutdownInLoop(isWriting)
        /\ UNCHANGED <<connections, active, events, handling, revents, outputBuffer,
                       unread, peerClosed, reset, wire, sentBy, callbacks>>
        /\ UNCHANGED callerVars
    BY <1>27 DEF ShutdownInLoopThread
  <2> QED BY <1>4, <1>16, <1>26, <2>1 DEF TypeOK
<1>28. ASSUME NEW t \in User, ShutdownTest(t) PROVE ConnTyped /\ CallerTyped /\ KernelTyped /\ HistoryTyped
  <2>1. /\ calling' = [calling EXCEPT ![t] = "set"]
        /\ UNCHANGED <<holders, sending>>
        /\ UNCHANGED connVars /\ UNCHANGED kernelVars /\ UNCHANGED historyVars
    BY <1>28 DEF ShutdownTest
  <2> QED BY <1>3, <1>5, <1>6, <2>1 DEF TypeOK
<1>29. ASSUME NEW t \in User, ShutdownSet(t) PROVE ConnTyped /\ CallerTyped /\ KernelTyped /\ HistoryTyped
  <2>1. /\ SetDisconnecting(t) /\ calling' = [calling EXCEPT ![t] = "queue"]
        /\ UNCHANGED <<connections, active, events, handling, revents, outputBuffer,
                       holders, sending, wire, sentBy, callbacks>>
        /\ UNCHANGED kernelVars
    BY <1>29 DEF ShutdownSet
  <2> QED BY <1>5, <1>26, <2>1 DEF TypeOK
<1>30. ASSUME NEW t \in User, ShutdownQueue(t) PROVE ConnTyped /\ CallerTyped /\ KernelTyped /\ HistoryTyped
  <2>1. /\ calling' = [calling EXCEPT ![t] = "out"]
        /\ UNCHANGED <<holders, sending>>
        /\ UNCHANGED connVars /\ UNCHANGED kernelVars /\ UNCHANGED historyVars
    BY <1>30 DEF ShutdownQueue
  <2> QED BY <1>3, <1>5, <1>6, <2>1 DEF TypeOK
<1>31. CASE PeerSend \/ PeerClose \/ PeerReset
  <2>1. /\ UNCHANGED connVars /\ UNCHANGED callerVars /\ UNCHANGED historyVars
        /\ writeShut' = writeShut
        /\ unread' \in {unread, TRUE} /\ peerClosed' \in {peerClosed, TRUE}
        /\ reset' \in {reset, "pending"}
    BY <1>31 DEF PeerSend, PeerClose, PeerReset
  <2> QED BY <1>3, <1>4, <1>6, <2>1 DEF TypeOK
<1> QED
  BY <1>7, <1>9, <1>10, <1>11, <1>12, <1>13, <1>15, <1>17, <1>18, <1>19, <1>20, <1>22,
     <1>23, <1>24, <1>25, <1>27, <1>28, <1>29, <1>30, <1>31, <1>32, <1>33, NextCases

-----------------------------------------------------------------------------
(* The stages of the life cycle. *)

LEMMA StageDistinct ==
    /\ <<"UP">> # <<>> /\ <<"UP", "DOWN">> # <<>> /\ <<"UP">> # <<"UP", "DOWN">>
<1>1. Len(<<"UP">>) = 1 /\ Len(<<"UP", "DOWN">>) = 2 /\ Len(<<>>) = 0 OBVIOUS
<1> QED BY <1>1

LEMMA DownFollowsUp == Append(<<"UP">>, "DOWN") = <<"UP", "DOWN">>
<1> DEFINE s == Append(<<"UP">>, "DOWN")
           u == <<"UP", "DOWN">>
<1>1. <<"UP">> \in Seq({"UP", "DOWN"}) /\ Len(<<"UP">>) = 1 /\ <<"UP">>[1] = "UP" OBVIOUS
<1>2. s \in Seq({"UP", "DOWN"}) /\ Len(s) = 2 /\ s[1] = "UP" /\ s[2] = "DOWN"
  BY <1>1, AppendProperties
<1>3. u \in Seq({"UP", "DOWN"}) /\ Len(u) = 2 /\ u[1] = "UP" /\ u[2] = "DOWN" OBVIOUS
<1> HIDE DEF s, u
<1>4. \A i \in 1..Len(s) : s[i] = u[i] BY <1>2, <1>3
<1>5. s = u BY <1>2, <1>3, <1>4, SeqEqual
<1> QED BY <1>5 DEF s, u

(* Before the first callback nothing but connectEstablished() can happen;  *)
(* afterwards the connection is up, closing or down.                       *)
LEMMA BeforeUp ==
    ASSUME TypeOK, StageInv, callbacks = <<>>
    PROVE  /\ Untouched /\ state \in {"none", "kConnecting"}
           /\ \A x \in Tracked : Contains(IoQueue, x) => x = EstablishTask
           /\ \A x \in Tracked : ~Contains(BaseQueue, x) \/ IoLoop = BaseLoop
           /\ ~Contains(BaseQueue, RemoveTask)
<1>1. NotCreated \/ Connecting BY StageDistinct DEF StageInv, Up, Closing, Down
<1> QED BY <1>1, LoopFacts, TrackedFacts DEF NotCreated, Connecting, IoQueue, BaseQueue

LEMMA AfterUp ==
    ASSUME StageInv, callbacks # <<>>
    PROVE  Up \/ Closing \/ Down
  BY DEF StageInv, NotCreated, Connecting, Untouched

(* A step that leaves the life cycle where it is. *)
LifeTasks == {EstablishTask, RemoveTask, DestroyTask}

QuietStep ==
    /\ QueueTyped /\ \A l \in Loops, x \in LifeTasks : Same(l, x)
    /\ callbacks = <<>> =>
          QueueKept /\ UNCHANGED <<state, events, handling, holders, outputBuffer, calling>>
    /\ UNCHANGED <<connections, active, callbacks>>
    /\ "READ" \in events' <=> "READ" \in events
    /\ handling' = handling \/ handling' = "no" \/ "READ" \in events
    /\ state' = state \/ (callbacks # <<>> /\ state' = "kDisconnecting")

LEMMA QuietStage ==
    ASSUME TypeOK, StageInv, QuietStep
    PROVE  StageInv'
<1>1. /\ Loops' = Loops /\ (SameLoop' <=> SameLoop)
      /\ IoQueue' = queue'[IoLoop] /\ BaseQueue' = queue'[BaseLoop]
      /\ IoQueue = queue[IoLoop] /\ BaseQueue = queue[BaseLoop]
      /\ IoLoop \in Loops /\ BaseLoop \in Loops
  BY QueuesNext DEF QuietStep
<1>2. \A x \in LifeTasks :
         /\ Contains(IoQueue', x) <=> Contains(IoQueue, x)
         /\ Single(IoQueue, x) => Single(IoQueue', x)
         /\ Contains(BaseQueue', x) <=> Contains(BaseQueue, x)
         /\ Single(BaseQueue, x) => Single(BaseQueue', x)
  BY <1>1 DEF QuietStep, Same
<1>3. EstablishTask \in LifeTasks /\ RemoveTask \in LifeTasks /\ DestroyTask \in LifeTasks
  BY DEF LifeTasks
<1>4. CASE callbacks = <<>>
  <2>1. QueueKept /\ UNCHANGED <<state, events, handling, holders, outputBuffer, calling>>
    BY <1>4 DEF QuietStep
  <2>2. \A l \in Loops, x \in Tracked :
           /\ Contains(queue'[l], x) <=> Contains(queue[l], x)
           /\ Single(queue[l], x) => Single(queue'[l], x)
    BY <2>1 DEF QueueKept, Same
  <2>3. UNCHANGED <<connections, active, callbacks>> BY DEF QuietStep
  <2>4. Untouched => Untouched' BY <2>1, <2>3 DEF Untouched
  <2>5. CASE NotCreated
    BY <1>1, <2>1, <2>2, <2>3, <2>4, <2>5 DEF NotCreated, StageInv
  <2>6. CASE Connecting
    BY <1>1, <2>1, <2>2, <2>3, <2>4, <2>6, TrackedFacts DEF Connecting, StageInv
  <2> QED BY <1>4, <2>5, <2>6, StageDistinct DEF StageInv, Up, Closing, Down
<1>5. CASE callbacks # <<>>
  <2>1. CASE Up BY <1>2, <1>3, <2>1 DEF Up, StageInv, QuietStep
  <2>2. CASE Closing BY <1>1, <1>2, <1>3, <2>2 DEF Closing, StageInv, QuietStep
  <2>3. CASE Down BY <1>2, <1>3, <2>3 DEF Down, StageInv, QuietStep
  <2> QED BY <1>5, <2>1, <2>2, <2>3, AfterUp
<1> QED BY <1>4, <1>5

LEMMA KeptQuiet ==
    ASSUME QueueKept
    PROVE  QueueTyped /\ \A l \in Loops, x \in LifeTasks : Same(l, x)
  BY TrackedFacts DEF QueueKept, LifeTasks

(* A step that adds or takes a functor that is not of the life cycle. *)
LEMMA OtherQuiet ==
    ASSUME NEW k, NEW y, y \notin LifeTasks, QueueAdded(k, y) \/ QueueDropped(k, y)
    PROVE  QueueTyped /\ \A l \in Loops, x \in LifeTasks : Same(l, x)
  BY TrackedFacts DEF QueueAdded, QueueDropped, LifeTasks

(* What the steps that use a queue do to it. *)
LEMMA HeadDropped ==
    ASSUME TypeOK, NEW op \in {"connectEstablished", "connectDestroyed", "removeConnection",
                               "shutdownInLoop"},
           NEW l \in Loops, AtHead(l, op), queue' = Dequeued(l)
    PROVE  QueueDropped(l, Task(op))
<1>1. queue[l] # <<>> /\ Head(queue[l]) = Task(op) BY HeadFacts
<1> QED BY <1>1, DequeuedDropped

LEMMA UserCallbackKept ==
    ASSUME TypeOK, RunUserCallback
    PROVE  QueueKept
<1>1. IoLoop \in Loops BY LoopFacts
<1>2. PICK op \in {"writeComplete", "highWaterMark"} :
              AtHead(IoLoop, op) /\ queue' = Dequeued(IoLoop)
  BY DEF RunUserCallback
<1>3. queue[IoLoop] # <<>> /\ Head(queue[IoLoop]) = Task(op) BY <1>1, <1>2, HeadFacts
<1>4. Task(op) \notin Tracked BY DEF Tracked
<1> QED BY <1>1, <1>2, <1>3, <1>4, DequeuedDropped, DropUntracked

LEMMA WriteKept ==
    ASSUME TypeOK, WriteEffect
    PROVE  QueueKept
<1>1. queue' = queue \/ queue' = Enqueue(IoLoop, Task("writeComplete")) BY DEF WriteEffect
<1> QED BY <1>1, UnchangedKept, EnqueueKept

LEMMA RunSendFacts ==
    ASSUME TypeOK, RunSendInLoop
    PROVE  \E m \in Message :
              /\ QueueDropped(IoLoop, SendTask(m))
              /\ SendEffect(m, Dequeued(IoLoop))
              /\ UNCHANGED <<state, connections, active, handling, revents, holders, calling, sending,
                             unread, peerClosed, reset, sentBy, promised, callbacks>>
<1> DEFINE m == Head(queue[IoLoop]).msg
<1>1. IoLoop \in Loops BY LoopFacts
<1>2. AtHead(IoLoop, "sendInLoop") /\ SendInLoop(m, Dequeued(IoLoop)) BY DEF RunSendInLoop
<1>3. queue[IoLoop] # <<>> /\ m \in Message /\ Head(queue[IoLoop]) = SendTask(m)
  BY <1>1, <1>2, HeadFacts
<1>4. UNCHANGED <<state, connections, active, handling, revents, holders, calling, sending,
                  unread, peerClosed, reset, sentBy, promised, callbacks>>
  BY DEF RunSendInLoop, callerVars
<1> HIDE DEF m
<1>5. SendEffect(m, Dequeued(IoLoop)) BY <1>2, <1>3, SendInLoopEffect
<1>6. SendTask(m) \in Tracked BY <1>3, TrackedFacts
<1>7. QueueDropped(IoLoop, Head(queue[IoLoop]))
  BY <1>3, <1>5, <1>6, DequeuedEnqueued DEF SendEffect
<1> QED BY <1>3, <1>4, <1>5, <1>7

LEMMA SendFacts ==
    ASSUME TypeOK, NEW m \in Message, SendInLoopThread(m)
    PROVE  /\ state = "kConnected" /\ sentBy[m] = Nobody
           /\ sentBy' = [sentBy EXCEPT ![m] = IoUser]
           /\ UNCHANGED <<state, connections, active, handling, revents, holders, calling, sending,
                          unread, peerClosed, reset, promised, callbacks>>
           /\ QueueKept /\ SendEffect(m, queue)
<1>1. /\ state = "kConnected" /\ sentBy[m] = Nobody
      /\ sentBy' = [sentBy EXCEPT ![m] = IoUser]
      /\ UNCHANGED <<state, connections, active, handling, revents, holders, calling, sending,
                     unread, peerClosed, reset, promised, callbacks>>
  BY DEF SendInLoopThread, Accept, callerVars
<1>2. SendEffect(m, queue) BY SendInLoopEffect DEF SendInLoopThread
<1>3. \/ queue' = queue
      \/ \E y \in {Task("writeComplete"), Task("highWaterMark")} : queue' = Enqueue(IoLoop, y)
  BY <1>2 DEF SendEffect, Enqueue
<1>4. QueueKept BY <1>3, UnchangedKept, EnqueueKept
<1> QED BY <1>1, <1>2, <1>4

(* Off the loop send() only queues, for a connection that is not new. *)
LEMMA SendQueueFacts ==
    ASSUME TypeOK, StageInv, NEW t \in User, NEW m \in Message, SendQueue(t, m)
    PROVE  /\ callbacks # <<>> /\ m \in sending /\ sentBy[m] = t
           /\ QueueAdded(IoLoop, SendTask(m))
           /\ sending' = sending \ {m} /\ calling' = [calling EXCEPT ![t] = "out"]
           /\ UNCHANGED <<state, connections, active, events, handling, outputBuffer,
                          writeShut, reset, wire, sentBy, callbacks>>
<1>1. /\ calling[t] = "send" /\ m \in sending /\ sentBy[m] = t
      /\ queue' = Enqueue(IoLoop, SendTask(m))
      /\ sending' = sending \ {m} /\ calling' = [calling EXCEPT ![t] = "out"]
      /\ UNCHANGED <<state, connections, active, events, handling, outputBuffer,
                     writeShut, reset, wire, sentBy, callbacks>>
  BY DEF SendQueue, connVars, kernelVars, historyVars
<1>2. callbacks # <<>> BY <1>1, BeforeUp DEF Untouched
<1>3. QueueAdded(IoLoop, SendTask(m)) BY <1>1, LoopFacts, TrackedFacts, EnqueueAdded
<1> QED BY <1>1, <1>2, <1>3

(* The life cycle moves from stage to stage. *)
LEMMA StageStep ==
    ASSUME ConnInv, [Next]_vars
    PROVE  StageInv'
<1> USE DEF connVars, callerVars, kernelVars, historyVars
<1>1. TypeOK /\ StageInv BY DEF ConnInv
<1>2. /\ BaseLoop \in Loops /\ IoLoop \in Loops
      /\ \A l \in Loops : l = BaseLoop \/ l = IoLoop
      /\ SameLoop <=> IoLoop = BaseLoop
  BY <1>1, LoopFacts
<1>3. ASSUME callbacks = <<>> PROVE Untouched /\ state \in {"none", "kConnecting"}
  BY <1>1, <1>3, BeforeUp
<1>4. CASE UNCHANGED vars
  <2>1. QueueKept BY <1>1, <1>4, UnchangedKept DEF vars
  <2> QED BY <1>1, <1>4, <2>1, KeptQuiet, QuietStage DEF QuietStep, vars
<1>5. CASE RunUserCallback
  <2>1. QueueKept BY <1>1, <1>5, UserCallbackKept
  <2> QED BY <1>1, <1>5, <2>1, KeptQuiet, QuietStage DEF QuietStep, RunUserCallback
<1>6. CASE RunSendInLoop
  <2>1. PICK m \in Message :
              /\ QueueDropped(IoLoop, SendTask(m))
              /\ SendEffect(m, Dequeued(IoLoop))
              /\ UNCHANGED <<state, connections, active, handling, revents, holders, calling, sending,
                             unread, peerClosed, reset, sentBy, promised, callbacks>>
    BY <1>1, <1>6, RunSendFacts
  <2>2. Contains(IoQueue, SendTask(m)) BY <2>1 DEF QueueDropped, IoQueue
  <2>3. callbacks # <<>> BY <1>1, <2>2, BeforeUp, TrackedFacts
  <2>4. QueueTyped /\ \A l \in Loops, x \in LifeTasks : Same(l, x)
    BY <2>1, TrackedFacts, OtherQuiet DEF LifeTasks
  <2>5. "READ" \in events' <=> "READ" \in events BY <2>1 DEF SendEffect
  <2> QED BY <1>1, <2>1, <2>3, <2>4, <2>5, QuietStage DEF QuietStep
<1>7. CASE RunShutdownInLoop
  <2>1. QueueDropped(IoLoop, ShutdownTask)
    BY <1>1, <1>2, <1>7, HeadDropped DEF RunShutdownInLoop, ShutdownTask
  <2>2. Contains(IoQueue, ShutdownTask) BY <2>1 DEF QueueDropped, IoQueue
  <2>3. callbacks # <<>> BY <1>1, <2>2, BeforeUp, TrackedFacts
  <2>4. QueueTyped /\ \A l \in Loops, x \in LifeTasks : Same(l, x)
    BY <2>1, TrackedFacts, OtherQuiet DEF LifeTasks
  <2> QED BY <1>1, <1>7, <2>3, <2>4, QuietStage DEF QuietStep, RunShutdownInLoop
<1>8. ASSUME NEW r \in IoEvents, ReadMessage(r) PROVE StageInv'
  <2>1. QueueKept BY <1>1, <1>8, UnchangedKept DEF ReadMessage
  <2>2. "READ" \in events BY <1>8 DEF ReadMessage, CanHandle
  <2>3. callbacks # <<>> BY <1>3, <2>2 DEF Untouched
  <2> QED BY <1>1, <1>8, <2>1, <2>2, <2>3, KeptQuiet, QuietStage DEF QuietStep, ReadMessage
<1>9. ASSUME NEW r \in IoEvents, ReadError(r) PROVE StageInv'
  <2>1. QueueKept BY <1>1, <1>9, UnchangedKept DEF ReadError
  <2> QED BY <1>1, <1>9, <2>1, KeptQuiet, QuietStage DEF QuietStep, ReadError
<1>10. CASE EndMessage
  <2>1. callbacks # <<>> BY <1>3, <1>10 DEF EndMessage, Untouched
  <2>2. WriteEffect \/ UNCHANGED <<events, outputBuffer, queue, writeShut, wire>>
    BY <1>1, <1>10, HandleWriteEffect DEF EndMessage
  <2>3. QueueKept BY <1>1, <2>2, UnchangedKept, WriteKept
  <2>4. "READ" \in events' <=> "READ" \in events BY <2>2 DEF WriteEffect
  <2>5. handling' = "no" /\ UNCHANGED <<state, connections, active, callbacks>>
    BY <1>10 DEF EndMessage
  <2> QED BY <1>1, <2>1, <2>3, <2>4, <2>5, KeptQuiet, QuietStage DEF QuietStep
<1>11. CASE WriteEvent
  <2>1. "WRITE" \in events BY <1>11 DEF WriteEvent, CanHandle
  <2>2. callbacks # <<>> BY <1>3, <2>1 DEF Untouched
  <2>3. WriteEffect BY <1>1, <1>11, HandleWriteEffect DEF WriteEvent
  <2>4. QueueKept BY <1>1, <2>3, WriteKept
  <2>5. "READ" \in events' <=> "READ" \in events BY <2>3 DEF WriteEffect
  <2>6. UNCHANGED <<state, connections, active, handling, callbacks>>
    BY <1>11 DEF WriteEvent
  <2> QED BY <1>1, <2>2, <2>4, <2>5, <2>6, KeptQuiet, QuietStage DEF QuietStep
<1>12. ASSUME NEW t \in Threads, Release(t) PROVE StageInv'
  <2>1. QueueKept BY <1>1, <1>12, UnchangedKept DEF Release
  <2>2. callbacks # <<>> BY <1>3, <1>12 DEF Release, Untouched
  <2> QED BY <1>1, <1>12, <2>1, <2>2, KeptQuiet, QuietStage DEF QuietStep, Release
<1>13. ASSUME NEW m \in Message, SendInLoopThread(m) PROVE StageInv'
  <2>1. /\ state = "kConnected" /\ QueueKept /\ SendEffect(m, queue)
        /\ UNCHANGED <<state, connections, active, handling, callbacks>>
    BY <1>1, <1>13, SendFacts
  <2>2. callbacks # <<>> BY <1>3, <2>1
  <2>3. "READ" \in events' <=> "READ" \in events BY <2>1 DEF SendEffect
  <2> QED BY <1>1, <2>1, <2>2, <2>3, KeptQuiet, QuietStage DEF QuietStep
<1>24. ASSUME NEW t \in User, NEW m \in Message, SendTest(t, m) PROVE StageInv'
  <2>1. QueueKept BY <1>1, <1>24, UnchangedKept DEF SendTest
  <2>2. callbacks # <<>> BY <1>3, <1>24 DEF SendTest, Accept
  <2> QED BY <1>1, <1>24, <2>1, <2>2, KeptQuiet, QuietStage DEF QuietStep, SendTest
<1>25. ASSUME NEW t \in User, NEW m \in Message, SendQueue(t, m) PROVE StageInv'
  <2>1. /\ callbacks # <<>> /\ QueueAdded(IoLoop, SendTask(m))
        /\ UNCHANGED <<state, connections, active, events, handling, callbacks>>
    BY <1>1, <1>25, SendQueueFacts
  <2>2. QueueTyped /\ \A l \in Loops, x \in LifeTasks : Same(l, x)
    BY <2>1, TrackedFacts, OtherQuiet DEF LifeTasks
  <2> QED BY <1>1, <2>1, <2>2, QuietStage DEF QuietStep
<1>14. CASE ShutdownInLoopThread
  <2>1. QueueKept BY <1>1, <1>14, UnchangedKept DEF ShutdownInLoopThread
  <2>2. callbacks # <<>> BY <1>3, <1>14 DEF ShutdownInLoopThread
  <2>3. state' = "kDisconnecting" /\ UNCHANGED <<connections, active, events, handling, callbacks>>
    BY <1>14 DEF ShutdownInLoopThread, SetDisconnecting
  <2> QED BY <1>1, <2>1, <2>2, <2>3, KeptQuiet, QuietStage DEF QuietStep
<1>15. ASSUME NEW t \in User, ShutdownTest(t) PROVE StageInv'
  <2>1. QueueKept BY <1>1, <1>15, UnchangedKept DEF ShutdownTest
  <2>2. callbacks # <<>> BY <1>3, <1>15 DEF ShutdownTest
  <2> QED BY <1>1, <1>15, <2>1, <2>2, KeptQuiet, QuietStage DEF QuietStep, ShutdownTest
<1>16. ASSUME NEW t \in User, ShutdownSet(t) PROVE StageInv'
  <2>1. QueueKept BY <1>1, <1>16, UnchangedKept DEF ShutdownSet
  <2>2. callbacks # <<>> BY <1>3, <1>16 DEF ShutdownSet, Untouched
  <2>3. state' = "kDisconnecting" /\ UNCHANGED <<connections, active, events, handling, callbacks>>
    BY <1>16 DEF ShutdownSet, SetDisconnecting
  <2> QED BY <1>1, <2>1, <2>2, <2>3, KeptQuiet, QuietStage DEF QuietStep
<1>17. ASSUME NEW t \in User, ShutdownQueue(t) PROVE StageInv'
  <2>1. QueueAdded(IoLoop, ShutdownTask)
    BY <1>1, <1>2, <1>17, TrackedFacts, EnqueueAdded DEF ShutdownQueue, ShutdownTask
  <2>2. callbacks # <<>> BY <1>3, <1>17 DEF ShutdownQueue, Untouched
  <2>3. QueueTyped /\ \A l \in Loops, x \in LifeTasks : Same(l, x)
    BY <2>1, TrackedFacts, OtherQuiet DEF LifeTasks
  <2> QED BY <1>1, <1>17, <2>2, <2>3, QuietStage DEF QuietStep, ShutdownQueue
<1>18. CASE PeerSend \/ PeerClose \/ PeerReset
  <2>1. UNCHANGED <<connVars, queue, callerVars, callbacks>>
    BY <1>18 DEF PeerSend, PeerClose, PeerReset
  <2>2. QueueKept BY <1>1, <2>1, UnchangedKept
  <2> QED BY <1>1, <2>1, <2>2, KeptQuiet, QuietStage DEF QuietStep
<1>19. CASE NewConnection
  <2>1. NotCreated BY <1>1, <1>19 DEF NewConnection, StageInv, Connecting, Up, Closing, Down
  <2>2. /\ connections' = TRUE /\ active' = TRUE
        /\ UNCHANGED <<handling, outputBuffer, calling>>
    BY <1>19 DEF NewConnection, StartWatcher
  <2>3. CASE SameLoop
    <3>1. Established /\ UNCHANGED queue BY <1>19, <2>3 DEF NewConnection
    <3>2. QueueKept BY <1>1, <3>1, UnchangedKept
    <3>3. /\ IoQueue' = queue[IoLoop] /\ BaseQueue' = queue[BaseLoop]
      BY <1>1, <3>1, <3>2, QueuesNext DEF QueueKept
    <3>4. callbacks' = <<"UP">> BY <2>1, <3>1 DEF Established, NotCreated, Untouched
    <3>5. Up'
      BY <1>2, <2>1, <2>2, <3>1, <3>3, <3>4, TrackedFacts DEF Up, Established, NotCreated
    <3> QED BY <3>5 DEF StageInv
  <2>4. CASE ~SameLoop
    <3>1. /\ state' = "kConnecting" /\ UNCHANGED <<events, holders, callbacks>>
          /\ queue' = Enqueue(IoLoop, EstablishTask)
      BY <1>19, <2>4 DEF NewConnection, EstablishTask
    <3>2. QueueAdded(IoLoop, EstablishTask) BY <1>1, <1>2, <3>1, TrackedFacts, EnqueueAdded
    <3>3. /\ (SameLoop' <=> SameLoop) /\ IoQueue' = queue'[IoLoop] /\ BaseQueue' = queue'[BaseLoop]
      BY <1>1, <3>2, QueuesNext DEF QueueAdded
    <3>4. Untouched' BY <2>1, <2>2, <3>1 DEF NotCreated, Untouched
    <3>5. /\ \A x \in Tracked : Contains(queue'[IoLoop], x) => x = EstablishTask
          /\ \A x \in Tracked : ~Contains(queue'[BaseLoop], x)
      BY <1>2, <2>1, <2>4, <3>2 DEF QueueAdded, Same, NotCreated
    <3>6. Contains(queue'[IoLoop], EstablishTask) /\ Single(queue'[IoLoop], EstablishTask)
      BY <1>2, <2>1, <3>2, TrackedFacts DEF QueueAdded, NotCreated
    <3>7. Connecting' BY <2>2, <2>4, <3>1, <3>3, <3>4, <3>5, <3>6 DEF Connecting
    <3> QED BY <3>7 DEF StageInv
  <2> QED BY <2>3, <2>4
<1>20. CASE ConnectEstablished
  <2>1. QueueDropped(IoLoop, EstablishTask)
    BY <1>1, <1>2, <1>20, HeadDropped DEF ConnectEstablished, EstablishTask
  <2>2. Contains(IoQueue, EstablishTask) BY <2>1 DEF QueueDropped, IoQueue
  <2>3. Connecting
    BY <1>1, <1>2, <2>2, TrackedFacts DEF StageInv, NotCreated, Up, Closing, Down, IoQueue
  <2>4. /\ state' = "kConnected" /\ events' = {"READ"} /\ callbacks' = Append(callbacks, "UP")
        /\ UNCHANGED <<connections, active>>
    BY <1>20 DEF ConnectEstablished, Established
  <2>5. callbacks' = <<"UP">> BY <2>3, <2>4 DEF Connecting, Untouched
  <2>6. IoQueue' = queue'[IoLoop] /\ BaseQueue' = queue'[BaseLoop]
    BY <1>1, <2>1, QueuesNext DEF QueueDropped
  <2>7. /\ ~Contains(queue'[IoLoop], EstablishTask) /\ ~Contains(queue'[IoLoop], DestroyTask)
        /\ ~Contains(queue'[BaseLoop], RemoveTask)
    BY <1>2, <2>1, <2>3, TrackedFacts DEF QueueDropped, Same, Connecting, IoQueue, BaseQueue
  <2>8. Up' BY <2>3, <2>4, <2>5, <2>6, <2>7 DEF Up, Connecting
  <2> QED BY <2>8 DEF StageInv
<1>21. CASE RemoveConnection
  <2>1. AtHead(BaseLoop, "removeConnection") /\ connections' = FALSE
        /\ queue' = [Dequeued(BaseLoop) EXCEPT ![IoLoop] = Append(@, DestroyTask)]
        /\ UNCHANGED <<state, active, events, handling, callbacks>>
    BY <1>21 DEF RemoveConnection, DestroyTask
  <2>2. /\ queue[BaseLoop] # <<>> /\ Head(queue[BaseLoop]) = RemoveTask
        /\ Contains(BaseQueue, RemoveTask)
    BY <1>1, <1>2, <2>1, HeadFacts DEF RemoveTask, BaseQueue
  <2>3. /\ Closing /\ connections /\ ~SameLoop /\ Single(BaseQueue, RemoveTask)
        /\ ~Contains(IoQueue, DestroyTask) /\ ~Contains(IoQueue, EstablishTask)
    BY <1>1, <1>2, <2>2, TrackedFacts
    DEF StageInv, NotCreated, Connecting, Up, Closing, Down, BaseQueue
  <2>4. queue \in [Loops -> Seq(Tasks)] BY <1>1, LoopFacts
  <2>5. queue[BaseLoop] \in Seq(Tasks) /\ queue[IoLoop] \in Seq(Tasks) BY <1>2, <2>4
  <2>6. QueueTyped BY <1>1, QueueSteps
  <2>7. /\ (SameLoop' <=> SameLoop) /\ IoQueue' = queue'[IoLoop] /\ BaseQueue' = queue'[BaseLoop]
    BY <1>1, <2>6, QueuesNext
  <2>8. /\ queue'[BaseLoop] = Tail(queue[BaseLoop])
        /\ queue'[IoLoop] = Append(queue[IoLoop], DestroyTask)
    BY <1>2, <2>1, <2>3, <2>4 DEF Dequeued
  <2>9. ~Contains(queue'[BaseLoop], RemoveTask)
    BY <2>2, <2>3, <2>5, <2>8, TailContains DEF BaseQueue
  <2>10. /\ Contains(queue'[IoLoop], DestroyTask) /\ Single(queue'[IoLoop], DestroyTask)
         /\ ~Contains(queue'[IoLoop], EstablishTask)
    BY <2>3, <2>5, <2>8, TrackedFacts, AppendContains DEF IoQueue
  <2>11. Closing' BY <2>1, <2>3, <2>7, <2>9, <2>10 DEF Closing
  <2> QED BY <2>11 DEF StageInv
<1>22. CASE ConnectDestroyed
  <2>1. QueueDropped(IoLoop, DestroyTask)
    BY <1>1, <1>2, <1>22, HeadDropped DEF ConnectDestroyed, DestroyTask
  <2>2. Contains(IoQueue, DestroyTask) BY <2>1 DEF QueueDropped, IoQueue
  <2>3. /\ Closing /\ ~connections /\ ~Contains(BaseQueue, RemoveTask)
        /\ Single(IoQueue, DestroyTask) /\ ~Contains(IoQueue, EstablishTask)
    BY <1>1, <1>2, <2>2, TrackedFacts
    DEF StageInv, NotCreated, Connecting, Up, Closing, Down, IoQueue
  <2>4. /\ state' = "kDisconnected" /\ events' = {} /\ active' = FALSE
        /\ callbacks' = Append(callbacks, "DOWN") /\ UNCHANGED <<connections, handling>>
    BY <1>22 DEF ConnectDestroyed, RemoveChannel
  <2>5. callbacks' = <<"UP", "DOWN">> BY <2>3, <2>4, DownFollowsUp DEF Closing
  <2>6. IoQueue' = queue'[IoLoop] /\ BaseQueue' = queue'[BaseLoop]
    BY <1>1, <2>1, QueuesNext DEF QueueDropped
  <2>7. /\ ~Contains(queue'[IoLoop], EstablishTask) /\ ~Contains(queue'[IoLoop], DestroyTask)
        /\ ~Contains(queue'[BaseLoop], RemoveTask)
    BY <1>2, <2>1, <2>3, TrackedFacts DEF QueueDropped, Same, IoQueue, BaseQueue
  <2>8. Down' BY <2>3, <2>4, <2>5, <2>6, <2>7 DEF Down, Closing
  <2> QED BY <2>8 DEF StageInv
<1>23. ASSUME NEW r \in IoEvents, HandleClose(r) PROVE StageInv'
  <2>1. /\ "READ" \in events /\ handling = "no" /\ events' = {}
        /\ UNCHANGED <<state, active, handling, callbacks>>
        /\ \/ /\ SameLoop /\ connections' = FALSE
              /\ queue' = Enqueue(IoLoop, DestroyTask)
           \/ /\ ~SameLoop /\ UNCHANGED connections
              /\ queue' = Enqueue(BaseLoop, RemoveTask)
    BY <1>23 DEF HandleClose, CanHandle, DestroyTask, RemoveTask
  <2>2. Up BY <1>1, <2>1 DEF StageInv, NotCreated, Connecting, Untouched, Closing, Down
  <2>3. CASE SameLoop
    <3>1. connections' = FALSE /\ queue' = Enqueue(IoLoop, DestroyTask) BY <2>1, <2>3
    <3>2. QueueAdded(IoLoop, DestroyTask) BY <1>1, <1>2, <3>1, TrackedFacts, EnqueueAdded
    <3>3. IoQueue' = queue'[IoLoop] /\ BaseQueue' = queue'[BaseLoop]
      BY <1>1, <3>2, QueuesNext DEF QueueAdded
    <3>4. /\ Contains(queue'[IoLoop], DestroyTask) /\ Single(queue'[IoLoop], DestroyTask)
          /\ ~Contains(queue'[IoLoop], EstablishTask) /\ ~Contains(queue'[BaseLoop], RemoveTask)
      BY <1>2, <2>2, <3>2, TrackedFacts DEF QueueAdded, Same, Up, IoQueue, BaseQueue
    <3>5. Closing' BY <2>1, <2>2, <3>1, <3>3, <3>4 DEF Up, Closing
    <3> QED BY <3>5 DEF StageInv
  <2>4. CASE ~SameLoop
    <3>1. connections' = connections /\ queue' = Enqueue(BaseLoop, RemoveTask) BY <2>1, <2>4
    <3>2. QueueAdded(BaseLoop, RemoveTask) BY <1>1, <1>2, <3>1, TrackedFacts, EnqueueAdded
    <3>3. /\ (SameLoop' <=> SameLoop) /\ IoQueue' = queue'[IoLoop] /\ BaseQueue' = queue'[BaseLoop]
      BY <1>1, <3>2, QueuesNext DEF QueueAdded
    <3>4. /\ Contains(queue'[BaseLoop], RemoveTask) /\ Single(queue'[BaseLoop], RemoveTask)
          /\ ~Contains(queue'[IoLoop], EstablishTask) /\ ~Contains(queue'[IoLoop], DestroyTask)
      BY <1>2, <2>2, <3>2, TrackedFacts DEF QueueAdded, Same, Up, IoQueue, BaseQueue
    <3>5. Closing' BY <2>1, <2>2, <2>4, <3>1, <3>3, <3>4 DEF Up, Closing
    <3> QED BY <3>5 DEF StageInv
  <2> QED BY <2>3, <2>4
<1> QED
  BY <1>4, <1>5, <1>6, <1>7, <1>8, <1>9, <1>10, <1>11, <1>12, <1>13, <1>14, <1>15,
     <1>16, <1>17, <1>18, <1>19, <1>20, <1>21, <1>22, <1>23, <1>24, <1>25, NextCases

(* removeConnectionInLoop() runs in the base loop, not in the connection's. *)
LEMMA RemoveFacts ==
    ASSUME TypeOK, StageInv, RemoveConnection
    PROVE  /\ ~SameLoop
           /\ queue'[IoLoop] = Append(queue[IoLoop], DestroyTask)
           /\ \A x \in Tracked : x # DestroyTask => Same(IoLoop, x)
<1>1. /\ BaseLoop \in Loops /\ IoLoop \in Loops /\ queue \in [Loops -> Seq(Tasks)]
      /\ SameLoop <=> IoLoop = BaseLoop
  BY LoopFacts
<1>2. /\ AtHead(BaseLoop, "removeConnection")
      /\ queue' = [Dequeued(BaseLoop) EXCEPT ![IoLoop] = Append(@, DestroyTask)]
  BY DEF RemoveConnection, DestroyTask
<1>3. Contains(BaseQueue, RemoveTask) BY <1>1, <1>2, HeadFacts DEF RemoveTask, BaseQueue
<1>4. ~SameLoop
  BY <1>1, <1>3, TrackedFacts
  DEF StageInv, NotCreated, Connecting, Up, Closing, Down, BaseQueue
<1>5. queue'[IoLoop] = Append(queue[IoLoop], DestroyTask) BY <1>1, <1>2, <1>4 DEF Dequeued
<1>6. queue[IoLoop] \in Seq(Tasks) /\ DestroyTask \in Tasks BY <1>1, TrackedFacts
<1>7. \A x : x # DestroyTask => Same(IoLoop, x) BY <1>5, <1>6, AppendContains DEF Same
<1> QED BY <1>4, <1>5, <1>7

-----------------------------------------------------------------------------
(* The messages. *)

(* Taking a message adds its bytes, and only its bytes, behind the others. *)
LEMMA TakeFacts ==
    ASSUME Accepted \in Seq(Byte), NEW m \in Message, Accepted' = Accepted \o Bytes(m)
    PROVE  /\ \A b \in Message : Taken(b)' => Taken(b) \/ b = m
           /\ \A b \in Message : Whole(b) => Whole(b)'
           /\ Whole(m)'
<1> DEFINE n == Len(Accepted)
<1>1. /\ Bytes(m) \in Seq(Byte) /\ Len(Bytes(m)) = Size
      /\ \A i \in 1..Size : Bytes(m)[i] = <<m, i>>
  BY BytesFacts
<1>2. n \in Nat /\ Size \in Nat BY SizeNat
<1>3. /\ Len(Accepted') = n + Size
      /\ \A k \in 1..n : k \in 1..(n + Size) /\ Accepted'[k] = Accepted[k]
      /\ \A k \in (n + 1)..(n + Size) : Accepted'[k] = Bytes(m)[k - n]
  <2> DEFINE a == Accepted
             s == Accepted \o Bytes(m)
  <2>1. a \in Seq(Byte) /\ Bytes(m) \in Seq(Byte) BY <1>1
  <2> HIDE DEF a
  <2>2. /\ Len(a \o Bytes(m)) = Len(a) + Len(Bytes(m))
        /\ \A k \in 1..(Len(a) + Len(Bytes(m))) :
              (a \o Bytes(m))[k] = IF k <= Len(a) THEN a[k] ELSE Bytes(m)[k - Len(a)]
    BY <2>1, ConcatProperties
  <2>3. /\ Len(s) = n + Size
        /\ \A k \in 1..(n + Size) : s[k] = IF k <= n THEN Accepted[k] ELSE Bytes(m)[k - n]
    BY <1>1, <2>2 DEF a
  <2>4. Accepted' = s OBVIOUS
  <2> HIDE DEF s, n
  <2> QED BY <1>2, <2>3, <2>4
<1>4. \A i \in 1..Size : i + n \in 1..(n + Size) /\ Accepted'[i + n] = <<m, i>>
  <2> TAKE i \in 1..Size
  <2>1. i + n \in (n + 1)..(n + Size) /\ (i + n) - n = i /\ i + n \in 1..(n + Size) BY <1>2
  <2> QED BY <1>1, <1>3, <2>1
<1>5. ASSUME NEW b \in Message, Taken(b)' PROVE Taken(b) \/ b = m
  <2>1. PICK k \in 1..(n + Size) : Accepted'[k][1] = b BY <1>3, <1>5 DEF Taken
  <2>2. CASE k \in 1..n BY <1>3, <2>1, <2>2 DEF Taken
  <2>3. CASE k \notin 1..n
    <3>1. k \in (n + 1)..(n + Size) /\ k - n \in 1..Size BY <1>2, <2>1, <2>3
    <3>2. Accepted'[k] = <<m, k - n>> BY <1>1, <1>3, <3>1
    <3> QED BY <2>1, <3>2
  <2> QED BY <2>2, <2>3
<1>6. ASSUME NEW b \in Message, Whole(b) PROVE Whole(b)'
  <2>1. \A i \in 1..Size : \E k \in 1..n : Accepted[k] = <<b, i>> BY <1>6 DEF Whole
  <2>2. \A i \in 1..Size : \E k \in 1..(n + Size) : Accepted'[k] = <<b, i>>
    BY <1>3, <2>1
  <2> QED BY <1>3, <2>2 DEF Whole
<1>7. Whole(m)' BY <1>3, <1>4 DEF Whole
<1> QED BY <1>5, <1>6, <1>7

(* A step that takes no message and has none sent. *)
SendQuietStep ==
    /\ QueueTyped /\ \A b \in Message : Same(IoLoop, SendTask(b))
    /\ Accepted' = Accepted /\ UNCHANGED <<sentBy, sending>>
    /\ reset' = "no" => reset = "no"

LEMMA SendQuiet ==
    ASSUME TypeOK, SendInv, SendQuietStep
    PROVE  SendInv'
<1>1. IoQueue' = queue'[IoLoop] /\ IoQueue = queue[IoLoop]
  BY QueuesNext DEF SendQuietStep
<1>2. /\ \A b \in Message : Taken(b)' <=> Taken(b)
      /\ \A b \in Message : Whole(b) => Whole(b)'
  BY DEF SendQuietStep, Taken, Whole
<1>3. \A b \in Message : /\ Contains(IoQueue', SendTask(b)) <=> Contains(IoQueue, SendTask(b))
                         /\ Single(IoQueue, SendTask(b)) => Single(IoQueue', SendTask(b))
  BY <1>1 DEF SendQuietStep, Same
<1>4. UNCHANGED <<sentBy, sending>> /\ (reset' = "no" => reset = "no") BY DEF SendQuietStep
<1> QED BY <1>2, <1>3, <1>4 DEF SendInv

LEMMA KeptSame ==
    ASSUME TypeOK, NEW y, \A b \in Message : y # SendTask(b), NEW k,
           QueueKept \/ QueueAdded(k, y) \/ QueueDropped(k, y)
    PROVE  QueueTyped /\ \A b \in Message : Same(IoLoop, SendTask(b))
  BY TrackedFacts, LoopFacts DEF QueueKept, QueueAdded, QueueDropped

LEMMA SendStep ==
    ASSUME ConnInv, [Next]_vars
    PROVE  SendInv'
<1> USE DEF connVars, callerVars, kernelVars, historyVars
<1>1. TypeOK /\ StageInv /\ SendInv /\ ShutInv BY DEF ConnInv
<1>2. BaseLoop \in Loops /\ IoLoop \in Loops BY <1>1, LoopFacts
<1>3. Accepted \in Seq(Byte) BY <1>1, AcceptedFacts DEF TypeOK
<1>4. ASSUME QueueKept, UNCHANGED <<outputBuffer, wire, sentBy, sending>>, reset' = "no" => reset = "no"
      PROVE  SendInv'
  <2>1. QueueTyped /\ \A b \in Message : Same(IoLoop, SendTask(b))
    BY <1>2, <1>4, TrackedFacts DEF QueueKept
  <2> QED BY <1>1, <1>4, <2>1, SendQuiet DEF SendQuietStep, Accepted
<1>5. ASSUME NEW y \in {EstablishTask, RemoveTask, DestroyTask, ShutdownTask}, NEW k \in Loops,
             QueueAdded(k, y) \/ QueueDropped(k, y),
             UNCHANGED <<outputBuffer, wire, sentBy, sending, reset>>
      PROVE  SendInv'
  <2>1. \A b \in Message : y # SendTask(b) BY TrackedFacts
  <2>2. QueueTyped /\ \A b \in Message : Same(IoLoop, SendTask(b))
    BY <1>1, <1>5, <2>1, KeptSame
  <2> QED BY <1>1, <1>5, <2>2, SendQuiet DEF SendQuietStep, Accepted
<1>6. CASE UNCHANGED vars
  <2>1. QueueKept BY <1>1, <1>6, UnchangedKept DEF vars
  <2> QED BY <1>4, <1>6, <2>1 DEF vars
<1>7. CASE NewConnection
  <2>1. /\ queue' = queue \/ queue' = Enqueue(IoLoop, EstablishTask)
        /\ UNCHANGED <<outputBuffer, wire, sentBy, sending, reset>>
    BY <1>7 DEF NewConnection, EstablishTask
  <2>2. QueueKept \/ QueueAdded(IoLoop, EstablishTask)
    BY <1>1, <1>2, <2>1, UnchangedKept, EnqueueAdded, TrackedFacts
  <2> QED BY <1>2, <1>4, <1>5, <2>1, <2>2
<1>8. CASE ConnectEstablished
  <2>1. QueueDropped(IoLoop, EstablishTask)
    BY <1>1, <1>2, <1>8, HeadDropped DEF ConnectEstablished, EstablishTask
  <2> QED BY <1>2, <1>5, <1>8, <2>1 DEF ConnectEstablished
<1>9. CASE RemoveConnection
  <2>1. QueueTyped BY <1>1, QueueSteps
  <2>2. \A x \in Tracked : x # DestroyTask => Same(IoLoop, x) BY <1>1, <1>9, RemoveFacts
  <2>3. \A b \in Message : Same(IoLoop, SendTask(b)) BY <2>2, TrackedFacts
  <2>4. UNCHANGED <<outputBuffer, wire, sentBy, sending, reset>> BY <1>9 DEF RemoveConnection
  <2> QED BY <1>1, <2>1, <2>3, <2>4, SendQuiet DEF SendQuietStep, Accepted
<1>10. CASE ConnectDestroyed
  <2>1. QueueDropped(IoLoop, DestroyTask)
    BY <1>1, <1>2, <1>10, HeadDropped DEF ConnectDestroyed, DestroyTask
  <2> QED BY <1>2, <1>5, <1>10, <2>1 DEF ConnectDestroyed
<1>11. CASE RunUserCallback
  <2>1. QueueKept BY <1>1, <1>11, UserCallbackKept
  <2> QED BY <1>4, <1>11, <2>1 DEF RunUserCallback
<1>12. CASE RunSendInLoop
  <2>1. PICK m \in Message :
              /\ QueueDropped(IoLoop, SendTask(m))
              /\ SendEffect(m, Dequeued(IoLoop))
              /\ UNCHANGED <<state, connections, active, handling, revents, holders, calling, sending,
                             unread, peerClosed, reset, sentBy, promised, callbacks>>
    BY <1>1, <1>12, RunSendFacts
  <2>2. IoQueue' = queue'[IoLoop] /\ IoQueue = queue[IoLoop]
    BY <1>1, <2>1, QueuesNext DEF QueueDropped
  <2>3. Accepted' = Accepted \/ Accepted' = Accepted \o Bytes(m)
    BY <2>1 DEF SendEffect, Accepted
  <2>4. /\ \A b \in Message : Taken(b)' => Taken(b) \/ b = m
        /\ \A b \in Message : Whole(b) => Whole(b)'
    <3>1. CASE Accepted' = Accepted BY <3>1 DEF Taken, Whole
    <3>2. CASE Accepted' = Accepted \o Bytes(m) BY <1>3, <3>2, TakeFacts
    <3> QED BY <2>3, <3>1, <3>2
  <2>5. /\ Contains(IoQueue, SendTask(m)) /\ sentBy[m] # Nobody /\ m \notin sending
        /\ ~Contains(IoQueue', SendTask(m)) /\ Single(IoQueue', SendTask(m))
    BY <1>1, <2>1, <2>2 DEF QueueDropped, SendInv
  <2>6. \A b \in Message : b # m => Same(IoLoop, SendTask(b))
    BY <1>2, <2>1, TrackedFacts DEF QueueDropped
  <2>7. \A b \in Message : b # m =>
              /\ Contains(IoQueue', SendTask(b)) <=> Contains(IoQueue, SendTask(b))
              /\ Single(IoQueue, SendTask(b)) => Single(IoQueue', SendTask(b))
    BY <2>2, <2>6 DEF Same
  <2>8. UNCHANGED <<sentBy, sending, reset>> BY <2>1
  <2> QED BY <1>1, <2>4, <2>5, <2>7, <2>8 DEF SendInv
<1>13. CASE RunShutdownInLoop
  <2>1. QueueDropped(IoLoop, ShutdownTask)
    BY <1>1, <1>2, <1>13, HeadDropped DEF RunShutdownInLoop, ShutdownTask
  <2> QED BY <1>2, <1>5, <1>13, <2>1 DEF RunShutdownInLoop
<1>14. ASSUME NEW r \in IoEvents, ReadMessage(r) PROVE SendInv'
  <2>1. QueueKept BY <1>1, <1>14, UnchangedKept DEF ReadMessage
  <2> QED BY <1>4, <1>14, <2>1 DEF ReadMessage
<1>15. ASSUME NEW r \in IoEvents, ReadError(r) PROVE SendInv'
  <2>1. QueueKept BY <1>1, <1>15, UnchangedKept DEF ReadError
  <2> QED BY <1>4, <1>15, <2>1 DEF ReadError
<1>16. ASSUME NEW r \in IoEvents, HandleClose(r) PROVE SendInv'
  <2>1. /\ queue' = Enqueue(IoLoop, DestroyTask) \/ queue' = Enqueue(BaseLoop, RemoveTask)
        /\ UNCHANGED <<outputBuffer, wire, sentBy, sending, reset>>
    BY <1>16 DEF HandleClose, DestroyTask, RemoveTask
  <2>2. QueueAdded(IoLoop, DestroyTask) \/ QueueAdded(BaseLoop, RemoveTask)
    BY <1>1, <1>2, <2>1, TrackedFacts, EnqueueAdded
  <2> QED BY <1>2, <1>5, <2>1, <2>2
<1>17. ASSUME WriteEffect, UNCHANGED <<sentBy, sending, reset>> PROVE SendInv'
  <2>1. QueueTyped /\ \A b \in Message : Same(IoLoop, SendTask(b))
    BY <1>1, <1>2, <1>17, WriteKept, TrackedFacts DEF QueueKept
  <2>2. Accepted' = Accepted BY <1>17 DEF WriteEffect, Accepted
  <2> QED BY <1>1, <1>17, <2>1, <2>2, SendQuiet DEF SendQuietStep
<1>18. CASE EndMessage
  <2>1. /\ WriteEffect \/ UNCHANGED <<events, outputBuffer, queue, writeShut, wire>>
        /\ UNCHANGED <<sentBy, sending, reset>>
    BY <1>1, <1>18, HandleWriteEffect DEF EndMessage
  <2> QED BY <1>1, <1>4, <1>17, <2>1, UnchangedKept
<1>19. CASE WriteEvent
  <2>1. WriteEffect /\ UNCHANGED <<sentBy, sending, reset>>
    BY <1>1, <1>19, HandleWriteEffect DEF WriteEvent
  <2> QED BY <1>17, <2>1
<1>20. ASSUME NEW t \in Threads, Release(t) PROVE SendInv'
  <2>1. QueueKept BY <1>1, <1>20, UnchangedKept DEF Release
  <2> QED BY <1>4, <1>20, <2>1 DEF Release
<1>21. ASSUME NEW m \in Message, SendInLoopThread(m) PROVE SendInv'
  <2>1. /\ state = "kConnected" /\ sentBy[m] = Nobody
        /\ sentBy' = [sentBy EXCEPT ![m] = IoUser] /\ UNCHANGED <<sending, reset>>
        /\ QueueKept /\ SendEffect(m, queue)
    BY <1>1, <1>21, SendFacts
  <2>2. IoUser # Nobody /\ Nobody \notin User BY ThreadAssumption
  <2>3. /\ ~writeShut /\ ~Taken(m) /\ ~Contains(IoQueue, SendTask(m))
        /\ m \notin sending
    BY <1>1, <2>1, <2>2 DEF ShutInv, SendInv
  <2>4. sentBy'[m] = IoUser /\ \A b \in Message : b # m => sentBy'[b] = sentBy[b]
    BY <1>1, <2>1 DEF TypeOK
  <2>5. IoQueue' = queue'[IoLoop] /\ IoQueue = queue[IoLoop]
    BY <1>1, <2>1, QueuesNext DEF QueueKept
  <2>6. \A b \in Message : Same(IoLoop, SendTask(b))
    BY <1>2, <2>1, TrackedFacts DEF QueueKept
  <2>7. \A b \in Message :
              /\ Contains(IoQueue', SendTask(b)) <=> Contains(IoQueue, SendTask(b))
              /\ Single(IoQueue, SendTask(b)) => Single(IoQueue', SendTask(b))
    BY <2>5, <2>6 DEF Same
  <2>8. CASE FaultError /\ UNCHANGED <<outputBuffer, wire>>
    <3>1. reset # "no" BY <2>3, <2>8 DEF FaultError, Writable
    <3>2. Accepted' = Accepted BY <2>8 DEF Accepted
    <3>3. /\ \A b \in Message : Taken(b)' <=> Taken(b)
          /\ \A b \in Message : Whole(b) => Whole(b)'
      BY <3>2 DEF Taken, Whole
    <3> QED BY <1>1, <2>1, <2>2, <2>3, <2>4, <2>7, <3>1, <3>3 DEF SendInv
  <2>9. CASE wire' \o outputBuffer' = Accepted \o Bytes(m)
    <3>1. Accepted' = Accepted \o Bytes(m) BY <2>9 DEF Accepted
    <3>2. /\ \A b \in Message : Taken(b)' => Taken(b) \/ b = m
          /\ \A b \in Message : Whole(b) => Whole(b)'
          /\ Whole(m)'
      BY <1>3, <3>1, TakeFacts
    <3> QED BY <1>1, <2>1, <2>2, <2>3, <2>4, <2>7, <3>2 DEF SendInv
  <2> QED BY <2>1, <2>8, <2>9 DEF SendEffect
<1>26. ASSUME NEW t \in User, NEW m \in Message, SendTest(t, m) PROVE SendInv'
  <2>1. /\ sentBy[m] = Nobody /\ sentBy' = [sentBy EXCEPT ![m] = t]
        /\ sending' = sending \cup {m} /\ UNCHANGED <<queue, outputBuffer, wire, reset>>
    BY <1>26 DEF SendTest, Accept
  <2>2. t # Nobody /\ t # IoUser BY ThreadAssumption
  <2>3. sentBy'[m] = t /\ \A b \in Message : b # m => sentBy'[b] = sentBy[b]
    BY <1>1, <2>1 DEF TypeOK
  <2>4. QueueKept BY <1>1, <2>1, UnchangedKept
  <2>5. IoQueue' = IoQueue BY <1>1, <2>1, <2>4, QueuesNext DEF QueueKept
  <2>6. \A b \in Message : (Taken(b)' <=> Taken(b)) /\ (Whole(b)' <=> Whole(b))
    BY <2>1 DEF Taken, Whole, Accepted
  <2>7. ~Taken(m) /\ ~Contains(IoQueue, SendTask(m)) BY <1>1, <2>1 DEF SendInv
  <2> QED BY <1>1, <2>1, <2>2, <2>3, <2>5, <2>6, <2>7 DEF SendInv
<1>27. ASSUME NEW t \in User, NEW m \in Message, SendQueue(t, m) PROVE SendInv'
  <2>1. /\ m \in sending /\ sentBy[m] = t /\ QueueAdded(IoLoop, SendTask(m))
        /\ sending' = sending \ {m} /\ UNCHANGED <<outputBuffer, wire, sentBy, reset>>
    BY <1>1, <1>27, SendQueueFacts
  <2>2. sentBy[m] # Nobody BY <2>1, ThreadAssumption
  <2>3. ~Taken(m) /\ ~Contains(IoQueue, SendTask(m)) BY <1>1, <2>1 DEF SendInv
  <2>4. IoQueue' = queue'[IoLoop] /\ IoQueue = queue[IoLoop]
    BY <1>1, <2>1, QueuesNext DEF QueueAdded
  <2>5. Single(IoQueue', SendTask(m)) BY <2>1, <2>3, <2>4 DEF QueueAdded
  <2>6. \A b \in Message : b # m => Same(IoLoop, SendTask(b))
    BY <1>2, <2>1, TrackedFacts DEF QueueAdded
  <2>7. \A b \in Message : b # m =>
              /\ Contains(IoQueue', SendTask(b)) <=> Contains(IoQueue, SendTask(b))
              /\ Single(IoQueue, SendTask(b)) => Single(IoQueue', SendTask(b))
    BY <2>4, <2>6 DEF Same
  <2>8. \A b \in Message : (Taken(b)' <=> Taken(b)) /\ (Whole(b)' <=> Whole(b))
    BY <2>1 DEF Taken, Whole, Accepted
  <2> QED BY <1>1, <2>1, <2>2, <2>3, <2>5, <2>7, <2>8 DEF SendInv
<1>22. CASE ShutdownInLoopThread
  <2>1. QueueKept BY <1>1, <1>22, UnchangedKept DEF ShutdownInLoopThread
  <2> QED BY <1>4, <1>22, <2>1 DEF ShutdownInLoopThread
<1>23. ASSUME NEW t \in User, ShutdownTest(t) \/ ShutdownSet(t) PROVE SendInv'
  <2>1. QueueKept BY <1>1, <1>23, UnchangedKept DEF ShutdownTest, ShutdownSet
  <2> QED BY <1>4, <1>23, <2>1 DEF ShutdownTest, ShutdownSet
<1>24. ASSUME NEW t \in User, ShutdownQueue(t) PROVE SendInv'
  <2>1. QueueAdded(IoLoop, ShutdownTask)
    BY <1>1, <1>2, <1>24, TrackedFacts, EnqueueAdded DEF ShutdownQueue, ShutdownTask
  <2> QED BY <1>2, <1>5, <1>24, <2>1 DEF ShutdownQueue
<1>25. CASE PeerSend \/ PeerClose \/ PeerReset
  <2>1. /\ UNCHANGED <<queue, outputBuffer, wire, sentBy, sending>> /\ (reset' = "no" => reset = "no")
    BY <1>25 DEF PeerSend, PeerClose, PeerReset
  <2> QED BY <1>1, <1>4, <2>1, UnchangedKept
<1> QED
  BY <1>6, <1>7, <1>8, <1>9, <1>10, <1>11, <1>12, <1>13, <1>14, <1>15, <1>16, <1>18,
     <1>19, <1>20, <1>21, <1>22, <1>23, <1>24, <1>25, <1>26, <1>27, NextCases

-----------------------------------------------------------------------------
(* Shutting down. *)

Finishing == {"kDisconnecting", "kDisconnected"}

(* A step that keeps or leaves state_ set by shutdown(), and that keeps    *)
(* the output buffer in step with the watcher's interest.                  *)
ShutSafeStep ==
    /\ QueueTyped
    /\ Contains(queue'[IoLoop], ShutdownTask) =>
          Contains(queue[IoLoop], ShutdownTask) \/ state' \in Finishing
    /\ state' = state \/ state' \in Finishing
    /\ \A t \in User : calling'[t] = "queue" => calling[t] = "queue" \/ state' \in Finishing
    /\ writeShut' => writeShut \/ state' \in Finishing
    /\ "WRITE" \in events' => outputBuffer' # <<>>
    /\ "READ" \in events' =>
          /\ outputBuffer' # <<>> => "WRITE" \in events'
          /\ writeShut' => outputBuffer' = <<>> /\ "WRITE" \notin events'

LEMMA ShutSafe ==
    ASSUME TypeOK, ShutInv, ShutSafeStep
    PROVE  ShutInv'
<1>1. IoQueue' = queue'[IoLoop] /\ IoQueue = queue[IoLoop]
  BY QueuesNext DEF ShutSafeStep
<1> QED BY <1>1 DEF ShutInv, ShutSafeStep, Finishing, isWriting

LEMMA ShutStep ==
    ASSUME ConnInv, [Next]_vars
    PROVE  ShutInv'
<1> USE DEF connVars, callerVars, kernelVars, historyVars
<1>1. TypeOK /\ StageInv /\ ShutInv BY DEF ConnInv
<1>2. BaseLoop \in Loops /\ IoLoop \in Loops BY <1>1, LoopFacts
<1>3. QueueTyped BY <1>1, QueueSteps
<1>4. ASSUME NEW y \in {EstablishTask, RemoveTask, DestroyTask} \cup {SendTask(m) : m \in Message},
             NEW k, QueueKept \/ QueueAdded(k, y) \/ QueueDropped(k, y)
      PROVE  Contains(queue'[IoLoop], ShutdownTask) <=> Contains(queue[IoLoop], ShutdownTask)
  <2>1. y # ShutdownTask /\ ShutdownTask \in Tracked BY TrackedFacts
  <2> QED BY <1>2, <1>4, <2>1 DEF QueueKept, QueueAdded, QueueDropped, Same
<1>5. ASSUME QueueKept
      PROVE  Contains(queue'[IoLoop], ShutdownTask) <=> Contains(queue[IoLoop], ShutdownTask)
  BY <1>4, <1>5
<1>6. /\ "WRITE" \in events => outputBuffer # <<>>
      /\ "READ" \in events /\ outputBuffer # <<>> => "WRITE" \in events
      /\ "READ" \in events /\ writeShut => outputBuffer = <<>> /\ "WRITE" \notin events
      /\ writeShut => state \in Finishing
      /\ \A t \in User : calling[t] = "queue" => state \in Finishing
      /\ Contains(queue[IoLoop], ShutdownTask) => state \in Finishing
  BY <1>1 DEF ShutInv, isWriting, Finishing, IoQueue
<1>7. ASSUME QueueKept, UNCHANGED <<events, outputBuffer, writeShut, state, calling>>
      PROVE  ShutInv'
  BY <1>1, <1>3, <1>5, <1>6, <1>7, ShutSafe DEF ShutSafeStep
<1>8. CASE UNCHANGED vars
  <2>1. QueueKept BY <1>1, <1>8, UnchangedKept DEF vars
  <2> QED BY <1>7, <1>8, <2>1 DEF vars
<1>9. ASSUME Established, callbacks = <<>>, UNCHANGED <<outputBuffer, writeShut, calling>>,
             Contains(queue'[IoLoop], ShutdownTask) <=> Contains(queue[IoLoop], ShutdownTask)
      PROVE  ShutInv'
  <2>1. Untouched /\ state \in {"none", "kConnecting"} BY <1>1, <1>9, BeforeUp
  <2>2. state \notin Finishing BY <2>1 DEF Finishing
  <2>3. outputBuffer' = <<>> /\ ~writeShut' BY <1>6, <1>9, <2>1, <2>2 DEF Untouched
  <2>4. ~Contains(queue'[IoLoop], ShutdownTask) /\ \A t \in User : calling'[t] # "queue"
    BY <1>6, <1>9, <2>2
  <2>5. IoQueue' = queue'[IoLoop] BY <1>1, <1>3, QueuesNext
  <2>6. ~isWriting' BY <1>9 DEF Established, isWriting
  <2> QED BY <2>3, <2>4, <2>5, <2>6 DEF ShutInv
<1>10. CASE NewConnection
  <2>1. NotCreated BY <1>1, <1>10 DEF NewConnection, StageInv, Connecting, Up, Closing, Down
  <2>2. callbacks = <<>> BY <2>1 DEF NotCreated, Untouched
  <2>3. UNCHANGED <<outputBuffer, writeShut, calling>> BY <1>10 DEF NewConnection
  <2>4. CASE Established /\ UNCHANGED queue
    <3>1. QueueKept BY <1>1, <2>4, UnchangedKept
    <3> QED BY <1>5, <1>9, <2>2, <2>3, <2>4, <3>1
  <2>5. CASE /\ state' = "kConnecting" /\ UNCHANGED events
             /\ queue' = Enqueue(IoLoop, EstablishTask)
    <3>1. QueueAdded(IoLoop, EstablishTask) BY <1>1, <1>2, <2>5, TrackedFacts, EnqueueAdded
    <3>2. ~Contains(queue'[IoLoop], ShutdownTask)
      BY <1>2, <1>4, <2>1, <3>1, TrackedFacts DEF NotCreated
    <3>3. events = {} /\ \A t \in User : calling[t] = "out" BY <2>1 DEF NotCreated, Untouched
    <3>4. ~writeShut BY <1>6, <2>1 DEF NotCreated, Finishing
    <3>5. IoQueue' = queue'[IoLoop] BY <1>1, <1>3, QueuesNext
    <3> QED BY <2>3, <2>5, <3>2, <3>3, <3>4, <3>5 DEF ShutInv, isWriting
  <2> QED BY <1>10, <2>4, <2>5 DEF NewConnection, EstablishTask
<1>11. CASE ConnectEstablished
  <2>1. QueueDropped(IoLoop, EstablishTask)
    BY <1>1, <1>2, <1>11, HeadDropped DEF ConnectEstablished, EstablishTask
  <2>2. Contains(IoQueue, EstablishTask) BY <2>1 DEF QueueDropped, IoQueue
  <2>3. Connecting
    BY <1>1, <1>2, <2>2, TrackedFacts DEF StageInv, NotCreated, Up, Closing, Down, IoQueue
  <2>4. callbacks = <<>> BY <2>3 DEF Connecting, Untouched
  <2> QED BY <1>4, <1>9, <1>11, <2>1, <2>4 DEF ConnectEstablished
<1>12. CASE RemoveConnection
  <2>1. Same(IoLoop, ShutdownTask) BY <1>1, <1>12, RemoveFacts, TrackedFacts
  <2>2. UNCHANGED <<events, outputBuffer, writeShut, state, calling>> BY <1>12 DEF RemoveConnection
  <2> QED BY <1>1, <1>3, <1>6, <2>1, <2>2, ShutSafe DEF ShutSafeStep, Same
<1>13. CASE ConnectDestroyed
  <2>1. QueueDropped(IoLoop, DestroyTask)
    BY <1>1, <1>2, <1>13, HeadDropped DEF ConnectDestroyed, DestroyTask
  <2>2. /\ state' = "kDisconnected" /\ events' = {}
        /\ UNCHANGED <<outputBuffer, writeShut, calling>>
    BY <1>13 DEF ConnectDestroyed
  <2> QED BY <1>1, <1>3, <1>4, <2>1, <2>2, ShutSafe DEF ShutSafeStep, Finishing
<1>14. CASE RunUserCallback
  <2>1. QueueKept BY <1>1, <1>14, UserCallbackKept
  <2> QED BY <1>7, <1>14, <2>1 DEF RunUserCallback
<1>15. ASSUME NEW m \in Message, NEW queue0, SendEffect(m, queue0), UNCHANGED <<state, calling>>,
              Contains(queue'[IoLoop], ShutdownTask) <=> Contains(queue[IoLoop], ShutdownTask)
       PROVE  ShutInv'
  <2>1. writeShut' = writeShut BY <1>15 DEF SendEffect
  <2>2. CASE UNCHANGED <<outputBuffer, events>>
    BY <1>1, <1>3, <1>6, <1>15, <2>1, <2>2, ShutSafe DEF ShutSafeStep
  <2>3. CASE /\ events' = events \/ events' = events \cup {"WRITE"}
             /\ outputBuffer' # <<>> <=> "WRITE" \in events'
             /\ writeShut => ~Direct
    <3>1. "READ" \in events' => "READ" \in events BY <2>3
    <3>2. "READ" \in events' => ~writeShut
      BY <1>6, <2>3, <3>1 DEF Direct, isWriting
    <3> QED BY <1>1, <1>3, <1>15, <2>1, <2>3, <3>2, ShutSafe DEF ShutSafeStep
  <2> QED BY <1>15, <2>2, <2>3 DEF SendEffect
<1>16. CASE RunSendInLoop
  <2>1. PICK m \in Message :
              /\ QueueDropped(IoLoop, SendTask(m))
              /\ SendEffect(m, Dequeued(IoLoop))
              /\ UNCHANGED <<state, connections, active, handling, revents, holders, calling, sending,
                             unread, peerClosed, reset, sentBy, promised, callbacks>>
    BY <1>1, <1>16, RunSendFacts
  <2>2. Contains(queue'[IoLoop], ShutdownTask) <=> Contains(queue[IoLoop], ShutdownTask)
    BY <1>4, <2>1
  <2>3. UNCHANGED <<state, calling>> BY <2>1
  <2> QED BY <1>15, <2>1, <2>2, <2>3
<1>17. CASE RunShutdownInLoop
  <2>1. QueueDropped(IoLoop, ShutdownTask)
    BY <1>1, <1>2, <1>17, HeadDropped DEF RunShutdownInLoop, ShutdownTask
  <2>2. state \in Finishing BY <1>6, <2>1 DEF QueueDropped
  <2>3. UNCHANGED <<events, outputBuffer, state, calling>> BY <1>17 DEF RunShutdownInLoop
  <2>4. writeShut' => writeShut \/ "WRITE" \notin events
    BY <1>17 DEF RunShutdownInLoop, ShutdownInLoop, isWriting
  <2> QED BY <1>1, <1>3, <1>6, <2>2, <2>3, <2>4, ShutSafe DEF ShutSafeStep
<1>18. ASSUME NEW r \in IoEvents, ReadMessage(r) PROVE ShutInv'
  <2>1. QueueKept BY <1>1, <1>18, UnchangedKept DEF ReadMessage
  <2> QED BY <1>7, <1>18, <2>1 DEF ReadMessage
<1>19. ASSUME NEW r \in IoEvents, ReadError(r) PROVE ShutInv'
  <2>1. QueueKept BY <1>1, <1>19, UnchangedKept DEF ReadError
  <2> QED BY <1>7, <1>19, <2>1 DEF ReadError
<1>20. ASSUME NEW r \in IoEvents, HandleClose(r) PROVE ShutInv'
  <2>1. /\ queue' = Enqueue(IoLoop, DestroyTask) \/ queue' = Enqueue(BaseLoop, RemoveTask)
        /\ events' = {} /\ UNCHANGED <<outputBuffer, writeShut, state, calling>>
    BY <1>20 DEF HandleClose, DestroyTask, RemoveTask
  <2>2. QueueAdded(IoLoop, DestroyTask) \/ QueueAdded(BaseLoop, RemoveTask)
    BY <1>1, <1>2, <2>1, TrackedFacts, EnqueueAdded
  <2>3. Contains(queue'[IoLoop], ShutdownTask) <=> Contains(queue[IoLoop], ShutdownTask)
    BY <1>4, <2>2
  <2> QED BY <1>1, <1>3, <2>1, <2>3, ShutSafe DEF ShutSafeStep
<1>21. ASSUME WriteEffect, UNCHANGED <<state, calling>> PROVE ShutInv'
  <2>1. QueueKept BY <1>1, <1>21, WriteKept
  <2>2. CASE /\ events' = events /\ writeShut' = writeShut
             /\ outputBuffer' # <<>> <=> outputBuffer # <<>>
             /\ writeShut => outputBuffer' = outputBuffer
    BY <1>1, <1>3, <1>5, <1>6, <1>21, <2>1, <2>2, ShutSafe DEF ShutSafeStep
  <2>3. CASE /\ events' = events \ {"WRITE"} /\ outputBuffer' = <<>>
             /\ writeShut' = writeShut \/ (writeShut' = TRUE /\ state = "kDisconnecting")
    BY <1>1, <1>3, <1>5, <1>6, <1>21, <2>1, <2>3, ShutSafe DEF ShutSafeStep, Finishing
  <2> QED BY <1>21, <2>2, <2>3 DEF WriteEffect
<1>22. CASE EndMessage
  <2>1. /\ WriteEffect \/ UNCHANGED <<events, outputBuffer, queue, writeShut, wire>>
        /\ UNCHANGED <<state, calling>>
    BY <1>1, <1>22, HandleWriteEffect DEF EndMessage
  <2> QED BY <1>1, <1>7, <1>21, <2>1, UnchangedKept
<1>23. CASE WriteEvent
  <2>1. WriteEffect /\ UNCHANGED <<state, calling>>
    BY <1>1, <1>23, HandleWriteEffect DEF WriteEvent
  <2> QED BY <1>21, <2>1
<1>24. ASSUME NEW t \in Threads, Release(t) PROVE ShutInv'
  <2>1. QueueKept BY <1>1, <1>24, UnchangedKept DEF Release
  <2> QED BY <1>7, <1>24, <2>1 DEF Release
<1>25. ASSUME NEW m \in Message, SendInLoopThread(m) PROVE ShutInv'
  <2>1. UNCHANGED <<state, calling>> /\ QueueKept /\ SendEffect(m, queue)
    BY <1>1, <1>25, SendFacts
  <2> QED BY <1>5, <1>15, <2>1
<1>31. ASSUME NEW t \in User, NEW m \in Message, SendTest(t, m) PROVE ShutInv'
  <2>1. QueueKept BY <1>1, <1>31, UnchangedKept DEF SendTest
  <2>2. /\ UNCHANGED <<events, outputBuffer, writeShut, state>>
        /\ calling' = [calling EXCEPT ![t] = "send"]
    BY <1>31 DEF SendTest
  <2>3. \A u \in User : calling'[u] = "queue" => calling[u] = "queue"
    BY <1>1, <2>2 DEF TypeOK
  <2> QED BY <1>1, <1>3, <1>5, <1>6, <2>1, <2>2, <2>3, ShutSafe DEF ShutSafeStep
<1>32. ASSUME NEW t \in User, NEW m \in Message, SendQueue(t, m) PROVE ShutInv'
  <2>1. /\ QueueAdded(IoLoop, SendTask(m)) /\ calling' = [calling EXCEPT ![t] = "out"]
        /\ UNCHANGED <<events, outputBuffer, writeShut, state>>
    BY <1>1, <1>32, SendQueueFacts
  <2>2. Contains(queue'[IoLoop], ShutdownTask) <=> Contains(queue[IoLoop], ShutdownTask)
    BY <1>4, <2>1
  <2>3. \A u \in User : calling'[u] = "queue" => calling[u] = "queue"
    BY <1>1, <2>1 DEF TypeOK
  <2> QED BY <1>1, <1>3, <1>6, <2>1, <2>2, <2>3, ShutSafe DEF ShutSafeStep
<1>26. CASE ShutdownInLoopThread
  <2>1. QueueKept BY <1>1, <1>26, UnchangedKept DEF ShutdownInLoopThread
  <2>2. state' = "kDisconnecting" /\ UNCHANGED <<events, outputBuffer, calling>>
    BY <1>26 DEF ShutdownInLoopThread, SetDisconnecting
  <2>3. writeShut' => writeShut \/ "WRITE" \notin events
    BY <1>26 DEF ShutdownInLoopThread, ShutdownInLoop, isWriting
  <2> QED BY <1>1, <1>3, <1>5, <1>6, <2>1, <2>2, <2>3, ShutSafe DEF ShutSafeStep, Finishing
<1>27. ASSUME NEW t \in User, ShutdownTest(t) PROVE ShutInv'
  <2>1. QueueKept BY <1>1, <1>27, UnchangedKept DEF ShutdownTest
  <2>2. /\ UNCHANGED <<events, outputBuffer, writeShut, state>>
        /\ calling' = [calling EXCEPT ![t] = "set"]
    BY <1>27 DEF ShutdownTest
  <2>3. \A u \in User : calling'[u] = "queue" => calling[u] = "queue"
    BY <1>1, <2>2 DEF TypeOK
  <2> QED BY <1>1, <1>3, <1>5, <1>6, <2>1, <2>2, <2>3, ShutSafe DEF ShutSafeStep
<1>28. ASSUME NEW t \in User, ShutdownSet(t) PROVE ShutInv'
  <2>1. QueueKept BY <1>1, <1>28, UnchangedKept DEF ShutdownSet
  <2>2. state' = "kDisconnecting" /\ UNCHANGED <<events, outputBuffer, writeShut>>
    BY <1>28 DEF ShutdownSet, SetDisconnecting
  <2> QED BY <1>1, <1>3, <1>5, <1>6, <2>1, <2>2, ShutSafe DEF ShutSafeStep, Finishing
<1>29. ASSUME NEW t \in User, ShutdownQueue(t) PROVE ShutInv'
  <2>1. /\ UNCHANGED <<events, outputBuffer, writeShut, state>>
        /\ calling[t] = "queue" /\ calling' = [calling EXCEPT ![t] = "out"]
    BY <1>29 DEF ShutdownQueue
  <2>2. state' \in Finishing BY <1>6, <2>1
  <2> QED BY <1>1, <1>3, <1>6, <2>1, <2>2, ShutSafe DEF ShutSafeStep
<1>30. CASE PeerSend \/ PeerClose \/ PeerReset
  <2>1. UNCHANGED <<queue, events, outputBuffer, writeShut, state, calling>>
    BY <1>30 DEF PeerSend, PeerClose, PeerReset
  <2> QED BY <1>1, <1>7, <2>1, UnchangedKept
<1> QED
  BY <1>8, <1>10, <1>11, <1>12, <1>13, <1>14, <1>16, <1>17, <1>18, <1>19, <1>20, <1>22,
     <1>23, <1>24, <1>25, <1>26, <1>27, <1>28, <1>29, <1>30, <1>31, <1>32, NextCases

-----------------------------------------------------------------------------
(* The invariant. *)

LEMMA InitConnInv == Init => ConnInv
<1> SUFFICES ASSUME Init PROVE ConnInv
  OBVIOUS
<1>1. PICK loops \in {{BaseLoop}, {BaseLoop, "io"}} : queue = [l \in loops |-> <<>>]
  BY DEF Init
<1>2. Loops = loops /\ queue \in [Loops -> Seq(Tasks)] BY <1>1 DEF Loops
<1>3. TypeOK
  <2>1. /\ outputBuffer \in Seq(Byte) /\ wire \in Seq(Byte)
        /\ callbacks \in Seq({"UP", "DOWN"})
    BY DEF Init
  <2>2. sentBy \in [Message -> Threads \cup {Nobody}]
    BY DEF Init
  <2>3. calling \in [User -> {"out", "send", "set", "queue"}] /\ sending = {} BY DEF Init
  <2>4. Loops \in {{BaseLoop}, {BaseLoop, "io"}} BY <1>2
  <2>5. /\ state = "none" /\ connections = FALSE /\ active = FALSE /\ events = {}
        /\ handling = "no" /\ revents = {} /\ holders = {}
        /\ unread = FALSE /\ peerClosed = FALSE /\ reset = "no" /\ writeShut = FALSE
        /\ promised = {}
    BY DEF Init
  <2> QED BY <1>2, <2>1, <2>2, <2>3, <2>4, <2>5 DEF TypeOK
<1>4. \A l \in Loops : \A x : ~Contains(queue[l], x) /\ Single(queue[l], x)
  BY <1>1, <1>2 DEF Contains, Single
<1>5. \A x : ~Contains(IoQueue, x) /\ Single(IoQueue, x)
  BY <1>3, <1>4, LoopFacts DEF IoQueue
<1>6. StageInv BY <1>4 DEF Init, StageInv, NotCreated, Untouched
<1>7. SendInv
  <2>1. wire \in Seq(Byte) /\ wire = <<>> /\ outputBuffer = <<>> BY DEF Init
  <2>2. Accepted = <<>> BY <2>1, AcceptedFacts
  <2>3. \A m \in Message : ~Taken(m) BY <2>2 DEF Taken
  <2>4. \A m \in Message : sentBy[m] # IoUser BY ThreadAssumption DEF Init
  <2>5. sending = {} BY DEF Init
  <2> QED BY <1>5, <2>3, <2>4, <2>5 DEF SendInv
<1>8. ShutInv BY <1>5 DEF Init, ShutInv, isWriting
<1> QED BY <1>3, <1>6, <1>7, <1>8 DEF ConnInv

(* The inductive invariant holds in every reachable state. *)
THEOREM ConnInvariant == Spec => []ConnInv
<1>1. ConnInv /\ [Next]_vars => ConnInv'
  BY TypeStep, StageStep, SendStep, ShutStep DEF ConnInv
<1> QED BY <1>1, InitConnInv, PTL DEF Spec

(* The connection's variables keep their types: state_, the interest of    *)
(* channel_, the functors queued in the two loops, the bytes in            *)
(* outputBuffer_.                                                          *)
THEOREM TypeCorrect == Spec => []TypeOK
<1>1. ConnInv => TypeOK BY DEF ConnInv
<1> QED BY <1>1, ConnInvariant, PTL

LEMMA ContainsNonEmpty ==
    ASSUME NEW q, NEW x, Contains(q, x)
    PROVE  q # <<>>
  BY DEF Contains

(* A TcpConnection is destroyed only once its watcher is stopped and none  *)
(* of its callbacks runs, for any number of user threads and either number *)
(* of loops: from handleClose() to connectDestroyed() a functor always     *)
(* carries a TcpConnectionPtr.                                             *)
THEOREM WatcherNeverDangles == Spec => []NoDanglingWatcher
<1>1. ConnInv => NoDanglingWatcher
  <2> SUFFICES ASSUME ConnInv, state # "none", ~Referenced PROVE ~active /\ handling = "no"
    BY DEF NoDanglingWatcher
  <2>1. BaseLoop \in Loops /\ IoLoop \in Loops BY LoopFacts DEF ConnInv
  <2>2. ~connections /\ \A l \in Loops : queue[l] = <<>> BY DEF Referenced
  <2>3. ~Contains(IoQueue, DestroyTask)
    BY <2>1, <2>2, ContainsNonEmpty DEF IoQueue
  <2> QED BY <2>2, <2>3 DEF ConnInv, StageInv, NotCreated, Connecting, Up, Closing, Down
<1> QED BY <1>1, ConnInvariant, PTL

(* The assertions of connectEstablished(), connectDestroyed() and          *)
(* removeConnectionInLoop() hold whenever their functors run.              *)
THEOREM LifeCycleAssertionsHold == Spec => []LifeCycle
<1>1. ConnInv => LifeCycle
  <2> SUFFICES ASSUME ConnInv PROVE LifeCycle
    OBVIOUS
  <2>1. TypeOK /\ StageInv /\ BaseLoop \in Loops /\ IoLoop \in Loops
    BY LoopFacts DEF ConnInv
  <2>2. ASSUME AtHead(IoLoop, "connectEstablished") PROVE state = "kConnecting"
    <3>1. Contains(IoQueue, EstablishTask)
      BY <2>1, <2>2, HeadFacts DEF EstablishTask, IoQueue
    <3> QED
      BY <2>1, <3>1, TrackedFacts
      DEF StageInv, NotCreated, Connecting, Up, Closing, Down, IoQueue
  <2>3. ASSUME AtHead(IoLoop, "connectDestroyed") PROVE state \in {"kConnected", "kDisconnecting"}
    <3>1. Contains(IoQueue, DestroyTask)
      BY <2>1, <2>3, HeadFacts DEF DestroyTask, IoQueue
    <3> QED
      BY <2>1, <3>1, TrackedFacts
      DEF StageInv, NotCreated, Connecting, Up, Closing, Down, IoQueue
  <2>4. ASSUME AtHead(BaseLoop, "removeConnection") PROVE connections
    <3>1. Contains(BaseQueue, RemoveTask)
      BY <2>1, <2>4, HeadFacts DEF RemoveTask, BaseQueue
    <3> QED
      BY <2>1, <3>1, TrackedFacts
      DEF StageInv, NotCreated, Connecting, Up, Closing, Down, BaseQueue
  <2> QED BY <2>2, <2>3, <2>4 DEF LifeCycle
<1> QED BY <1>1, ConnInvariant, PTL

(* channel_ waits to write only while bytes are waiting, and waiting bytes *)
(* have channel_ waiting as long as the connection is up, whatever         *)
(* sendInLoop(), handleWrite() and handleClose() do in turn.               *)
THEOREM WriteInterestFollowsBuffer == Spec => []WriteInterest
<1>1. ConnInv => WriteInterest BY DEF ConnInv, ShutInv, WriteInterest
<1> QED BY <1>1, ConnInvariant, PTL

(* shutdown() called in the loop's thread closes the write side only       *)
(* behind everything that thread sent before, while the connection is up   *)
(* and not reset.                                                          *)
THEOREM LoopShutdownGraceful == Spec => []LoopShutdownIsGraceful
<1>1. ConnInv => LoopShutdownIsGraceful
  <2> SUFFICES ASSUME ConnInv, writeShut, reset = "no", "READ" \in events,
                      NEW m \in promised, sentBy[m] = IoUser
               PROVE  Delivered(m)
    BY DEF LoopShutdownIsGraceful, GracefulFor
  <2>1. m \in Message /\ Whole(m) BY DEF ConnInv, TypeOK, SendInv
  <2>2. outputBuffer = <<>> BY DEF ConnInv, ShutInv
  <2>3. Accepted = wire BY <2>2, AcceptedFacts DEF ConnInv, TypeOK
  <2> QED BY <2>1, <2>3 DEF Whole, Delivered
<1> QED BY <1>1, ConnInvariant, PTL

-----------------------------------------------------------------------------
(* TcpConnection implements Connection. *)

AbstractStep == Promise!Next \/ UNCHANGED Promise!vars

LEMMA PhaseFacts ==
    /\ callbacks = <<>> => Phase = "new"
    /\ callbacks = <<"UP">> /\ "READ" \in events => Phase = "up"
    /\ callbacks = <<"UP">> /\ "READ" \notin events => Phase = "closing"
    /\ callbacks = <<"UP", "DOWN">> => Phase = "down"
    /\ callbacks' = <<>> => Phase' = "new"
    /\ callbacks' = <<"UP">> /\ "READ" \in events' => Phase' = "up"
    /\ callbacks' = <<"UP">> /\ "READ" \notin events' => Phase' = "closing"
    /\ callbacks' = <<"UP", "DOWN">> => Phase' = "down"
  BY StageDistinct DEF Phase

LEMMA PhaseKept ==
    ASSUME callbacks' = callbacks, "READ" \in events' <=> "READ" \in events
    PROVE  Phase' = Phase
  BY DEF Phase

(* The phase of each stage. *)
LEMMA StagePhase ==
    ASSUME StageInv
    PROVE  /\ callbacks # <<>> => Phase \in {"up", "closing", "down"}
           /\ Phase = "up" => "READ" \in events
<1>1. CASE callbacks = <<>> BY <1>1, PhaseFacts
<1>2. CASE callbacks # <<>> BY <1>2, AfterUp, PhaseFacts DEF Up, Closing, Down
<1> QED BY <1>1, <1>2

(* A step that touches neither the phase nor the bytes is a stutter. *)
LEMMA Stutter ==
    ASSUME UNCHANGED <<callbacks, outputBuffer, wire, writeShut>>,
           "READ" \in events' <=> "READ" \in events
    PROVE  AbstractStep
<1>1. Phase' = Phase BY PhaseKept
<1> QED BY <1>1 DEF AbstractStep, Promise!vars

LEMMA BecomeStep ==
    ASSUME \/ Phase = "new" /\ Phase' = "up"
           \/ Phase = "up" /\ Phase' = "closing"
           \/ Phase = "closing" /\ Phase' = "down",
           UNCHANGED <<outputBuffer, wire, writeShut>>
    PROVE  AbstractStep
<1>1. \/ Promise!Become("new", "up") \/ Promise!Become("up", "closing")
      \/ Promise!Become("closing", "down")
  BY DEF Promise!Become
<1> QED BY <1>1 DEF AbstractStep, Promise!Next

(* sendInLoop() takes the message, unless it drops it. *)
LEMMA TakeStep ==
    ASSUME ConnInv, callbacks # <<>>, NEW m \in Message, ~Taken(m), NEW queue0,
           SendInLoop(m, queue0), UNCHANGED callbacks
    PROVE  AbstractStep
<1>1. TypeOK /\ StageInv BY DEF ConnInv
<1>2. wire \in Seq(Byte) /\ outputBuffer \in Seq(Byte) BY <1>1 DEF TypeOK
<1>3. Bytes(m) \in Seq(Byte) /\ Len(Bytes(m)) = Size BY BytesFacts
<1>4. Size \in Nat /\ Len(outputBuffer) \in Nat BY <1>2, SizeNat
<1>5. SendEffect(m, queue0) BY <1>1, SendInLoopEffect
<1>6. writeShut' = writeShut /\ ("READ" \in events' <=> "READ" \in events)
  BY <1>5 DEF SendEffect
<1>7. Phase' = Phase BY <1>6, PhaseKept
<1>8. Phase # "new" BY <1>1, StagePhase
<1>9. Promise!Fresh(m)
  BY DEF Promise!Fresh, Promise!Accepted, Taken, Accepted
<1>10. Promise!Bytes(m) = Bytes(m) BY DEF Promise!Bytes, Bytes
<1> DEFINE bytes == outputBuffer \o Bytes(m)
<1>11. bytes \in Seq(Byte) /\ Len(bytes) = Len(outputBuffer) + Size
  BY <1>2, <1>3, ConcatProperties
<1>12. ASSUME NEW n \in 0..Len(bytes), n > 0 => ~writeShut,
              wire' = wire \o SubSeq(bytes, 1, n),
              outputBuffer' = SubSeq(bytes, n + 1, Len(bytes))
       PROVE  AbstractStep
  <2>1. Promise!Flow(Bytes(m), n) BY <1>7, <1>12 DEF Promise!Flow
  <2>2. Promise!Take(m, n) BY <1>6, <1>8, <1>9, <1>10, <2>1 DEF Promise!Take
  <2>3. n \in 0..Len(outputBuffer) + Size BY <1>11
  <2> QED BY <2>2, <2>3 DEF AbstractStep, Promise!Next
<1>13. ASSUME Direct, NEW n \in WriteResults(Size), n < Size, Buffered(m, n, queue0)
       PROVE  AbstractStep
  <2>1. n \in 0..Size /\ ~writeShut /\ outputBuffer = <<>>
    BY <1>13 DEF WriteResults, Writable, Direct
  <2>2. bytes = Bytes(m) BY <1>3, <2>1, ConcatEmptySeq
  <2>3. Suffix(Bytes(m), n) \in Seq(Byte) BY <1>3, <2>1, CutFacts
  <2>4. outputBuffer' = SubSeq(bytes, n + 1, Len(bytes))
    BY <1>13, <2>1, <2>2, <2>3, ConcatEmptySeq DEF Buffered, Suffix
  <2>5. wire' = wire \o SubSeq(bytes, 1, n) BY <1>13, <2>2 DEF Buffered
  <2>6. n \in 0..Len(bytes) BY <1>3, <2>1, <2>2
  <2> HIDE DEF bytes
  <2> QED BY <1>12, <2>1, <2>4, <2>5, <2>6
<1>14. ASSUME Direct, NEW n \in WriteResults(Size), n = Size, wire' = wire \o Bytes(m),
              UNCHANGED outputBuffer
       PROVE  AbstractStep
  <2>1. ~writeShut /\ outputBuffer = <<>> BY <1>14 DEF WriteResults, Writable, Direct
  <2>2. bytes = Bytes(m) BY <1>3, <2>1, ConcatEmptySeq
  <2>3. SubSeq(Bytes(m), 1, Size) = Bytes(m) /\ Suffix(Bytes(m), Size) = <<>>
    BY <1>3, <1>4, CutFacts
  <2>4. outputBuffer' = SubSeq(bytes, Size + 1, Len(bytes))
    BY <1>3, <1>14, <2>1, <2>2, <2>3 DEF Suffix
  <2>5. wire' = wire \o SubSeq(bytes, 1, Size) BY <1>14, <2>2, <2>3
  <2>6. Size \in 0..Len(bytes) BY <1>3, <1>4, <2>2
  <2> HIDE DEF bytes
  <2> QED BY <1>12, <2>1, <2>4, <2>5, <2>6
<1>15. ASSUME UNCHANGED <<outputBuffer, events, wire>> PROVE AbstractStep
  BY <1>6, <1>15, Stutter
<1>16. ASSUME Buffered(m, 0, queue0) PROVE AbstractStep
  <2>1. 0 \in 0..Size /\ 0 \in 0..Len(bytes) BY <1>4, <1>11
  <2>2. SubSeq(Bytes(m), 1, 0) = <<>> /\ Suffix(Bytes(m), 0) = Bytes(m)
    BY <1>3, <2>1, CutFacts
  <2>3. SubSeq(bytes, 1, 0) = <<>> /\ SubSeq(bytes, 0 + 1, Len(bytes)) = bytes
    BY <1>11, <2>1, CutFacts DEF Suffix
  <2>4. outputBuffer' = SubSeq(bytes, 0 + 1, Len(bytes)) BY <1>16, <2>2, <2>3 DEF Buffered
  <2>5. wire' = wire \o SubSeq(bytes, 1, 0) BY <1>16, <2>2, <2>3 DEF Buffered
  <2> HIDE DEF bytes
  <2> QED BY <1>12, <2>1, <2>4, <2>5
<1> QED BY <1>13, <1>14, <1>15, <1>16 DEF SendInLoop

(* handleWrite() writes, and the last write may finish the stream. *)
LEMMA WriteStep ==
    ASSUME ConnInv, NEW n \in 0..Len(outputBuffer), HandleWrite(n), UNCHANGED callbacks
    PROVE  AbstractStep
<1>1. TypeOK BY DEF ConnInv
<1>2. wire \in Seq(Byte) /\ outputBuffer \in Seq(Byte) /\ writeShut \in BOOLEAN BY <1>1 DEF TypeOK
<1>3. WriteEffect BY <1>1, HandleWriteEffect
<1>4. "READ" \in events' <=> "READ" \in events BY <1>3 DEF WriteEffect
<1>5. Phase' = Phase BY <1>4, PhaseKept
<1>6. outputBuffer \o <<>> = outputBuffer BY <1>2, ConcatEmptySeq
<1>7. /\ outputBuffer' = SubSeq(outputBuffer, n + 1, Len(outputBuffer))
      /\ wire' = wire \o SubSeq(outputBuffer, 1, n)
  BY DEF HandleWrite, Suffix
<1>8. n > 0 => ~writeShut BY DEF HandleWrite, WriteResults, Writable
<1>9. Promise!Flow(<<>>, n) BY <1>5, <1>6, <1>7, <1>8 DEF Promise!Flow
<1>10. CASE writeShut' = writeShut
  <2>1. Promise!Write(n) BY <1>9, <1>10 DEF Promise!Write
  <2> QED BY <2>1 DEF AbstractStep, Promise!Next
<1>11. CASE writeShut' # writeShut
  <2>1. writeShut' = TRUE /\ outputBuffer' = <<>> BY <1>3, <1>11 DEF WriteEffect
  <2>2. Promise!Finish(n) BY <1>9, <2>1 DEF Promise!Finish
  <2> QED BY <2>2 DEF AbstractStep, Promise!Next
<1> QED BY <1>10, <1>11

(* shutdownInLoop() finishes the stream, or leaves that to handleWrite(). *)
LEMMA FinishStep ==
    ASSUME ConnInv, callbacks # <<>>, ShutdownInLoop(isWriting),
           UNCHANGED <<callbacks, events, outputBuffer, wire>>
    PROVE  AbstractStep
<1>1. /\ StageInv /\ ShutInv /\ writeShut \in BOOLEAN
      /\ wire \in Seq(Byte) /\ outputBuffer \in Seq(Byte)
  BY DEF ConnInv, TypeOK
<1>2. CASE writeShut' = writeShut BY <1>2, Stutter
<1>3. CASE writeShut' # writeShut
  <2>1. ~isWriting /\ writeShut' = TRUE BY <1>1, <1>3 DEF ShutdownInLoop
  <2>2. Phase' = Phase /\ Phase \in {"up", "closing", "down"}
    BY <1>1, PhaseKept, StagePhase
  <2>3. Phase = "up" => outputBuffer' = <<>> BY <1>1, <2>1, StagePhase DEF ShutInv
  <2>4. 0 \in 0..Len(outputBuffer) BY <1>1
  <2>5. /\ SubSeq(outputBuffer, 1, 0) = <<>>
        /\ SubSeq(outputBuffer, 0 + 1, Len(outputBuffer)) = outputBuffer
    BY <1>1, <2>4, CutFacts DEF Suffix
  <2>6. outputBuffer \o <<>> = outputBuffer /\ wire \o <<>> = wire BY <1>1, ConcatEmptySeq
  <2>7. Promise!Flow(<<>>, 0)
    <3>1. /\ wire' = wire \o SubSeq(outputBuffer \o <<>>, 1, 0)
          /\ outputBuffer' = SubSeq(outputBuffer \o <<>>, 0 + 1, Len(outputBuffer \o <<>>))
      BY <2>5, <2>6
    <3>2. 0 \in 0..Len(outputBuffer \o <<>>) BY <2>4, <2>6
    <3>3. ~(0 > 0) OBVIOUS
    <3> QED BY <2>2, <3>1, <3>2, <3>3, Zenon DEF Promise!Flow
  <2>8. Promise!Finish(0) BY <2>1, <2>2, <2>3, <2>7 DEF Promise!Finish
  <2> QED BY <2>4, <2>8 DEF AbstractStep, Promise!Next
<1> QED BY <1>2, <1>3

LEMMA RefinementStep ==
    ASSUME ConnInv, [Next]_vars
    PROVE  AbstractStep
<1> USE DEF connVars, callerVars, kernelVars, historyVars
<1>1. TypeOK /\ StageInv /\ SendInv /\ ShutInv BY DEF ConnInv
<1>2. BaseLoop \in Loops /\ IoLoop \in Loops BY <1>1, LoopFacts
<1>3. ASSUME callbacks = <<>> PROVE Untouched /\ state \in {"none", "kConnecting"}
  BY <1>1, <1>3, BeforeUp
<1>4. ASSUME Established, callbacks = <<>>, UNCHANGED <<outputBuffer, wire, writeShut>>
      PROVE  AbstractStep
  <2>1. callbacks' = <<"UP">> /\ "READ" \in events' BY <1>4 DEF Established
  <2> QED BY <1>4, <2>1, PhaseFacts, BecomeStep
<1>5. CASE UNCHANGED vars BY <1>5, Stutter DEF vars
<1>6. CASE NewConnection
  <2>1. NotCreated BY <1>1, <1>6 DEF NewConnection, StageInv, Connecting, Up, Closing, Down
  <2>2. callbacks = <<>> BY <2>1 DEF NotCreated, Untouched
  <2>3. /\ Established \/ UNCHANGED <<events, callbacks>>
        /\ UNCHANGED <<outputBuffer, wire, writeShut>>
    BY <1>6 DEF NewConnection
  <2> QED BY <1>4, <2>2, <2>3, Stutter
<1>7. CASE ConnectEstablished
  <2>1. Contains(IoQueue, EstablishTask)
    BY <1>1, <1>2, <1>7, HeadFacts DEF ConnectEstablished, EstablishTask, IoQueue
  <2>2. Connecting
    BY <1>1, <1>2, <2>1, TrackedFacts DEF StageInv, NotCreated, Up, Closing, Down, IoQueue
  <2> QED BY <1>4, <1>7, <2>2 DEF ConnectEstablished, Connecting, Untouched
<1>8. CASE RemoveConnection BY <1>8, Stutter DEF RemoveConnection
<1>9. CASE ConnectDestroyed
  <2>1. Contains(IoQueue, DestroyTask)
    BY <1>1, <1>2, <1>9, HeadFacts DEF ConnectDestroyed, DestroyTask, IoQueue
  <2>2. Closing
    BY <1>1, <1>2, <2>1, TrackedFacts DEF StageInv, NotCreated, Connecting, Up, Down, IoQueue
  <2>3. callbacks' = <<"UP", "DOWN">> BY <1>9, <2>2, DownFollowsUp DEF ConnectDestroyed, Closing
  <2>4. Phase = "closing" /\ Phase' = "down" BY <2>2, <2>3, PhaseFacts DEF Closing
  <2> QED BY <1>9, <2>4, BecomeStep DEF ConnectDestroyed
<1>10. CASE RunUserCallback BY <1>10, Stutter DEF RunUserCallback
<1>11. CASE RunSendInLoop
  <2> DEFINE m == Head(queue[IoLoop]).msg
  <2>1. /\ AtHead(IoLoop, "sendInLoop") /\ SendInLoop(m, Dequeued(IoLoop))
        /\ UNCHANGED callbacks
    BY <1>11 DEF RunSendInLoop
  <2>2. m \in Message /\ Contains(IoQueue, SendTask(m))
    BY <1>1, <1>2, <2>1, HeadFacts DEF IoQueue
  <2> HIDE DEF m
  <2>3. ~Taken(m) BY <1>1, <2>2 DEF SendInv
  <2>4. callbacks # <<>> BY <1>1, <2>2, BeforeUp, TrackedFacts
  <2> QED BY <2>1, <2>2, <2>3, <2>4, TakeStep
<1>12. CASE RunShutdownInLoop
  <2>1. Contains(IoQueue, ShutdownTask)
    BY <1>1, <1>2, <1>12, HeadFacts DEF RunShutdownInLoop, ShutdownTask, IoQueue
  <2>2. callbacks # <<>> BY <1>1, <2>1, BeforeUp, TrackedFacts
  <2> QED BY <1>12, <2>2, FinishStep DEF RunShutdownInLoop
<1>13. ASSUME NEW r \in IoEvents, ReadMessage(r) PROVE AbstractStep
  BY <1>13, Stutter DEF ReadMessage
<1>14. ASSUME NEW r \in IoEvents, ReadError(r) PROVE AbstractStep
  BY <1>14, Stutter DEF ReadError
<1>15. ASSUME NEW r \in IoEvents, HandleClose(r) PROVE AbstractStep
  <2>1. /\ "READ" \in events /\ events' = {}
        /\ UNCHANGED <<callbacks, outputBuffer, wire, writeShut>>
    BY <1>15 DEF HandleClose, CanHandle
  <2>2. Up BY <1>1, <2>1 DEF StageInv, NotCreated, Connecting, Untouched, Closing, Down
  <2>3. callbacks = <<"UP">> /\ callbacks' = <<"UP">> BY <2>1, <2>2 DEF Up
  <2>4. Phase = "up" /\ Phase' = "closing" BY <2>1, <2>3, PhaseFacts
  <2> QED BY <2>1, <2>4, BecomeStep
<1>16. CASE EndMessage
  <2>1. /\ UNCHANGED callbacks
        /\ \/ \E n \in 0..Len(outputBuffer) : HandleWrite(n)
           \/ UNCHANGED <<events, outputBuffer, writeShut, wire>>
    BY <1>16 DEF EndMessage
  <2> QED BY <2>1, WriteStep, Stutter
<1>17. CASE WriteEvent BY <1>17, WriteStep DEF WriteEvent
<1>18. ASSUME NEW t \in Threads, Release(t) PROVE AbstractStep
  BY <1>18, Stutter DEF Release
<1>19. ASSUME NEW m \in Message, SendInLoopThread(m) PROVE AbstractStep
  <2>1. /\ state = "kConnected" /\ sentBy[m] = Nobody /\ UNCHANGED callbacks
        /\ SendInLoop(m, queue)
    BY <1>19 DEF SendInLoopThread, Accept
  <2>2. callbacks # <<>> /\ ~Taken(m) BY <1>1, <1>3, <2>1 DEF SendInv
  <2> QED BY <2>1, <2>2, TakeStep
<1>23. ASSUME NEW t \in User, NEW m \in Message, SendTest(t, m) \/ SendQueue(t, m)
       PROVE  AbstractStep
  BY <1>23, Stutter DEF SendTest, SendQueue
<1>20. CASE ShutdownInLoopThread
  <2>1. /\ state = "kConnected" /\ ShutdownInLoop(isWriting)
        /\ UNCHANGED <<callbacks, events, outputBuffer, wire>>
    BY <1>20 DEF ShutdownInLoopThread
  <2>2. callbacks # <<>> BY <1>3, <2>1
  <2> QED BY <2>1, <2>2, FinishStep
<1>21. ASSUME NEW t \in User, ShutdownTest(t) \/ ShutdownSet(t) \/ ShutdownQueue(t)
       PROVE  AbstractStep
  BY <1>21, Stutter DEF ShutdownTest, ShutdownSet, ShutdownQueue
<1>22. CASE PeerSend \/ PeerClose \/ PeerReset
  BY <1>22, Stutter DEF PeerSend, PeerClose, PeerReset
<1> QED
  BY <1>5, <1>6, <1>7, <1>8, <1>9, <1>10, <1>11, <1>12, <1>13, <1>14, <1>15, <1>16, <1>17,
     <1>18, <1>19, <1>20, <1>21, <1>22, <1>23, NextCases

(* TcpConnection implements the abstract connection: it comes up once and  *)
(* goes down once; the bytes sendInLoop() took reach the kernel in that    *)
(* order, each once; and while the connection is up shutdownInLoop() and   *)
(* handleWrite() close the write side only behind the last byte.           *)
THEOREM Refinement == Spec => ImplementsConnection
<1>1. Init => Promise!Init
  BY PhaseFacts DEF Init, Promise!Init
<1>2. ConnInv /\ [Next]_vars => [Promise!Next]_(Promise!vars)
  BY RefinementStep DEF AbstractStep
<1> QED BY <1>1, <1>2, ConnInvariant, PTL DEF Spec, ImplementsConnection, Promise!Spec
=============================================================================

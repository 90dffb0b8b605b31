# A verification of simplev

simplev is a C++ network library in the style of muduo: an event loop per thread on top of
libev, non-blocking TCP connections, a client with a connector, a server with a pool of loop
threads, a few synchronisation classes, a logger, and as an example a downloader that drives libcurl
from the loop. This directory holds TLA+ modules that model it,
TLC configurations that check them on small instances, and TLAPS proofs for every instance.
`PROJECT.json` is the index: components, runs, mutants, the map from definitions to source
lines, findings, hazards and theorems. Source paths below are relative to
`src/simplev/src/simplev/`.

To check a run: `tlc -config TimerQueue.cfg TimerQueue`. To check the proofs:
`tlapm EventLoopProofs.tla`, and the same for `BufferProofs`, `TimerQueueProofs`, `TcpConnectionProofs`,
`TcpClientProofs`, `TcpServerProofs`, `MonitorProofs` and `DownloadProofs`.

## 1. The system

| part | state it keeps | operations | what is hard about it |
|---|---|---|---|
| `net/EventLoop` | `pendingFunctors_` (mutex), `quit_`, `looping_`, `callingPendingFunctors_`, an eventfd | `loop`, `quit`, `queueInLoop`, `runInLoop`, `wakeup`, `prepareCallBack`, `doPendingFunctors` | wakeups racing the swap, the quit test and the poll; functors that queue functors |
| `net/TimerQueue`, `Timer`, `TimerId` | heap-allocated timers, `validTimers_` of (address, sequence), a global sequence number | `addTimer`, `cancel`, `clearExpiredTimer`, the callback | lifetime of a timer across threads, reuse of addresses, cancel against expiry |
| `net/Channel` | interest set, a libev watcher, a tie | enable/disable, `remove`, `handleEvent` | one event with several callbacks, each of which may close the channel |
| `net/TcpConnection` | `state_`, `inputBuffer_`, `outputBuffer_`, a channel, a socket | `send`, `shutdown`, `connectEstablished`, `handleRead/Write/Close/Error`, `connectDestroyed` | life time held by pointers in queued functors; `send`/`shutdown` from other threads; partial writes |
| `net/Buffer` | a vector and two indices | `append`, `prepend`, `retrieve`, `readFd`, `ensureWritableBytes`, `shrink` | index arithmetic on `size_t`, moving against growing |
| `net/TcpServer` | `connections_`, `started_` | `start`, `newConnection`, `removeConnection`, destructor | hops between the base loop and a connection's loop |
| `net/Acceptor` | a listening socket, `idleFd_` | `listen`, `handleRead` | running out of descriptors |
| `net/EventLoopThreadPool`, `net/EventLoopThread`, `base/Thread` | `loops_`, `next_`; `loop_` | `start`, `getNextLoop`; `startLoop`, `threadFunc`, destructor | the hand-over of a loop between two threads, quitting a loop that has not begun |
| `net/Connector` | `state_`, `connect_`, `channel_`, `retryDelayMs_`, `timerId_` | `start`, `stop`, `restart`, `connect`, `retry`, the handlers | deferred deletion of the channel, stop against retry |
| `net/TcpClient` | `connection_`, `connect_`, `retry_` | `connect`, `disconnect`, `stop`, `newConnection`, `removeConnection`, destructor | reconnecting against stopping; the connector outlives the client |
| `base/BlockingQueue`, `BoundedBlockingQueue`, `CountDownLatch`, `Mutex`, `Condition` | a queue or a count, a mutex with its `holder_`, conditions | `put`, `take`, `wait`, `countDown` | spurious wakeups, one notification for several waiters |
| `net/Socket`, `SocketsOps`, `InetAddress` | none of their own | wrappers of system calls | their results appear as choices in the modules that call them |
| `base/LogStream`, `Logging` | a fixed buffer per line, the cached text of the second per thread, the log level | the operators `<<`, `Logger()`, `~Logger()`, `setLogLevel` | the end of the buffer, the terminating zero of a number, negative numbers, a clock that is set back |
| `base/StringPiece`, `Timestamp`, `Exception` | values | observers, formatting | not modelled |
| `cases/curl/Curl` | libcurl's multi handle, a channel per socket, `runningHandles_`, `prevRunningHandles_` | `getUrl`, `socketCallback`, `timerCallback`, `onTimer`, `onRead`, `onWrite`, `checkFinish` | callbacks inside callbacks: a channel removed, a request destroyed in its own handler |
| `cases/curl/download` | the answers of the server, the pieces, `concurrent_` | `onHeader`, `onHeaderDone`, `concurrentDownload`, `onDownloadDone` | transfers that fail or cannot start, ranges, reaching `quit()` |

How they interact: everything that touches a connection, a timer or a connector runs in one
loop's thread. Other threads hand over a functor with `runInLoop`/`queueInLoop`, which locks the
queue, pushes, and writes the eventfd. The loop runs `prepareCallBack` (delete expired timers, swap
out and run the pending functors, test `quit_`), polls, and calls the watchers that are ready. A
closing connection goes from its own loop to the server's loop (`removeConnectionInLoop`) and back
(`connectDestroyed`); a `shared_ptr` in each functor keeps it alive on the way. The downloader lives in one
thread: libcurl calls `socketCallback` and `timerCallback` from inside the calls that the channels and timers
make of it, and the done callbacks of finished requests run in the same handler.

What has to hold: no wakeup is lost; functors run once, in order; a timer is deleted once, and after
`cancel` it does not fire; a connection is not destroyed while libev can still call it; bytes leave
in the order of the sends; no socket is leaked or closed twice; a client that is to connect keeps
trying, and one that is stopped lets go; a server starts, serves and stops whatever the interleaving;
a queue loses nothing and leaves no thread behind; a log line stays in its buffer and says what was logged; a
download ends, with every byte fetched once, and touches no channel or request that is gone. The hazards in `PROJECT.json` give the line where
each of these could go wrong.

## 2. Modules

| module | models | run(s) |
|---|---|---|
| `FunctorQueue` | what `queueInLoop` promises: a FIFO queue of functors, each run once (abstract specification) | refined by `EventLoop` |
| `EventLoop` | `net/EventLoop.{h,cc}`, any number of calling threads | `eventloop` |
| `EventLoopProofs` | theorems about `EventLoop` | – |
| `Buffer` | `net/Buffer.{h,cc}` as operators on a record, and the calls as actions | `buffer` |
| `BufferProofs` | theorems about `Buffer` and `Logger`, the two modules of byte buffers | – |
| `TimerQueue` | `net/TimerQueue`, `Timer`, `TimerId` and a heap with reuse | `timerqueue`, `timerqueue_add` |
| `TimerQueueProofs` | theorems about `TimerQueue` | – |
| `Connection` | what a connection promises: up once, down once, an ordered stream of bytes (abstract specification) | refined by `TcpConnection` |
| `TcpConnection` | one connection with `Channel` and the part of `TcpServer` that creates and removes it | `tcpconnection`, `tcpconnection_shutdown` |
| `TcpConnectionProofs` | theorems about `TcpConnection`, its refinement of `Connection` among them | – |
| `TcpClient` | `Connector` and `TcpClient` | `tcpclient`, `tcpclient_stop` |
| `TcpClientProofs` | theorems about `TcpClient` | – |
| `TcpServer` | `TcpServer::start` and destructor, `Acceptor`, `EventLoopThreadPool`, `EventLoopThread`, `Thread` | `tcpserver` |
| `TcpServerProofs` | theorems about `TcpServer` | – |
| `Monitor` | the blocking queues and the latch over `Mutex` and `Condition` | `monitor` |
| `MonitorProofs` | theorems about `Monitor` | – |
| `Curl` | `cases/curl/Curl.{h,cc}`, libcurl as its environment, on a loop with tied channels | in `download` |
| `Download` | `cases/curl/download.cc`; composes `Curl` with the `Downloader` | `download` |
| `DownloadProofs` | theorems about `Curl` and `Download` together | – |
| `Logger` | `base/LogStream` and `base/Logging` | `logger` |

The event loop is modelled once in detail; the modules above it use it at its contract: functors
queued in a loop run one at a time and in order, in batches, between polls. That contract is
`FunctorQueue`, and `EventLoop` is shown to implement it. In the same way `Connection` is what the users of
`TcpConnection` may rely on, and `TcpConnection` is shown to implement it with `backlog <- outputBuffer`,
`sent <- wire`, `open <- ~writeShut`, and a phase that follows from the callbacks made and the interest in
reading: `handleClose()` has run (`closing`) when the channel of an established connection does not read.

A critical section is one step, and so is a system call. Where code outside the loop's thread touches
several shared variables without a lock, each access is a step of its own (`send()` off the loop: `SendTest`,
`SendQueue`; `shutdown()`: `ShutdownTest`, `ShutdownSet`, `ShutdownQueue`; `stop()`: `StopCall`, `StopSet`, `StopQueue`,
`StopCancel`; `queueInLoop()`: the push, then `Wakeup`). Variables that exist only to state a property
are marked "history" where they are declared.

### EventLoop

`pc` is the position of the loop thread: `idle` (outside `loop()`), `prepare`, `functors` (past the swap),
`checkQuit`, `poll`, `dispatch`, `event` (in user code). `pendingFunctors` and `functors` are the two
vectors, `current` the functor being executed, `batch` says that the local vector still has executed
functors to destroy: their destructors are user code too (`DestructorQueueInLoop`), and run when
`callingPendingFunctors_` is already false; `unannounced` counts the functors they queued since the last swap.
The eventfd is a counter that saturates (`EventfdMax`); a
write to a full counter fails and is only logged, as in the code. libev is external: `PollReturn`,
`NextIteration`, `EnvEvent`.

### TimerQueue

`heap` maps each address to a timer or to `Free`; `new` takes any free address, so that an address is
reused with a new sequence number. `addTimer` off the loop is two steps, because it reads
`timer->sequence()` after the timer was handed over (`AddTimerReturns`); if the timer has been freed,
what it reads is a later timer's number, the old number, or garbage (0). Time is abstract: any set of
active timers may be due when poll returns (`Reify`); a one-shot timer is stopped before its callback, as
libev does. The destructor of the queue is not an action.

### TcpConnection

One connection, with `setThreadNum(0)` (one loop) or in a loop of its own: `DOMAIN queue` is the set of
loops, chosen by `Init`. `Referenced` says whether a `TcpConnectionPtr` exists anywhere: in the server's
map, in a queued functor or with a user. A message is `Size` bytes, so that partial writes leave a part
in the output buffer. The kernel (`unread`, `peerClosed`, `reset`, `writeShut`) and the peer are external.
The high-water-mark and write-complete callbacks are taken as set. The start of the channel's watcher in
the constructor is one step; in the code it changes libev's lists from the base loop's thread (hazard at
`Channel.cc:26`).

### TcpClient

`channel` is the connector's channel, whose deletion is a queued functor (`ResetChannel`); `connection` is
the client's connection, `conns` the connections by descriptor, `open` the kernel's open sockets, reused
from the lowest number as the kernel does; when an attempt needs a socket and none is left
`createNonblockingOrDie()` ends the process, so that there is no step. `TimerIds` bounds the identities of timers
that are alive or named by a queued cancellation at the same time. Assumptions: one `connect()` (`MaxConnects = 1`; the code says
"FIXME: check state" of a second one, and with `MaxConnects = 2` the connector's assertions do fail);
`enableRetry()` before `connect()`; the destructor runs in the loop's thread with no call of another thread
in progress (the code says that the other case is not safe); a timer started by the current batch is not
due in a poll that returns at once because functors are waiting (the retry delay is at least half a second).
`stop()` in another thread reads `timerId_` while the loop may replace it; the torn value names no timer.

`restart()`, and `connect()` in the loop's thread, set `connect_` and then call `startInLoop()`, which tests it: two
steps (`Restart` or `ConnectInLoop`, then `StartAttempt`, with `pc` at `startInFunctors` or `startInEvents` between
them), so that a `stop()` of another thread may fall there too. `retry()` tests `connect_` again after `startInLoop()`
has; the two tests are one, because a `stop()` that clears it between them leaves what one before both leaves,
`kDisconnected` and no timer. `~Connector()` is not an action: functors, timers and the channel's callbacks hold the
pointers that keep a connector alive, so that when the last one goes there is no channel and no timer left.

### TcpServer

The base thread starts the pool (`CreateThread`, `AwaitLoop`, `WakeUp`), listens, accepts, and destroys the
server (`QuitLoop`, `WakeupLoop`, `JoinThread`, `CloseAcceptor`). A pool thread publishes its loop under the
mutex and only then enters `loop()`, so the destructor's `quit()` may come first. Descriptors are counted:
connections, the spare one (`idleFd_`), and those of the rest of the process, which may open or close one
between any two of the four calls of the EMFILE path (`CloseSpare`, `AcceptSpare`, `CloseAccepted`,
`OpenSpare`). The server is destroyed in the loop's thread when its connections are gone, as the comment in
`TcpServer.cc` ("TcpServer live longer than TcpConnection") asks for; `start()` is called in the loop's thread.
`quit()` is two steps, as in the code: the loop may see `quit_` and its thread end before `WakeupLoop`, which then
wakes up nobody. In the code that write is made on a destroyed `EventLoop` (hazard at `EventLoopThread.cc:28`);
`LoopsAlive` is about the moment before `quit()`.

### Monitor

A behaviour is about one monitor, chosen by `Init`. The pthread mutex (`owner`) and the record of its holder
(`holder`) are separate variables, changed in the order of `Mutex.h`. `notify()` wakes any one waiter; a
woken thread competes for the mutex with newcomers. `PushBack` is `boost::circular_buffer`'s: on a full
buffer it drops the front.

### Curl and Download

Everything is in the loop's thread; `pc` is where that thread is: between events (`dispatch`), in a channel's
`handleEvent()` (`handler`), in `curl_multi_socket_action` (`action`), in `checkFinish()` (`finish`), or past
`loop()` (`ended`, `destroyed`). `cur` is the channel whose handler is on the stack, `todo` its callbacks not
called yet: `onWrite()` follows `onRead()` whatever that did. A `Channel` exists while `channel_` or a queued
`dummy()` points to it (`Exists`), a `Request` while the user holds it or the tie of the running handler does
(`Guarded`, `HandlerEnd`).

libcurl is external and modelled by what its interface lets it do: inside `curl_multi_socket_action` any transfer
may open its socket (`Connect`), change its interest, give the socket up and try again (`Reconnect`) or end
(`Complete`), on descriptors that are reused; before it returns it sets the number of unfinished transfers and
asks for a timer if a transfer without a socket has none (`ActionReturn`). `TimerCallback` adds a timer for every
call, as the code does, -1 included, so spare timers happen (`SpareTimer`).

`Download` gives each request its role: the pieces are `0..kConcurrent-1`, then `req_` and `req2_`. A transfer
ends well or with an error, which the code does not look at; header lines come in any selection; each `fopen`
may fail. `kMinPiece` is the 4096 of the code. In `Done` a callback that drops the last `RequestPtr` destroys the
request at once unless its handler is running. The branch of `HandleEvent` for a request that is gone is never
taken: a request's channel is always stopped before the request goes, which is part of `ChannelOutlivesHandler`.
The members of a request are not modelled apart from it: that `doneCb_` may be destroyed while it runs (`Curl.cc:100`)
is outside the model. The loops around `curl_multi_socket_action` are one action each; what happens in
an iteration of them is libcurl's.

### Logger

`FixedBuffer::append()` is called `appendText` here, because `Buffer` has an `append` of its own, and both modules are
proved about together; for the same reason the specification is `LoggerSpec`.

Text is its length; what counts is where it ends. A buffer is `cur`, the highest byte ever written (`high`, with
the terminating zeros) and the bytes left out (`lost`). Integers are converted digit by digit as in `convert()`,
with C++'s division, at a width of `Bits`. `stamp` is the second that the line shows, `second` the one it should
show. One thread is modelled: the cache of the second is per thread, and a `Logger` has its own stream. Thread ids
have at most five digits (`TidLen`): with six, `assert(tid.length() == 6)` in `Logging.cc:93` fails (hazard).

### Buffer

The record holds `buffer`, `readerIndex`, `writerIndex`, and each member function is an operator on it with
the code's name. The actions carry the conditions that the code's assertions put on callers. Left out:
`swap()` of two buffers, and `shrink()`, which swaps in a vector laid out anew and leaves the indices
as they were (`Buffer.h:151`; nothing calls it).

## 3. Runs

All runs use TLC's default breadth-first search without symmetry or constraints. Sizes are distinct states.

| run | instance | shows |
|---|---|---|
| `eventloop` (65 thousand) | loop thread and 2 threads, 2 functors, 3 pending, eventfd up to 2 | `NoLostWakeup`, `QuitDrains`, refinement of `FunctorQueue`, and under fairness `FunctorsEventuallyRun`, `EventsServed`, `QuitStops` |
| `buffer` (7 thousand) | 2 byte values, prefix 1, initial size 2, `extrabuf` 2, data up to 3, vector up to 7 | `TypeOK` with the indices in order, `ActsAsQueue` |
| `timerqueue` (347 thousand) | 2 addresses, 1 thread and user code in the loop, 3 timers, 2 queued functors | `HeapSafe`, `CancelIsExact`, and under fairness `TimersFire` |
| `tcpconnection` (694 thousand) | both loop layouts, 1 thread and user code in the loop, 2 messages of 2 bytes | `NoDanglingWatcher`, `LifeCycle`, `WriteInterest`, `LoopShutdownIsGraceful`, refinement of `Connection`, and under fairness `PeerGoneIsDestroyed` |
| `tcpclient` (65 thousand) | 1 thread and user code in the loop, with and without retry, 3 descriptors, 3 timers | `SocketsOwned`, `Assertions`, `StillTrying`, `NoStaleClient`, and under fairness `StopReleases` |
| `tcpserver` (20 thousand) | 0 to 2 pool threads, 3 descriptors, backlog 2 | `LoopsAlive`, round robin (in `TypeOK`), and under fairness `StartAndJoinReturn`, `BacklogServed` |
| `monitor` (55 thousand) | 3 putters, 3 takers, 5 calls of each, capacity 2, 1 spurious wakeup | `HolderIsOwner`, `Delivered`, `NoWaiterForgotten`, and under fairness `EveryCallReturns` |
| `download` (710 thousand) | 2 pieces, lengths 0, 1 and 3, 2 descriptors, 3 channel addresses | `Assertions`, `ChannelOutlivesHandler`, `FileWhole`, and under fairness `DownloadEnds` |
| `logger` (38 thousand) | buffer of 60 bytes, numbers below 8, 12-bit integers, texts of 0, 1, 30, 2 seconds | `WithinBuffer`, `LineFaithful`, `ConvertIsDecimal` |

`buffer`, `timerqueue`, `tcpclient`, `tcpserver` and `download` check `TypeOK` as well; that of `eventloop` and
`tcpconnection` is proved. Three more runs are expected to fail; see section 4.

Why the bounds are enough for the cases that matter:

* `eventloop`: two threads can be between push and write at the same time, the counter can be full, functors
  queue functors across two batches, three waiting functors show a reordering. What is proved (section 6)
  needs no bound.
* `buffer`: every buffer of at most 7 cells occurs, among them the ones where `makeSpace()` is exactly at its
  limit, and reads that fill the writable space exactly, exceed it, or fill `extrabuf`.
* `timerqueue`: three timers on two addresses make an address used again while the other timer is anywhere in its
  life; no operation looks at more than one timer but `clearExpiredTimer()`, which treats each by itself.
* `tcpconnection`: a partly written message behind which another is queued needs two messages of two bytes.
* `tcpclient`: three descriptors are an attempt, a connection that is closing, and a new one.
* `tcpserver`: two threads are the least with a round robin; three descriptors leave room for the spare one,
  a connection and an intruder.
* `download`: two pieces finish in one call or in two, in both orders, and one of them may fail to start; a third
  channel address lets a removed channel coexist with the channels of both sockets; length 3 does not divide by 2.
  `MaxTimers` bounds only the timers libcurl asks for without need; those it needs are always given.
* `logger`: the head of a line leaves 22 of the 60 bytes, so that texts and numbers meet the end of the buffer at
  many distances; every 12-bit number, signed and unsigned, is converted. What is proved needs no bound.
* `monitor`: three takers on a queue of two let a newcomer overtake a woken taker while another still waits.

Deadlock is checked in `eventloop`, `buffer` and `timerqueue`. The others set `CHECK_DEADLOCK FALSE`: a
connection, a client, a server, the callers of a monitor, a download and a logger that aborts really come to an
end.

### Fairness

* `EventLoop`: weak fairness of the loop's steps (callbacks return, poll returns when something is ready) and
  of each thread's pending eventfd write (a running thread finishes its call). No event or call has to come.
* `TimerQueue`: the same for the loop, and strong fairness of `ReifyTimer(a)`: real time passes, so a timer
  that stays active is due in some iteration. This is what libev's timer heap provides.
* `TcpConnection`: loops run their functors and call a watcher whose descriptor stays ready (level-triggered);
  nothing is assumed of the user or the peer.
* `TcpClient`: the loop iterates and threads finish their calls; nothing of the network.
* `TcpServer`: the base thread and each pool thread run; a spurious wakeup is never relied on.
* `Download`: weak fairness of the loop's thread, which includes that a poll with sockets or timers ends, and strong
  fairness of the end of each transfer: the peer answers or closes, or the network reports an error. The code sets
  no time limit, so against a peer that is silent for ever the program does wait for ever.
* `Monitor`: some thread runs when one can, and makes the calls it is there for. Spurious wakeups are bounded
  (`MaxSpurious`), so no fairness of the mutex between threads is needed.

## 4. Findings

Three runs check what a comment of the code says of it and find a counterexample.

| run | what happens |
|---|---|
| `timerqueue_add` | `addTimer()` off the loop reads `timer->sequence()` after handing the timer over (`TimerQueue.cc:41`); a timer that is due at once may be deleted by then. |
| `tcpconnection_shutdown` | `send()` then `shutdown()` in another thread: `handleWrite()` may see `kDisconnecting` while the send is still queued, closes the write side, and the message is lost (`TcpConnection.cc:133`). |
| `tcpclient_stop` | `stop()` in another thread falls between the test in `removeConnection()` and `restart()`, which sets the connector's `connect_` again: the client reconnects after `stop()` returned (`TcpClient.cc:138`). |

The passing runs state the parts that do hold: `LoopShutdownIsGraceful` for a caller in the loop's thread,
`StopReleases` for a client without retry. Three more weaknesses appear as the exceptions that properties of
passing runs make, and make nowhere else:

* `NoLostWakeup` and `FunctorsEventuallyRun` except functors queued by the destructors of executed functors, as many
  as `unannounced` counts, for as long as nothing else is queued:
  `queueInLoop()` sends no wakeup for them, since `callingPendingFunctors_` is already false (`EventLoop.cc:154`).
* `CancelIsExact` is about timers that have been started: `cancel()` in the loop's thread may overtake the queued
  `addTimerInLoop()` of the thread that made the timer, and is then forgotten (`TimerQueue.cc:62`).
* `Assertions` of `Download` excepts an abandoned download: if one piece cannot open its file the loop is told to
  quit, but the other pieces are started, and may have opened a socket when the loop ends. `~Request()` then finds
  an active channel, against its assertion (`Curl.cc:36`, `download.cc:176`).

## 5. Mutants

Every property of every passing run has a mutant: an operator, marked "Mutant:" and defined just before the
definition it stands in for, that changes it as a plausible bug would. Examples: `queueInLoop()` without
"|| callingPendingFunctors_", a pending vector that is copied instead of swapped, a `doPendingFunctors()` that goes on
until the queue is empty, a sequence counter that is not increased, a channel that goes on waiting to write with nothing
left to send, `cancelInLoop()` by address
only, a `makeSpace()` that moves the indices and not the bytes, `connectDestroyed()` that keeps the channel,
a destructor of the client that leaves the connector running, a `loop()` that clears `quit_` on entry, a
`put()` that notifies only an empty queue, a removed channel that is not kept for its handler, a range with an
exclusive end, a text that may fill the log buffer to the last byte. TLC finds each one by the property it is listed with.

## 6. Proofs

The eight proof modules hold for every value of the constants, from the assumptions stated with the constants, which
TLC evaluates in the runs:

| module | assumes |
|---|---|
| `EventLoop` | the loop's thread is not among the others, no functor is `NoFunctor`, the bounds are positive |
| `Buffer` | `Zero` is a byte, the sizes are natural numbers |
| `TimerQueue` | the loop's thread is not among the users, the bounds are positive |
| `TcpConnection` | the same of the threads, and `Nobody` is none of them; messages have at least one byte, the high water mark is positive |
| `TcpClient` | descriptors and timers are positive numbers, `0 < kInitRetryDelay <= kMaxRetryDelay` |
| `TcpServer` | the bounds are natural numbers, and there are at least one descriptor and one place in the listen queue |
| `Monitor` | putters, takers and `None` are apart, both sets of threads are finite, the capacity is positive |
| `Curl`, `Download` | requests, descriptors and channel addresses are numbers (`NULL` is none), there are finitely many requests: the pieces, `req_` and `req2_`; at least one piece, and a least length of a piece that is positive |
| `Logger` | the head of a line and a number fit in the buffer; `StaticCheck`: a converted integer and its zero fit in `kMaxNumericSize`, which TLC evaluates for the run's width |

Each inductive invariant was checked by TLC, as an invariant of the run's instance, before it was proved. In each
module `NextCases` or the like splits `Next`, a lemma per action or group of actions carries the invariant over, and
the theorem combines them.

### EventLoop

* `TypeCorrect` (`Spec => []TypeOK`): one step per action.
* `PhaseCorrect` (`Spec => []PhaseInv`): what the loop thread's position says of its flags and of its local
  vector. `NoLostWakeup` is not inductive without it: that a push in a functor is followed by a write rests on
  `callingPendingFunctors` being true just then.
* `NoWakeupIsLost` (`Spec => []NoLostWakeup`), inductive together with `TypeOK` and `PhaseInv`. The argument: a
  wakeup is due from the push to the read of the eventfd, and the read is in the `dispatch` phase, after which
  the swap takes every functor; a write to a full counter leaves it readable.
* `QuitDrainsTheQueue` (`Spec => QuitDrains`), from `OwedInv`: the functors outstanding at a quit are spread over
  the two vectors such that none is left when `checkQuit` is reached.
* `LoopImplementsFunctorQueue` (`Spec => ImplementsFunctorQueue`), with `queue <- functors \o pendingFunctors`
  and `running <- current`; swapping is a stutter because the local vector is empty in `prepare` (`PhaseInv`).

### Buffer

* `BufferInvariant`, from which `BufferTypeCorrect` (the indices in order), `SpaceIsMade` (the assertions of
  `ensureWritableBytes()` and `makeSpace()` hold) and `BufferIsQueue` follow. `BufferInv` adds that the vector
  never shrinks below its first size, so that the prefix always exists.
  The lemmas `MakeSpaceCorrect`, `WriteCorrect`, `AppendCorrect`, `PrependCorrect`, `RetrieveCorrect`,
  `ReadFdCorrect` say of each operator that it keeps a buffer well formed and what becomes of its content.

### TimerQueue

`TypeCorrect`, `HeapIsSafe` (`Spec => []HeapSafe`) and `CancelExact` (`Spec => []CancelIsExact`), for any number of
threads, timers and addresses. The inductive invariant `TimerInv` adds

* `SequencesInv`: `s_numCreated_` is ahead of every sequence number, no two live timers share one, and a `TimerId`
  that somebody holds, or will be given, has the address of the live timer with its number, if there is one. Without it
  the reuse of an address could let a cancellation hit the wrong timer. Even the read of a
  freed timer in `addTimer()` keeps to it: it yields the number of a later timer at that address, or of no live one.
* `QueueInv`: a timer that waits to be added is queued once and was never started;
* `ActiveInv`: an active or expired timer is in `validTimers_` and was not canceled.

### TcpConnection

`ConnInvariant` (`Spec => []ConnInv`) divides the life of a connection into five stages (`NotCreated`, `Connecting`,
`Up`, `Closing`, `Down`), each of which says where the functor is that will carry the connection on: in `Closing` exactly
one, `removeConnectionInLoop` in the base loop while the map has the connection, then `connectDestroyed` in its own.
From it follow

* `WatcherNeverDangles` (`Spec => []NoDanglingWatcher`): as long as the watcher is started there is a pointer in the map
  or in a functor;
* `LifeCycleAssertionsHold` (`Spec => []LifeCycle`): a functor of the life cycle occurs once, and in one stage only;
* `LoopShutdownGraceful` (`Spec => []LoopShutdownIsGraceful`), with `SendInv` (a message is in a queue once or its bytes
  have been taken, never both) and `ShutInv` (waiting bytes have a watcher, and none is left behind a closed write side);
* `WriteInterestFollowsBuffer` (`Spec => []WriteInterest`), from `ShutInv` too;
* `Refinement` (`Spec => ImplementsConnection`): each action is mapped to a step of `Connection` or to a stutter; the
  part under `[][Next]_vars`, as `Connection` states no fairness.

### TcpClient

`TypeCorrect` holds for any number of `connect()` calls; the delay stays within its limits. The others assume
`MaxConnects <= 1`, the use that the code supports (of a second call it says "FIXME: check state", and with
`MaxConnects = 2` the assertions fail). `ClientInvariant` (`Spec => []ClientInv`) has these parts:

* `TokenInv`: at most one thing carries the client on, be it a call of `connect()`, its functor, a call of `startInLoop()`, the attempt, the
  retry timer, the connection, or `restart()`; so `startInLoop()` always finds `kDisconnected`;
* `ChannelInv`: the channel of a finished attempt waits for exactly one `resetChannel` functor, which is in the current
  batch before a poll can find the retry timer expired or the new connection ready. `Assertions` needs it: that
  `connecting()` finds `channel_` empty is a matter of the order of batches and polls;
* `QueueInv` and `PhaseInv`: functors occur once, nothing is ready while functors run;
* `DestroyInv`: after the destructor the connection has the callback that does not need the client, or there is none and
  the connector's `connect_` is false;
* `TryInv`: while nobody stopped the client, no functor or call is about that would, and something is under way.

From it follow `NoSocketLost` (`SocketsOwned`, itself part of the invariant), `ConnectorAssertionsHold` (`Assertions`),
`NeverIdle` (`StillTrying`) and `NoCallAfterDestruction` (`NoStaleClient`).

### TcpServer

`TypeCorrect` and `LoopsStayAlive` (`Spec => []LoopsAlive`), for any number of pool threads, descriptors and waiting
peers. The inductive invariant `ServerInv` has these parts:

* `PhaseInv`: where the base thread is tells how many loops it has collected; `loops` is always the sequence of the first
  threads, and all `numThreads` of them are there once the server serves;
* `ThreadInv`: `loop_` is set exactly while the thread's `EventLoop` exists, a thread ends only after `quit()` was called for
  its loop, and `quit()` has been called for no loop beyond the one the destructor works on. `LoopsAlive` is not inductive
  without it: that the loop about to be quit is still there rests on nobody having quit it before, and that a collected loop
  exists rests on `startLoop()` having seen `loop_` set. A thread that `start()` has not reached does not run;
* `LoadInv`: exactly the loops before `next_` are one connection ahead. `getNextLoop()` keeps to it: the next loop is one
  that is not ahead, and when `next_` starts over all of them are equal. The bound on `load` in `TypeOK` follows; without
  `LoadInv` a step from a legal `load` could put a loop two ahead;
* `FdInv`: the descriptors held, with the spare one, are at most those there are, through every step of the EMFILE path.

### Monitor

* `HolderIsRight` (`Spec => []HolderIsOwner`). `LockInv` ties the position of every thread to the mutex and to
  `holder_`: `HolderIsOwner` alone says nothing of a thread between `lock()` and `assignHolder()`, or between
  `unassignHolder()` and `unlock()`, from which its violation would come.
* `QueueDelivers` (`Spec => []Delivered`), inductive with the types of the two sequences (`DataInv`); it needs
  that `put()` pushes only when it has found room while it has the mutex.
* `NobodyForgotten` (`Spec => []NoWaiterForgotten`), inductive with `LockInv`, `DataInv` and the fact that nobody waits
  for room in an unbounded queue. It counts: a `put()` adds an item and either makes a waiting taker a running one or finds
  none waiting; a taker that goes back to wait has found the queue empty. Both need that the thread has the mutex.

### Curl and Download

`DownloadInvariant` (`Spec => []DownloadInv`): `CurlInv` relates requests, sockets and channels (a transfer has a channel
exactly while it has a socket; a stopped channel is in a functor; functors run only when no handler is on the stack), and
the stages of the program (header, pieces, single request, nothing) relate `concurrent_` to the number of pieces that have
not ended, which keeps it from going below zero. From it follow `TypeCorrect`, `ChannelOutlives` (`ChannelOutlivesHandler`),
`AssertionsHold` (`Assertions`) and `WholeFile` (`FileWhole`); the last rests on the lemma `PiecesPartition`: for every
length and number of pieces the ranges of `PieceRange` are disjoint and cover the file.

### Logger (in `BufferProofs`)

* `WithinBufferHolds` and `LineFaithfulHolds`, from `LoggerInv`: `appendText()` wants strictly more room than it uses
  and in-place formatting at least `kMaxNumericSize`, which is more than a number and its zero (`AppendOK`,
  `AppendNumberOK`); nothing is left out while everything offered, and a number more, fits; and the cached text is
  that of `t_lastSecond`.

### Only model-checked

* Everything under fairness: `FunctorsEventuallyRun`, `QuitStops`, `TimersFire`, `PeerGoneIsDestroyed`, `StopReleases`,
  `StartAndJoinReturn`, `BacklogServed`, `EveryCallReturns`, `DownloadEnds` (TLAPS does not do liveness with fairness).
* What the recursive `convert()` computes (`ConvertIsDecimal`): induction over data is out of the provers' reach.

## 7. Not modelled, and what comes next

Left out: the text of log lines, address conversion, time stamps, exceptions, `StringPiece` (values and I/O);
connection names; `waitForSeconds()`, `shrink()` (no caller); the option setters and getters of `Request`;
system-call errors that end the process (`LOG_FATAL`).

Not covered by a property, with the reason in the hazard list: `start()` of a server in another thread
(`TcpServer.cc:49`), the registration of a connection's watcher by the base thread (`Channel.cc:26`), a second
`connect()` of a client (`Connector.cc:58`), its destructor in another thread (`TcpClient.cc:65`), thread ids of six
digits (`Logging.cc:93`), a `wakeup()` after the loop has ended (`EventLoopThread.cc:28`), a `doneCb_` destroyed while it runs
(`Curl.cc:100`). The code or its comments exclude or do not handle these cases, so there is nothing that
holds of them to check; a run could only show the failure.

Planned, in this order:

1. Registration of a connection's channel by the base thread against the poll of its own loop.
2. `EventLoopThread` on its own: a loop quit by somebody else before the destructor, a destructor without
   `startLoop()`.

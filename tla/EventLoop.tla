----------------------------- MODULE EventLoop -----------------------------
(***************************************************************************)
(* net/EventLoop.{h,cc}: one event loop, its loop thread and the threads   *)
(* that call queueInLoop, runInLoop, wakeup and quit on it.                *)
(*                                                                         *)
(* A critical section of mutex_ is one step, and so is a system call.  The *)
(* two halves of queueInLoop() and of quit() (change the shared state;     *)
(* then write the eventfd) are two steps, because another thread may run   *)
(* between them.  libev is external: ev_run calls the prepare watcher,     *)
(* leaves if the loop was broken, polls, and then calls the watcher of     *)
(* every file descriptor that poll reported ready.                         *)
(***************************************************************************)
EXTENDS Naturals, Sequences

CONSTANTS
    Functor,           \* callbacks
    NoFunctor,         \* no callback is running
    Thread,            \* the threads other than the loop's own
    LoopThread,        \* the thread the loop was constructed in (threadId_)
    MaxPending,        \* bound: functors waiting in pendingFunctors_
    EventfdMax         \* the largest value the eventfd counter holds

ASSUME LoopThreadAssumption == LoopThread \notin Thread
ASSUME NoFunctorAssumption == NoFunctor \notin Functor
ASSUME MaxPendingAssumption == MaxPending \in Nat \ {0}
ASSUME EventfdMaxAssumption == EventfdMax \in Nat \ {0}

VARIABLES
    pc,                      \* where the loop thread is
    looping,                 \* looping_
    quit,                    \* quit_
    callingPendingFunctors,  \* callingPendingFunctors_
    pendingFunctors,         \* pendingFunctors_, guarded by mutex_
    functors,                \* the rest of doPendingFunctors()'s local vector
    batch,                   \* does that vector still own functors to destroy?
    current,                 \* the functor being executed, or NoFunctor
    wakeupFd,                \* the eventfd's counter
    ioReady,                 \* some other fd is ready, or some timer expired
    revents,                 \* ready descriptors poll returned, not dispatched yet
    caller,                  \* for each thread: "wakeup" between its two halves
    owed,                    \* history: functors outstanding at the last quit()
                             \* outside the draining phase, not run yet
    unannounced              \* history: functors that destructors queued since
                             \* the last swap, without a wakeup()

loopVars == <<pc, looping, callingPendingFunctors, functors, batch, current>>
ioVars == <<wakeupFd, ioReady, revents>>
vars == <<pc, looping, quit, callingPendingFunctors, pendingFunctors, functors,
          batch, current, wakeupFd, ioReady, revents, caller, owed, unannounced>>

Threads == Thread \cup {LoopThread}

PC == {"idle", "prepare", "functors", "checkQuit", "poll", "dispatch", "event"}

(* The loop is inside prepareCallBack(), past the swap of the two vectors. *)
Draining == pc \in {"functors", "checkQuit"}

TypeOK ==
    /\ pc \in PC
    /\ looping \in BOOLEAN
    /\ quit \in BOOLEAN
    /\ callingPendingFunctors \in BOOLEAN
    /\ pendingFunctors \in Seq(Functor)
    /\ functors \in Seq(Functor)
    /\ batch \in BOOLEAN
    /\ current \in Functor \cup {NoFunctor}
    /\ wakeupFd \in 0..EventfdMax
    /\ ioReady \in BOOLEAN
    /\ revents \in SUBSET {"wakeup", "event"}
    /\ caller \in [Threads -> {"out", "wakeup"}]
    /\ owed \in Nat
    /\ unannounced \in Nat

-----------------------------------------------------------------------------
Init ==
    /\ pc = "idle"
    /\ looping = FALSE
    /\ quit = FALSE
    /\ callingPendingFunctors = FALSE
    /\ pendingFunctors = <<>>
    /\ functors = <<>>
    /\ batch = FALSE
    /\ current = NoFunctor
    /\ wakeupFd = 0
    /\ ioReady = FALSE
    /\ revents = {}
    /\ caller = [t \in Threads |-> "out"]
    /\ owed = 0
    /\ unannounced = 0

isInLoopThread(t) == t = LoopThread

(* May thread t be executing code of the library's user, which calls the   *)
(* loop's methods?  On the loop thread: before and after loop(), in a      *)
(* functor, in an event or timer callback, and in the destructor of a      *)
(* timer callback that clearExpiredTimer() frees.                          *)
InUserCode(t) ==
    /\ caller[t] = "out"
    /\ isInLoopThread(t) => \/ pc \in {"idle", "prepare", "event"}
                            \/ current # NoFunctor

-----------------------------------------------------------------------------
(* Methods any thread may call. *)

(* Mutant: queueInLoop() without "|| callingPendingFunctors_". *)
PushFunctorForgetsSelf(t, f) ==
    /\ Len(pendingFunctors) < MaxPending
    /\ pendingFunctors' = Append(pendingFunctors, f)
    /\ caller' = [caller EXCEPT ![t] = IF isInLoopThread(t) THEN "out" ELSE "wakeup"]
    /\ UNCHANGED <<loopVars, ioVars, quit, owed>>

(* pendingFunctors_.push_back(cb) under mutex_, and whether wakeup() is to follow. *)
PushFunctor(t, f) ==
    /\ Len(pendingFunctors) < MaxPending
    /\ pendingFunctors' = Append(pendingFunctors, f)
    /\ caller' = [caller EXCEPT ![t] =
                    IF ~isInLoopThread(t) \/ callingPendingFunctors
                    THEN "wakeup" ELSE "out"]
    /\ UNCHANGED <<loopVars, ioVars, quit, owed>>

QueueInLoop(t, f) == InUserCode(t) /\ PushFunctor(t, f) /\ UNCHANGED unannounced

(* A functor run directly only executes user code, whose calls are the     *)
(* loop thread's own further steps.                                        *)
RunInLoop(t, f) ==
    /\ InUserCode(t)
    /\ \/ isInLoopThread(t) /\ UNCHANGED vars
       \/ ~isInLoopThread(t) /\ PushFunctor(t, f) /\ UNCHANGED unannounced

(* ~Functor of an executed functor: the local vector of                    *)
(* doPendingFunctors() dies after callingPendingFunctors_ was reset.       *)
DestructorQueueInLoop(f) ==
    /\ pc = "checkQuit"
    /\ batch
    /\ caller[LoopThread] = "out"
    /\ PushFunctor(LoopThread, f)
    /\ unannounced' = unannounced + 1

(* Mutant: quit() without wakeup(). *)
QuitSilently(t) ==
    /\ InUserCode(t)
    /\ quit' = TRUE
    /\ owed' = IF Draining THEN owed ELSE Len(functors) + Len(pendingFunctors)
    /\ UNCHANGED <<loopVars, ioVars, pendingFunctors, caller, unannounced>>

Quit(t) ==
    /\ InUserCode(t)
    /\ quit' = TRUE
    /\ caller' = [caller EXCEPT ![t] = IF isInLoopThread(t) THEN "out" ELSE "wakeup"]
    /\ owed' = IF Draining THEN owed ELSE Len(functors) + Len(pendingFunctors)
    /\ UNCHANGED <<loopVars, ioVars, pendingFunctors, unannounced>>

(* The write of 1 to the eventfd; it is non-blocking, so a write to a full *)
(* counter fails and is only logged.                                       *)
Wakeup(t) ==
    /\ caller[t] = "wakeup"
    /\ wakeupFd' = IF wakeupFd < EventfdMax THEN wakeupFd + 1 ELSE wakeupFd
    /\ caller' = [caller EXCEPT ![t] = "out"]
    /\ UNCHANGED <<loopVars, ioReady, revents, quit, pendingFunctors, owed, unannounced>>

-----------------------------------------------------------------------------
(* The loop thread. *)

AtStep(p) == pc = p /\ caller[LoopThread] = "out"

Loop ==
    /\ AtStep("idle")
    /\ looping' = TRUE
    /\ pc' = "prepare"
    /\ UNCHANGED <<ioVars, quit, callingPendingFunctors, pendingFunctors,
                   functors, batch, current, caller, owed, unannounced>>

(* Mutant: the pending functors are copied, not swapped out. *)
CopyPendingFunctors ==
    /\ AtStep("prepare")
    /\ callingPendingFunctors' = TRUE
    /\ functors' = pendingFunctors
    /\ batch' = (pendingFunctors # <<>>)
    /\ pc' = "functors"
    /\ unannounced' = 0
    /\ UNCHANGED <<ioVars, looping, quit, pendingFunctors, current, caller, owed>>

(* doPendingFunctors() up to the swap. *)
DoPendingFunctors ==
    /\ AtStep("prepare")
    /\ callingPendingFunctors' = TRUE
    /\ functors' = pendingFunctors
    /\ batch' = (pendingFunctors # <<>>)
    /\ pendingFunctors' = <<>>
    /\ pc' = "functors"
    /\ unannounced' = 0
    /\ UNCHANGED <<ioVars, looping, quit, current, caller, owed>>

RunFunctor ==
    /\ AtStep("functors")
    /\ current = NoFunctor
    /\ functors # <<>>
    /\ current' = Head(functors)
    /\ functors' = Tail(functors)
    /\ owed' = IF owed > 0 THEN owed - 1 ELSE 0
    /\ UNCHANGED <<ioVars, pc, looping, quit, callingPendingFunctors,
                   pendingFunctors, batch, caller, unannounced>>

EndFunctor ==
    /\ AtStep("functors")
    /\ current # NoFunctor
    /\ current' = NoFunctor
    /\ UNCHANGED <<ioVars, pc, looping, quit, callingPendingFunctors,
                   pendingFunctors, functors, batch, caller, owed, unannounced>>

(* Mutant: the functors that are left are skipped once quit_ is set. *)
FinishFunctorsEarly ==
    /\ AtStep("functors")
    /\ current = NoFunctor
    /\ functors = <<>> \/ quit
    /\ callingPendingFunctors' = FALSE
    /\ functors' = <<>>
    /\ pc' = "checkQuit"
    /\ UNCHANGED <<ioVars, looping, quit, pendingFunctors, batch,
                   current, caller, owed, unannounced>>

(* Mutant: doPendingFunctors() goes on until no functor is waiting. *)
FinishFunctorsRepeats ==
    /\ AtStep("functors")
    /\ current = NoFunctor
    /\ functors = <<>>
    /\ \/ /\ pendingFunctors = <<>>
          /\ callingPendingFunctors' = FALSE
          /\ pc' = "checkQuit"
          /\ UNCHANGED <<functors, pendingFunctors>>
       \/ /\ pendingFunctors # <<>>
          /\ functors' = pendingFunctors
          /\ pendingFunctors' = <<>>
          /\ UNCHANGED <<callingPendingFunctors, pc>>
    /\ UNCHANGED <<ioVars, looping, quit, batch, current, caller, owed, unannounced>>

FinishFunctors ==
    /\ AtStep("functors")
    /\ current = NoFunctor
    /\ functors = <<>>
    /\ callingPendingFunctors' = FALSE
    /\ pc' = "checkQuit"
    /\ UNCHANGED <<ioVars, looping, quit, pendingFunctors, functors, batch,
                   current, caller, owed, unannounced>>

(* The end of prepareCallBack(): break_loop() makes ev_run return before   *)
(* it polls, and loop() resets looping_.                                   *)
CheckQuit ==
    /\ AtStep("checkQuit")
    /\ batch' = FALSE
    /\ \/ quit /\ pc' = "idle" /\ looping' = FALSE
       \/ ~quit /\ pc' = "poll" /\ UNCHANGED looping
    /\ UNCHANGED <<ioVars, quit, callingPendingFunctors, pendingFunctors,
                   functors, current, caller, owed, unannounced>>

Ready == {d \in {"wakeup", "event"} :
            \/ d = "wakeup" /\ wakeupFd > 0
            \/ d = "event" /\ ioReady}

PollReturn ==
    /\ AtStep("poll")
    /\ Ready # {}
    /\ revents' = Ready
    /\ pc' = "dispatch"
    /\ UNCHANGED <<looping, quit, callingPendingFunctors, pendingFunctors,
                   functors, batch, current, wakeupFd, ioReady, caller, owed, unannounced>>

(* Reading an eventfd returns its counter and resets it. *)
HandleRead ==
    /\ AtStep("dispatch")
    /\ "wakeup" \in revents
    /\ wakeupFd' = 0
    /\ revents' = revents \ {"wakeup"}
    /\ UNCHANGED <<loopVars, ioReady, quit, pendingFunctors, caller, owed, unannounced>>

(* Some other channel's or timer's callback: user code, in which the loop  *)
(* thread may call the methods above.                                      *)
BeginEvent ==
    /\ AtStep("dispatch")
    /\ "event" \in revents
    /\ revents' = revents \ {"event"}
    /\ ioReady' = FALSE
    /\ pc' = "event"
    /\ UNCHANGED <<looping, quit, callingPendingFunctors, pendingFunctors,
                   functors, batch, current, wakeupFd, caller, owed, unannounced>>

EndEvent ==
    /\ AtStep("event")
    /\ pc' = "dispatch"
    /\ UNCHANGED <<ioVars, looping, quit, callingPendingFunctors,
                   pendingFunctors, functors, batch, current, caller, owed, unannounced>>

(* ev_run's next iteration. *)
NextIteration ==
    /\ AtStep("dispatch")
    /\ revents = {}
    /\ pc' = "prepare"
    /\ UNCHANGED <<ioVars, looping, quit, callingPendingFunctors,
                   pendingFunctors, functors, batch, current, caller, owed, unannounced>>

(* The environment makes a descriptor ready or a timer expire. *)
EnvEvent ==
    /\ ~ioReady
    /\ ioReady' = TRUE
    /\ UNCHANGED <<loopVars, wakeupFd, revents, quit, pendingFunctors, caller, owed, unannounced>>

-----------------------------------------------------------------------------
LoopStep ==
    \/ DoPendingFunctors \/ RunFunctor \/ EndFunctor \/ FinishFunctors
    \/ CheckQuit \/ PollReturn \/ HandleRead \/ BeginEvent \/ EndEvent
    \/ NextIteration

Next ==
    \/ \E t \in Threads :
          \/ \E f \in Functor : QueueInLoop(t, f) \/ RunInLoop(t, f)
          \/ Quit(t)
          \/ Wakeup(t)
    \/ \E f \in Functor : DestructorQueueInLoop(f)
    \/ Loop
    \/ LoopStep
    \/ EnvEvent

Spec == Init /\ [][Next]_vars

(* A thread that the scheduler runs finishes the call it is in, and the    *)
(* loop thread keeps running its loop: callbacks return, and poll returns  *)
(* when a descriptor is ready.  Nobody has to call anything, no event has  *)
(* to arrive.                                                              *)
Fairness == WF_vars(LoopStep) /\ \A t \in Threads : WF_vars(Wakeup(t))

FairSpec == Spec /\ Fairness

-----------------------------------------------------------------------------
(* Properties. *)

WakeupDue == wakeupFd > 0 \/ \E t \in Threads : caller[t] = "wakeup"

(* queueInLoop() and quit() never leave the loop asleep: whenever a        *)
(* functor was queued after the swap of doPendingFunctors(), or quit_ was  *)
(* set after prepareCallBack() tested it, the eventfd is readable or the   *)
(* write that makes it so is still to come, however the push, the write,   *)
(* the swap, the quit test and the poll interleave.  Only the functors     *)
(* that destructors of functors queued do not count: queueInLoop() writes  *)
(* nothing for them.                                                       *)
NoLostWakeup ==
    /\ /\ pc \in {"functors", "checkQuit", "poll"}
       /\ Len(pendingFunctors) > unannounced
       => WakeupDue
    /\ pc = "poll" /\ quit => WakeupDue

(* What the loop thread's position says of its local state.  Inductive     *)
(* together with TypeOK; the proofs of the other properties rest on it.    *)
PhaseInv ==
    /\ callingPendingFunctors = (pc = "functors")
    /\ looping = (pc # "idle")
    /\ pc # "functors" => functors = <<>> /\ current = NoFunctor

(* How the functors owed to an earlier quit() are spread over the two vectors. *)
OwedInv ==
    /\ owed <= Len(functors) + Len(pendingFunctors)
    /\ pc = "functors" => owed <= Len(functors)
    /\ pc = "checkQuit" => owed = 0

(* A quit() that did not fall inside doPendingFunctors() or before the     *)
(* quit test that follows it lets every functor that was queued before it  *)
(* run before loop() returns ("execute doPendingFunctors() after last      *)
(* iteration").                                                            *)
QuitDrains == [][looping /\ ~looping' => owed = 0]_vars

Waiting(f) == \E i \in 1..Len(pendingFunctors) : pendingFunctors[i] = f

(* A functor that is waiting while the loop runs is eventually executed,   *)
(* unless the loop is told to quit or only destructors queued functors.    *)
FunctorsEventuallyRun ==
    \A f \in Functor :
        /\ looping /\ Waiting(f)
        /\ Len(pendingFunctors) > unannounced
        ~> current = f \/ quit

(* Functors do not starve the channels and the timers: an event that is    *)
(* ready while the loop runs is eventually handled, even if functors queue *)
(* functors for ever, because doPendingFunctors() runs the functors it     *)
(* swapped out and leaves those they queue to the next iteration.          *)
EventsServed == (looping /\ ioReady) ~> (pc = "event" \/ ~looping)

(* quit() ends a running loop, even if functors keep queueing functors and *)
(* events keep arriving.                                                   *)
QuitStops == (quit /\ looping) ~> ~looping

(* The loop is a FIFO queue of functors, each executed once, in spite of   *)
(* the swap of two vectors and of functors that queue functors.            *)
Queue == INSTANCE FunctorQueue WITH queue <- functors \o pendingFunctors,
                                    running <- current
ImplementsFunctorQueue == Queue!Spec
=============================================================================

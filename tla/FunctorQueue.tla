---------------------------- MODULE FunctorQueue ----------------------------
(***************************************************************************)
(* What EventLoop::queueInLoop promises its callers: functors are run one  *)
(* at a time, in the order in which they were queued, each of them once.   *)
(* EventLoop.tla is shown to implement this specification.                 *)
(***************************************************************************)
EXTENDS Sequences

CONSTANTS Functor,    \* the callbacks that may be queued
          NoFunctor   \* "no callback is running"

VARIABLES queue,      \* accepted, not started
          running     \* the callback the loop thread is in, or NoFunctor

vars == <<queue, running>>

Init == queue = <<>> /\ running = NoFunctor

Submit(f) == queue' = Append(queue, f) /\ UNCHANGED running

Start ==
    /\ running = NoFunctor
    /\ queue # <<>>
    /\ running' = Head(queue)
    /\ queue' = Tail(queue)

Finish == running # NoFunctor /\ running' = NoFunctor /\ UNCHANGED queue

Next == (\E f \in Functor : Submit(f)) \/ Start \/ Finish

Spec == Init /\ [][Next]_vars
=============================================================================

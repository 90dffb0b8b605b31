SPECIFICATION FairSpec
CONSTANTS
    Functor = {f1, f2}
    NoFunctor = NoFunctor
    Thread = {t1, t2}
    LoopThread = LoopThread
    MaxPending = 3
    EventfdMax = 2
INVARIANT NoLostWakeup
PROPERTIES ImplementsFunctorQueue QuitDrains FunctorsEventuallyRun EventsServed QuitStops

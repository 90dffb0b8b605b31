SPECIFICATION FairSpec
CONSTANTS
    Addr = {a1, a2}
    User = {u1}
    LoopUser = LoopUser
    MaxTimers = 3
    MaxQueue = 2
INVARIANTS TypeOK HeapSafe CancelIsExact
PROPERTY TimersFire

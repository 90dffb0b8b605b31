SPECIFICATION Spec
CONSTANTS
    Addr = {a1}
    User = {u1}
    LoopUser = LoopUser
    MaxTimers = 1
    MaxQueue = 1
INVARIANT AddTimerReadsItsTimer

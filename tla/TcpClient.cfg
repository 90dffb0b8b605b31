SPECIFICATION FairSpec
CONSTANTS
    User = {u1}
    Fd = {1, 2, 3}
    TimerIds = {1, 2, 3}
    kInitRetryDelay = 2
    kMaxRetryDelay = 3
    MaxConnects = 1
    MaxQueue = 3
CHECK_DEADLOCK FALSE
INVARIANTS TypeOK SocketsOwned Assertions StillTrying NoStaleClient
PROPERTY StopReleases

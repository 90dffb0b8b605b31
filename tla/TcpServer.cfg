SPECIFICATION Spec
CONSTANTS
    MaxThreads = 2
    MaxFds = 3
    MaxBacklog = 2
CHECK_DEADLOCK FALSE
INVARIANTS TypeOK LoopsAlive
PROPERTIES StartAndJoinReturn BacklogServed

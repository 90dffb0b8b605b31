SPECIFICATION Spec
CONSTANTS
    User = {u1}
    IoUser = IoUser
    Message = {m1, m2}
    Nobody = Nobody
    Size = 2
    HighWaterMark = 3
CHECK_DEADLOCK FALSE
INVARIANT ShutdownIsGraceful

SPECIFICATION Spec
CONSTANTS
    kConcurrent = 2
    kMinPiece = 1
    Lengths = {1, 3}
    Requests = {0, 1, 2, 3}
    Fds = {1, 2}
    Channels = {1, 2, 3}
    MaxTimers = 1
INVARIANTS TypeOK Assertions ChannelOutlivesHandler FileWhole
PROPERTIES DownloadEnds
CHECK_DEADLOCK FALSE

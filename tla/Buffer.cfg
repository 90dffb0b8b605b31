SPECIFICATION Spec
CONSTANTS
    Byte = {0, 1}
    Zero = 0
    kCheapPrepend = 1
    kInitialSize = 2
    ExtraBuf = 2
    MaxData = 3
    MaxSize = 7
INVARIANTS TypeOK ActsAsQueue

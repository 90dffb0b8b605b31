SPECIFICATION Spec
CONSTANTS
    Putter = {p1, p2, p3}
    Taker = {c1, c2, c3}
    None = None
    Capacity = 2
    MaxCalls = 5
    MaxSpurious = 1
CHECK_DEADLOCK FALSE
INVARIANTS HolderIsOwner Delivered NoWaiterForgotten
PROPERTY EveryCallReturns

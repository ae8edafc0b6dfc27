SPECIFICATION LatchFairSpec
CONSTANTS
    Waiters = {c1, c2}
    Counters = {k1, k2}
    Count = 1
    Decrements = {1}
    NULL = NULL
    MaxCalls = 1
PROPERTY ExpiredHoldsNobody
CHECK_DEADLOCK FALSE

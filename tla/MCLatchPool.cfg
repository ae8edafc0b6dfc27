SPECIFICATION LatchPoolSpec
CONSTANTS
    Waiters = {c1, c2}
    Counters = {k1, k2}
    Count = 3
    Decrements = {1, 2}
    NULL = NULL
    MaxCalls = 3
    NThreads = 2
    Clients = {x1}
    Tasks = {t1, t2}
    Closers = {s1, s2}
    DTOR = DTOR
    SENTINEL = SENTINEL
    NONE = NONE
    MaxSchedules = 2
INVARIANTS WalkIsSafe PassedMeansExpired CountIsExact TaskInOnePlace NoLostWakeup
PROPERTIES InTimeIsResumed QueuedAheadIsResumed ShutdownEnds
CHECK_DEADLOCK FALSE

SPECIFICATION FairSpec
CONSTANTS
    Reactors = {r1, r2}
    Posts = {p1, p2}
    Closers = {c1}
    Uninitialized = {0, 4}
    InflightModulus = 5
    CountModulus = 8
    SHUTDOWN = SHUTDOWN
INVARIANTS ServedUntilIdle
PROPERTIES AcceptedIsHandled QuietShutdownReturns OnlySleepHangs
CHECK_DEADLOCK FALSE

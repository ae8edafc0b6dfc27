SPECIFICATION FairSpec
CONSTANTS
    Consumers = {c1, c2}
    Setters = {s1, s2}
    SET = SET
    NULL = NULL
    MaxAwaits = 2
    MaxCalls = 4
INVARIANTS NoDanglingWaiter ReferencedOnce
PROPERTIES ImplementsEvent SuspendedWhenSetIsResumed
CHECK_DEADLOCK FALSE

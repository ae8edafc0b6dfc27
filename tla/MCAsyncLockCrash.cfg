SPECIFICATION FairSpec
CONSTANTS
    Coroutines = {c1, c2, c3}
    NOT_LOCKED = NOT_LOCKED
    LOCKED_NO_WAITERS = LOCKED_NO_WAITERS
    NULL = NULL
    WILD = WILD
PROPERTY WaiterGetsLock
CHECK_DEADLOCK FALSE

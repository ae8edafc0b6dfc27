SPECIFICATION Spec
CONSTANTS
    Coroutines = {c1, c2, c3, c4}
    NOT_LOCKED = NOT_LOCKED
    LOCKED_NO_WAITERS = LOCKED_NO_WAITERS
    NULL = NULL
    WILD = WILD
INVARIANTS MutualExclusion WaitingLineIsExact
PROPERTY FifoOrder
CHECK_DEADLOCK FALSE

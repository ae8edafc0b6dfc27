SPECIFICATION FairLookupSpec
CONSTANTS
    k1 = k1
    k2 = k2
    k3 = k3
    k4 = k4
    Keys = {k1, k2, k3, k4}
    Values = {v1, v2}
    DANGLING = DANGLING
    Hash <- HashOfKey
    DEFAULT_INIT_CAPACITY = 16
    MaxCapacity = 8
    MaxItems = 5
    QueueDepth = 3
    Streams = {2}
    KeyLists <- Ranges
    FrameSizes = {1, 2}
    MaxCalls = 2
INVARIANTS TableIsExact StreamsAreExact FramesFit
PROPERTIES ImplementsLossyMap MultilookupReturns
CHECK_DEADLOCK FALSE

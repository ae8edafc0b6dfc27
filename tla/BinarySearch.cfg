SPECIFICATION FairSpec
CONSTANTS
    MaxCount = 3
    NKeys = 3
    Streams = {1, 2}
    QueueDepth = 3
    MaxRepeat = 2
INVARIANTS SearchIsSound FramesRecycled
PROPERTY AllThreeAgree
CHECK_DEADLOCK FALSE

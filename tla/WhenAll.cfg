SPECIFICATION FairSpec
CONSTANTS
    N = 2
    MaxSuspends = 2
INVARIANTS OnlyStolenBreaks CountIsExact ResumedAfterAll
PROPERTY WhenAllEnds
CHECK_DEADLOCK FALSE

SPECIFICATION ReactorsSpec
CONSTANTS
    NCoros = 2
    NTimers = 2
    n_expirations = 3
    Capacity = 5
    BUFFER_SIZE = 2
    max_events = 2
INVARIANTS OnlyMisuseBreaks ResumedByItsTimer JoinedMeansEnded OnlyHangupsBreak
PROPERTIES MainReturns HangupWakesConsumer
CHECK_DEADLOCK FALSE

SPECIFICATION PipeFairSpec
CONSTANTS
    Capacity = 5
    BUFFER_SIZE = 2
    max_events = 2
PROPERTY DataWakesConsumer
CHECK_DEADLOCK FALSE

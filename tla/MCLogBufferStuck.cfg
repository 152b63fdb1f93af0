CONSTANTS
    Threads = {ui, bg}
    UI = ui
    Nobody = nobody
    Capacity = 2
    SinkCapacity = 2
    MaxLines = 4
SPECIFICATION FairSpec
PROPERTY PanicEnds
CHECK_DEADLOCK FALSE

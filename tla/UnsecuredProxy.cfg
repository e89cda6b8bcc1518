SPECIFICATION FairSpec
CONSTANTS
    BufSize = 2
    MaxBytes = 3
    MsgSizes = {1, 3}
    CarHeaders <- AllHeaders
    MaxCar = 2
    QueueCap = 2
INVARIANTS
    LoRelayed
    StreamFramed
CHECK_DEADLOCK FALSE
PROPERTIES
    StreamDrained
    QueuedFrameArrives

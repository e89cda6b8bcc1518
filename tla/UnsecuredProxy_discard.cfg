SPECIFICATION Spec
CONSTANTS
    BufSize = 3
    MaxBytes = 5
    MsgSizes = {1, 3}
    CarHeaders <- OneHeader
    MaxCar = 1
    QueueCap = 2
INVARIANT
    CarTakesAppFrames
CHECK_DEADLOCK FALSE

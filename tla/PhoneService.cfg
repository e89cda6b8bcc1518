SPECIFICATION FairSpec
CONSTANTS
    Devices = {near, far}
    NoDevice = NoDevice
    MaxServices = 2
    MaxAttempts = 3
INVARIANTS
    DialogOfAttempt
    WrongDeviceNeedsAccept
PROPERTY
    DialogGoesAway
CHECK_DEADLOCK FALSE

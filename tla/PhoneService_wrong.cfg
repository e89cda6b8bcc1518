SPECIFICATION Spec
CONSTANTS
    Devices = {near, far}
    NoDevice = NoDevice
    MaxServices = 1
    MaxAttempts = 2
INVARIANT
    ConnectsToGivenDevice
CHECK_DEADLOCK FALSE

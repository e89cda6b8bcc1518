SPECIFICATION Spec
CONSTANTS
    CamInterval = 2
    PosInterval = 2
    ForwardOptions = {TRUE}
    FixOptions = {FALSE}
    MaxStall = 0
    MaxDepth = 12
INVARIANT
    SendsOwnPacket

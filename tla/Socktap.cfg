SPECIFICATION FairSpec
CONSTANTS
    CamInterval = 3
    PosInterval = 2
    ForwardOptions = {TRUE, FALSE}
    FixOptions = {TRUE, FALSE}
    MaxStall = 1
    MaxDepth = 12
INVARIANTS
    NestingBounded
    TimerFollowsQueue
    NoSelfNesting
PROPERTIES
    BeaconsOnAir
    CamsGenerated

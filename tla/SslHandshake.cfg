SPECIFICATION FairSpec
CONSTANTS
    Cap = 4
    HeaderLen = 2
    PacketSize = 6
    Scripts <- AllScripts
INVARIANTS
    PutHasRoom
    NoEarlySuccess
    AlertBeforeReturn
PROPERTY
    HangsOnlyInUnwrapLoop
CHECK_DEADLOCK FALSE

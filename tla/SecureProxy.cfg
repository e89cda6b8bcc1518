SPECIFICATION FairSpec
CONSTANTS
    MaxSessions = 2
    MaxMsgs = 2
    CarHeaders <- OneHeader
    MaxCar = 2
    QueueCap = 1
    ZeroCap = 1
INVARIANTS
    TypeOK
    ZerosNeedAMessage
PROPERTIES
    ImplementsChannels
    HandshakeEnds
CHECK_DEADLOCK FALSE

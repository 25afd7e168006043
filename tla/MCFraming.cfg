SPECIFICATION FairSpec
CONSTANTS
    Base = 2
    LenBytes = 3
    MaxFrame = 3
    MaxData = 4
    NFrames = 2
    Buffer = 6
CHECK_DEADLOCK FALSE
INVARIANTS
    TypeOK
    DeliveredPrefix
PROPERTIES
    SentIsDelivered
    BothEnd

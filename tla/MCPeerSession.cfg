SPECIFICATION FairSpec
CONSTANTS
    PartLen = 2
    Cap = 3
    TimeoutMillis = 2500
    MaxOut = 12
    MaxIn = 1
INVARIANTS
    TypeOK
    Framed
    SendBlockedBounded
    TimeoutIffInCall
PROPERTIES
    ChannelImplemented
    SendEnds
CHECK_DEADLOCK FALSE

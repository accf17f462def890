SPECIFICATION FairSpec
CONSTANTS
    PartLen = 2
    Cap = 3
    TimeoutMillis = 1000
    MaxOut = 12
    MaxIn = 1
PROPERTIES
    RecvEnds
CHECK_DEADLOCK FALSE

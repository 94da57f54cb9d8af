CONSTANTS
    HeaderLen = 2
    SizeLimit = 7
    Capacity = 7
    WireRoom = 4
    DataLens = {0, 2, 8}
    MaxPackets = 3
SPECIFICATION FairSpec
CHECK_DEADLOCK FALSE
INVARIANTS
    TypeOK
    PacketsArriveWhole
PROPERTY PacketsGetThrough

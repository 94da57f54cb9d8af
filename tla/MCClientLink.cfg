CONSTANTS
    MaxLinks = 2
    MaxStarts = 2
    MaxPackets = 2
    MaxDatagrams = 1
    Capacity = 2
    PollMayFail = TRUE
SPECIFICATION FairSpec
CHECK_DEADLOCK FALSE
INVARIANTS
    TypeOK
    ClientsFollowLink
    SocketsAreOwned
PROPERTIES
    KeepsPromise
    TrafficMoves
    ResetsAreNoticed

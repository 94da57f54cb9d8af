CONSTANTS
    MaxConns = 2
    Capacity = 2
    OutCapacity = 1
    PacketLen = 1
    MaxBytes = 1
    MaxSends = 0
    MaxStarts = 2
    Endings = {"reset"}
    PollMayFail = TRUE
    SetupMayFail = TRUE
SPECIFICATION Spec
CHECK_DEADLOCK FALSE
INVARIANTS
    TypeOK
    ClientsFollowConnections
    PollSetMatchesConnections
    EventsKeepTheirConnection
PROPERTIES
    KeepsPromise
    OnlyLookupsLoseEvents

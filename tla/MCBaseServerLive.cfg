CONSTANTS
    MaxConns = 1
    Capacity = 4
    OutCapacity = 1
    PacketLen = 2
    MaxBytes = 5
    MaxSends = 1
    MaxStarts = 1
    Endings = {"closed", "reset"}
    PollMayFail = FALSE
    SetupMayFail = FALSE
SPECIFICATION FairSpec
CHECK_DEADLOCK FALSE
PROPERTIES
    DropsAreJustified
    AskedAreDropped
    PacketsArrive

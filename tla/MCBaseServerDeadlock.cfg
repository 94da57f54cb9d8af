CONSTANTS
    MaxConns = 1
    Capacity = 2
    OutCapacity = 1
    PacketLen = 1
    MaxBytes = 1
    MaxSends = 0
    MaxStarts = 1
    Endings = {"closed"}
    PollMayFail = FALSE
    SetupMayFail = FALSE
SPECIFICATION Spec
CHECK_DEADLOCK FALSE
INVARIANTS
    NeverDeadlocked

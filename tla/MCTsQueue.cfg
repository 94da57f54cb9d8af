CONSTANTS
    Threads = {t1, t2, t3}
    Items = {a, b}
    None = None
    MaxLen = 2
    MaxCalls = 3
SPECIFICATION FairQueueSpec
INVARIANTS
    QueueTypeOK
    WakeupsCoverItems
PROPERTIES
    ImplementsFifo
    StopReleases
    ItemsReachWaiters

CONSTANTS
    Hosts <- MCHosts
    MaxSessions = 2
    MayReturn = TRUE
    MayLose = TRUE
    MayDuplicate = TRUE
SPECIFICATION FairSpec
CHECK_DEADLOCK FALSE
INVARIANTS
    TypeOK
    CacheMatchesClients
    LinksAreAuthentic
PROPERTY AnswersLink

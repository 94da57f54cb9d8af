CONSTANTS
    Groups = {"A"}
    Systems = {"move"}
    Branches <- MCBranches
    Queries = {"find"}
    Pools = {ship, shot}
    Matches <- MCMatches
    Hooked = {"DEBUG"}
    Steps = {0, 2}
    FrameTimes = {3}
    MaxTime = 6
    MayRetry = FALSE
SPECIFICATION Spec
CHECK_DEADLOCK FALSE
SYMMETRY PoolSymmetry
INVARIANTS
    TypeOK
    QueriesMatchPools
    GroupsRunWhereAsked
    TimeAddsUp

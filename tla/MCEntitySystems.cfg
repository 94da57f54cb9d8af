CONSTANTS
    NumPools = 2
    PoolName <- MCPoolName
    ChunkSize <- MCChunkSize
    PoolIdRange = 256
    Statuses = {0, 3}
    CreatedAs = {3}
    Data = {0, 1, 2}
    MaxChunks = 2
    MaxBatch = 2
    Systems = {"timers", "animate"}
    Watched <- MCWatched
    Query <- MCQuery
    Operate <- MCOperate
SPECIFICATION SystemsSpec
INVARIANTS TypeOK FreeListsSound HandlesAndEntitiesPaired FreeSlotsAreFree
PROPERTIES ImplementsEntityTable EntitiesStartAnew

CONSTANTS
    ship = ship
    shot = shot
    wall = wall
    Walked <- MCPools
    Chunks <- MCChunks
    Walks <- MCWalks
SPECIFICATION WalkSpec
CHECK_DEADLOCK FALSE
INVARIANT NobodyIsMissed

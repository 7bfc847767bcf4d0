SPECIFICATION FairSpec
CONSTANTS
    Conns = {1, 2}
    Superblock = 2
    Checkpoint = 3
    Lag = 1
    MaxBatch = 2
    MaxTries = 2
    Past <- MCPast
    Load <- MCLoad
    MaxFaults = 1
INVARIANTS
    FollowsLeader
    StopsAtBoundary
PROPERTIES
    ShutdownEnds
CHECK_DEADLOCK FALSE

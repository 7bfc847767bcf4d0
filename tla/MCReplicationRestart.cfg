SPECIFICATION Spec
CONSTANTS
    Conns = {1, 2}
    Superblock = 2
    Checkpoint = 3
    Lag = 1
    MaxBatch = 1
    MaxTries = 2
    Past <- MCPast
    Load <- MCLoad
    MaxFaults = 2
INVARIANTS
    PositionSuffices
CHECK_DEADLOCK FALSE

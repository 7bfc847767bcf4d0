SPECIFICATION Spec
CONSTANTS
    k1 = k1
    k2 = k2
    k3 = k3
    p1 = p1
    p2 = p2
    x1 = x1
    x2 = x2
    Nobody = Nobody
    Key <- MCKey
    Owner <- MCOwner
    Executor <- MCExecutor
    Units = {1, 2}
    Images <- MCImages
    STORAGE_CAPACITY = 5
    STORAGE_BLOCK = 2
    MIN_REMAINDER = 1
    MaxBatch = 1
    MaxWrites = 4
    MaxFaults = 1
SYMMETRY MCSymmetry
INVARIANTS
    SpansPartition
    PersistentReturnsStored
    OwnersMatch
CHECK_DEADLOCK FALSE

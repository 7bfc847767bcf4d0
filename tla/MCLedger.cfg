SPECIFICATION LedgersSpec
CONSTANTS
    t1 = t1
    r1 = r1
    NoWorker = NoWorker
    Signature <- MCSignature
    Reader <- MCReader
    MaxHead = 2
    EventKinds = {"transaction", "execution", "block", "superblock"}
    MaxEvents = 4
    MaxFaults = 1
    APPENDER_QUEUE_CAPACITY = 1
    INDEXER_QUEUE_CAPACITY = 2
    FILE_BUFFER_SIZE = 2
    SIZE_CHECK_FREQUENCY = 1
    MaxSlot = 3
    MaxTx = 3
    MaxId = 2
    Mentions = {1, 3}
    Limits = {0, 1, 2}
    MaxRaces = 1
INVARIANTS
    LookupSound
    QueriesAnswer
CHECK_DEADLOCK FALSE

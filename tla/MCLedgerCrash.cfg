SPECIFICATION FairSpec
CONSTANTS
    t1 = t1
    NoWorker = NoWorker
    Signature <- MCOneSignature
    Reader <- MCNoReader
    MaxHead = 2
    EventKinds = {"transaction", "execution", "block", "superblock", "reset",
                  "checkpoint", "sync", "closed"}
    MaxEvents = 4
    MaxFaults = 1
    APPENDER_QUEUE_CAPACITY = 1
    INDEXER_QUEUE_CAPACITY = 2
    FILE_BUFFER_SIZE = 2
    SIZE_CHECK_FREQUENCY = 1
INVARIANTS
    HistorySurvives
PROPERTIES
    PublishedNeverChanges
    SealCompletes
CHECK_DEADLOCK FALSE

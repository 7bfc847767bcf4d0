CONSTANTS
    a = a
    b = b
    Account <- MCAccount
    Request <- MCRequest
    MaxRegistered = 2
    Executors = {0, 1}
    PerExecutor = 2
    ChannelSize = 2
    MaxTxns = 2
    MaxBoundaries = 1
    MaxSimulations = 1
SPECIFICATION FairSpec
INVARIANTS
    QuiescentWhilePaused
PROPERTIES
    StreamIsServed

CONSTANTS
    a = a
    b = b
    Account <- MCAccount
    Request <- MCRequest
    MaxRegistered = 3
    Executors = {0, 1}
    PerExecutor = 2
    ChannelSize = 2
    MaxTxns = 3
    MaxBoundaries = 2
    MaxSimulations = 0
SPECIFICATION Spec
INVARIANTS
    TableInv
    ExecutionIsSerial
    BlocksAreExact
PROPERTIES
    TableSpec

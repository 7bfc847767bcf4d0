SPECIFICATION Spec
CONSTANTS
    Txs = {t1, t2}
    Receivers = {r1, r2}
    BlockTtl = 2
    SignatureTtl = 2
    EvictionLimit = 1
    Superblock = 1
    Named = {0, 1}
    Accounts <- MCAccounts
    Calls = {c1, c2}
    Capacity = 1
    Images <- MCImages
    Requests <- MCRequests
    Workload <- MCWorkload
    t1 = t1
    t2 = t2
    r1 = r1
    r2 = r2
    Work = {w1, w2}
    Quiet = {w2}
    SealEvery = 1
    MaxBlock = 2
    MaxOpens = 3
    client = client
    sequencer = sequencer
    appender = appender
    NoService = NoService
    Service <- MCService
    TierOf <- MCTierOf
INVARIANTS
    OpenedIsConsistent
CHECK_DEADLOCK FALSE

SPECIFICATION ExecutionSpec
CONSTANTS
    Keys <- MCKeys
    MaxStack = 3
    MaxTrace = 6
    MaxCpis = 2
    MaxData = 2
    MaxGrowth = 1
    RentPerByte = 1
    MaxIncrease = 1
    Derived <- MCDerived
    Elf <- MCElf
    Root = "root"
    Payer = "pay"
    AuthorityKey = "pay"
    Stores <- MCStores
    Streams <- MCStreams
    Builtins <- MCBuiltins
    CpiIxs <- MCCpiIxs
    RootIxs <- MCRootIxs
    Balances = {0, 2}
    RelaxRent = TRUE
    Radix = 4
    TopMax = 3
    SigLen = 1
    KeyLen = 1
    HashLen = 1
    WordLen = 2
    MaxSigs = 2
    MaxPacketKeys = 3
    MaxAtls = 2
    MaxSize <- MCMaxSize
    MaxLocks <- MCMaxLocks
    MaxIxs <- MCMaxIxs
    MaxIxAccounts = 2
    Heaps = {8}
    Loader <- MCLoader
    Sent <- MCSent
    Companion <- MCCompanion
    Wires <- MCWires
    EngineKey <- MCEngineKey
    IxAccounts <- MCIxAccounts
    Increase = 10240
    InputStart = 4096
    DataLen = 3
CHECK_DEADLOCK FALSE
INVARIANTS
    BookkeepingIsExact
    CommitRespectsAccess
    AuthorityIsScoped
    CacheMatchesStore
    FramesRebuild
    SubmittedIsSigned
    AccessIsExact
    ParametersAgree
PROPERTY
    OwnerWrites

CONSTANTS
    Thread = {t1, t2, t3}
    NoThread = NoThread
    MaxDepth = 2
    BufferSize = 1
    MaxPauses = 2
SPECIFICATION FairSpec
INVARIANTS
    RelocationIsExclusive
PROPERTIES
    ReadersProgress

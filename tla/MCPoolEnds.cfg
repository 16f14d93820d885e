CONSTANTS
    wide = wide
    narrow = narrow
    Thread = {t1, t2, t3}
    Client = {c1, c2, c3}
    Config = {wide, narrow}
    Limit <- WideThenNarrow
    Batches <- BothConfigs
    Jobs = 3
    ThreadCount = 2
    None = None
SPECIFICATION FairSpec
INVARIANTS
    TypeOK
    ClientsExclusive
    SessionsWithinThreadCount
    ThreadsWithinLimit
    ActiveCounts
    SessionsOfCurrentConfig
PROPERTIES
    EndsUnlessStuck

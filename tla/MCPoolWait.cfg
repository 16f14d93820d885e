CONSTANTS
    wide = wide
    narrow = narrow
    Thread = {t1, t2, t3}
    Client = {c1, c2, c3}
    Config = {wide}
    Limit <- OneEach
    Batches <- OneFolder
    Jobs = 2
    ThreadCount = 2
    None = None
SPECIFICATION FairSpec
PROPERTIES
    WaitEndsAfterJob

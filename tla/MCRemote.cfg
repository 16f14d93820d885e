CONSTANTS
    Inputs <- AllInputs
    AccountPage = 2
    StoragePage = 2
    SafetyLimit = 3
    Field = {"balance", "code"}
    AnyValue = AnyValue
SPECIFICATION FairSpec
CHECK_DEADLOCK FALSE
INVARIANTS
    TypeOK
    WholeStateRead
    EndlessOnlyIfLarge
    VerdictExact
PROPERTIES
    ReadingEnds

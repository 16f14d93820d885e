CONSTANTS
    Table <- ForkTable
    Hash <- TableHash
    Genesis = "g"
    ParentOf <- TableParentOf
    NumberOf <- TableNumberOf
    DifficultyOf <- TableDifficultyOf
    UnclesOf <- TableUnclesOf
    HeaderOK <- TableHeaderOK
    Ancestors <- TableAncestors
    TotalOf <- TableTotalOf
    MaxChains = 2
SPECIFICATION Spec
INVARIANTS
    TypeOK
    ChainsLinked
    TotalsAgree
    PendingFits
    AcceptsEveryValidBlock
PROPERTIES
    FailedImportKeepsTree
    RefinesBlockTree

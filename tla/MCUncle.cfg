CONSTANTS
    Table <- UncleTable
    Hash <- TableHash
    Genesis = "g"
    ParentOf <- TableParentOf
    NumberOf <- TableNumberOf
    DifficultyOf <- TableDifficultyOf
    UnclesOf <- TableUnclesOf
    HeaderOK <- TableHeaderOK
    Ancestors <- TableAncestors
    TotalOf <- TableTotalOf
    MaxChains = 1
SPECIFICATION Spec
INVARIANTS
    UnclesSound
    AcceptsEveryValidBlock

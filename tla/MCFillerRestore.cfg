CONSTANTS
    Hash <- PathHash
    Genesis <- Root
    ParentOf <- PathParent
    NumberOf <- PathNumber
    DifficultyOf <- PathDifficulty
    UnclesOf <- PathUncles
    HeaderOK <- PathHeaderOK
    Ancestors <- PathAncestors
    TotalOf <- PathTotal
    MaxChains = 4
    Name <- Names
    DefaultName = "A"
    NetOf <- Nets
    Kind <- Kinds
    RawKinds = {"r"}
    TweakKinds = {"t", "x", "w"}
    MinedKind = "p"
    UncleKinds = {"i"}
    CandidateKind = "u"
    ChangedKind = "v"
    NoHeader = NoHeader
    BadOn <- BadNets
    ChildOf <- Child
    FillerBlocks <- RestoreBlocks
    MaxBlocks = 3
    Depth = 3
SPECIFICATION FillerSpec
INVARIANTS
    ClientIsRestored

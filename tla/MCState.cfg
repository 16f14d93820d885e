SPECIFICATION Spec
CONSTANTS
    Fork = {"Cancun", "London", "Prague", "Shanghai"}
    ForkRank <- MCForkRank
    NoEmptyPre = {"Cancun", "Prague", "Shanghai"}
    DropForks = {"Cancun"}
    SystemOf <- MCSystemOf
    Tx = {"call", "blob"}
    BlobFee <- MCBlobFee
    BlobPrice <- MCBlobPrice
    Exceptions = {"type", "blob fee"}
    LowBlobFee = "blob fee"
    Rejects <- MCRejects
    TxGas = 1
    Fillers <- MCFillers
    Commands <- MCCommands
    MaxCommands = 3
INVARIANTS TypeOK ExecutedAlone JudgedRight NothingMissed SystemAccountsFit UncoveredIsMarked
PROPERTY FilledTestPasses
CHECK_DEADLOCK FALSE

SPECIFICATION Spec
CONSTANTS
    ByteBits = 2
    Bytes = 4
    LtcChainId = 5
    WordBits = 5
    MaxDepth = 2
    PowLimit <- MCPowLimit
    Wide = 20
    MaxValue = 5
    MaxBranch = 2
    MaxHeight = 4
    MaxReorgs = 1
    MaxConf = 2
    Checkpoint <- MCCheckpoint
    PageSize = 2
    MaxPages = 2
    MaxHistory = 5
    DefaultLimit = 2
    MaxLimit = 4
    MaxRange = 10
    MaxU64 = 20
INVARIANT FilterKeepsGroups
CHECK_DEADLOCK FALSE

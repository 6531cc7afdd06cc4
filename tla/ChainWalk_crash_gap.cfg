SPECIFICATION CrashSpec
CONSTANTS
    g = g
    a1 = a1
    a2 = a2
    a3 = a3
    b2 = b2
    b3 = b3
    b4 = b4
    c1 = c1
    c2 = c2
    c3 = c3
    c4 = c4
    c5 = c5
    NoBlock = NoBlock
    Block <- MCBlock
    Chain <- MCChain
    Tip <- MCTip
    BlockOf <- MCBlockOf
    Prev <- MCPrev
    MaxHeight <- MCMaxHeight
    StartHeight = 0
    MaxBatch = 2
    MaxKept = 0
    Faults = {}
INVARIANTS
    StoredBlocksLinked

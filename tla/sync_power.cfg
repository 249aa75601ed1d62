SPECIFICATION Spec
CONSTANTS
    NoBlock = NoBlock
    NoKey = NoKey
    g = g  s = s  a2 = a2  a3 = a3  x4 = x4  x5 = x5  b2 = b2  b3 = b3  k1 = k1  k2 = k2
    Blocks <- MCBlocks
    Genesis = g
    Parent <- MCParent
    Height <- MCHeight
    ChainWork <- MCChainWork
    Ancestry <- MCAncestry
    InvalidBlocks = {x4}
    Hardened = {g, s}
    Signed = {s, a2, a3, x5, b2, b3}
    MasterKeys = {k1}
    Modes = {"advisory", "enforce", "master"}
    nCheckpointDepth = 1
    FlushModes = {TRUE}
    CrashPoints = {"init", "run"}
    PowerLoss = TRUE
INVARIANTS
    RelaysAccepted
    PendingIsMissing
    CheckIsRight
PROPERTIES
    OnlyDescendants

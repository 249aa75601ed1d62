SPECIFICATION DownloadSpec
CONSTANTS
    n = n  A = A  B = B
    Blocks <- MCBlocks
    Genesis = "g"
    NoBlock = "none"
    Parent <- MCParent
    Height <- MCHeight
    ChainWork <- MCChainWork
    Ancestry <- MCAncestry
    Nodes = {n, A, B}
    Links <- MCOneLink
    Flaky = {}
    Tip <- MCTipOfPeer
    Found = {}
    Limit = 1
    RelayDepth = 2
    nBlockEstimate = 1
    MaxBreaks = 0
PROPERTIES
    EventuallySynced

SPECIFICATION DownloadSpec
CONSTANTS
    n = n  A = A  B = B
    Blocks <- MCBlocks
    Genesis = "g"
    NoBlock = "none"
    Parent <- MCParent
    Height <- MCHeight
    ChainWork <- MCChainWork
    Ancestry <- MCAncestry
    Nodes = {n, A, B}
    Links <- MCLinks
    Flaky <- MCFlaky
    Tip <- MCTip
    Found <- MCFound
    Limit = 2
    RelayDepth = 2
    nBlockEstimate = 1
    MaxBreaks = 1
INVARIANTS
    AnnouncedIsNotForgotten
PROPERTIES
    EventuallySynced

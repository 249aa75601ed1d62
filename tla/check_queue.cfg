SPECIFICATION FairSpec
CONSTANTS
    Master = Master
    Workers = {w1, w2}
    Checks = {bad, k1, k2, k3, k4}
    BadChecks = {bad}
    nBatchSize = 2
INVARIANTS
    ControlAsserts
    VerdictIsRight
PROPERTIES
    WaitReturns

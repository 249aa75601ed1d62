SPECIFICATION Spec
CONSTANTS
    a = a  m1 = m1  m2 = m2
    Memory = {m1, m2}
    Addrs = {a}
    Openers = {"opencon", "addcon"}
    Candidates <- MCCandidates
    Seeds = {a}
    MaxOutbound = 2
    MaxInbound = 1
    NULL = NULL
    Freed = Freed
    Contested = Contested
INVARIANTS
    SlotsConserved
    HeldNodesExist
    PoolCountsHolders
SYMMETRY Symmetry

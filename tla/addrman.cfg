SPECIFICATION Spec
CONSTANTS
    a1 = a1  b2 = b2  b1 = b1  c1 = c1  p = p  q = q
    Services = {a1, b1, b2, c1}
    Ip <- MCIp
    Sources = {p, q}
    Told <- MCTold
    IsRoutable = {a1, b1, b2, c1}
    NewBuckets = {"n1", "n2"}
    TriedBuckets = {"t1"}
    NewBucketOf <- MCNewBucketOf
    TriedBucketOf <- MCTriedBucketOf
    NewBucketSize = 2
    TriedBucketSize = 1
    NewBucketsPerAddress = 2
    TriedInspect = 2
    Retries = 1
    MaxFailures = 1
    HorizonDays = 1
    MinFailDays = 1
    GetAddrPct = 34
    Penalties = {0}
    Minute = 0
    Hour = 1
    Day = 1
    MaxTime = 2
    MaxId = 3
INVARIANTS
    Consistent
    SavedIsLoaded
PROPERTIES
    TriedStays
SYMMETRY Symmetry

SPECIFICATION FairSpec
CONSTANTS
    Callers = {c1, c2, c3}
    Authorities = {a1}
    Calls = {k1, k2}
    Buffer = 1
    MaxTime = 2
    MaxDelay = 1
    None = None
INVARIANTS
    WaitersExact
    NobodyWaitsForCanceled
    OneLiveFetch
    AbandonedNotCached
PROPERTIES
    CacheKeptWhileFresh
    ServedUnexpired
    WaiterReturns
    AbandonedWorkEnds

SPECIFICATION FairSpec
CONSTANTS
    w1 = w1
    w2 = w2
    w3 = w3
    h1 = h1
    h2 = h2
    Workers = {w1, w2, w3}
    Handles = {h1, h2}
    HandleOf <- MCHandleOf
    Missing = Missing
    Torn = Torn
    MaxCalls = 2
    MayHang = {w1, w3}
    None = None
INVARIANT NeverTorn
INVARIANT LockExclusive
INVARIANT TempsRemoved
PROPERTY ImplementsAtomicStore
PROPERTY LockPasses
PROPERTY CanceledEnds

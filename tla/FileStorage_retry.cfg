SPECIFICATION Spec
CONSTANTS
    w1 = w1
    w2 = w2
    w3 = w3
    h1 = h1
    h2 = h2
    Workers = {w1, w3}
    Handles = {h1, h2}
    HandleOf <- MCHandleOf
    Missing = Missing
    Torn = Torn
    MaxCalls = 3
    MayHang = {}
    None = None
INVARIANT AckedDurable

SPECIFICATION EngineSpec
CONSTANTS
    p1 = p1
    Providers = {p1}
    Callers = {c1, c2}
    ProviderOf <- OneProvider
    Tokens = {t1, t2, t3}
    CallIds = {k1, k2}
    Sources = {"managed", "static", "custom"}
    OptionToken = OptionToken
    MaxLapses = 1
    LegacyFile = FALSE
    None = None
SYMMETRY Symmetry
INVARIANTS
    EngineTypeOK
    SingleFlight
    DecisionExclusive
    NoSecondRotation
    SentOnce
    ReplayWithAnotherToken
    RotationJustified
    ReturnedWasStored
    SessionNotResurrected
    RotationAccounted

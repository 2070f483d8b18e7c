SPECIFICATION Spec
CONSTANTS
    p1 = p1
    Providers = {p1}
    Callers = {c1, c2}
    ProviderOf <- OneProvider
    Tokens = {t1, t2, t3}
    CallIds = {k1, k2}
    LegacyFile = TRUE
    None = None
INVARIANTS
    RotationAccounted

SPECIFICATION Spec
CONSTANTS
    MaxUint64 = 20
    Kind = "memory"
    None = None
    Flows = {f1, f2}
    Codes = {d1, d2}
    Tokens = {t1, t2}
    LegacyFile = FALSE
    MaxTurns = 2
PROPERTIES
    LogoutRevokesWhatItClears

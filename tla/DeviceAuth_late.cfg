SPECIFICATION Spec
CONSTANTS
    MaxUint64 = 20
    Kind = "file"
    None = None
    Flows = {f1, f2}
    Codes = {d1, d2}
    Tokens = {t1}
    LegacyFile = FALSE
    MaxTurns = 3
PROPERTIES
    FailedInitiationKeepsPending

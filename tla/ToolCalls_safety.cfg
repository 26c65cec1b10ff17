SPECIFICATION Spec
CONSTANTS
    r = r
    w = w
    p = p
    e = e
    Reads = {r}
    Writes = {w}
    Processes = {p}
    Externals = {e}
    Opaque = {}
    Targets = 2
    MaxCalls = 2
    MaxCrashes = 1
    MaxEdits = 1
CHECK_DEADLOCK FALSE
INVARIANTS
    StartedAtMostOnce
    SettledIsOver
    SuccessIsReal
    ToldIsDurable
PROPERTIES
    SettlementFinal

SPECIFICATION Spec
CONSTANTS
    r = r
    w = w
    p = p
    e = e
    Reads = {r}
    Writes = {}
    Processes = {p}
    Externals = {}
    Opaque = {}
    Targets = 2
    MaxCalls = 2
    MaxCrashes = 1
    MaxEdits = 0
CHECK_DEADLOCK FALSE
PROPERTIES
    ReconciliationEnds

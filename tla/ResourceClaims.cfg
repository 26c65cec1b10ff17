SPECIFICATION Spec
CONSTANTS
    p1 = p1
    p2 = p2
    c1 = c1
    c2 = c2
    Procs = {p1, p2}
    Ids = {c1, c2}
    MaxMisses = 1
    Requests <- MCRequests
CHECK_DEADLOCK FALSE
INVARIANTS
    NoConflict
    WorkersKeepClaims
PROPERTIES
    OneEnd
    AbandonedRecovered

SPECIFICATION Spec
CONSTANTS
    t1 = t1
    t2 = t2
    Tasks = {t1, t2}
    Order <- MCOrder
    Deps <- MCDeps
    Verified = {t2}
    RetryFailed = TRUE
    MaxParallel = 2
    MaxDispatches = 3
    MaxStarts = 3
    MaxEdits = 1
CHECK_DEADLOCK FALSE
INVARIANTS
    CompletedRunIsDelivered
    MergedOnce
    PassedIsApproved
    WorkIsKept

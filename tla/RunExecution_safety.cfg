SPECIFICATION Spec
CONSTANTS
    t1 = t1
    t2 = t2
    NoTask = NoTask
    NoWrite = NoWrite
    Tasks <- MCTasks
    Order <- MCOrder
    Deps <- MCDeps
    MaxRevisions = 1
    MaxNoChange = 0
    ExhaustedPolicies = {"manual-review", "stop"}
    FailFast = FALSE
    MaxFaults = 2
    MaxEdits = 1
INVARIANTS
    TypeOK
    NoSelectionWhilePending
    CompletedIsLicensed
    CommittedAgrees
    PendingIsCommittable
    AttemptsAreOrdered
PROPERTIES
    MarkersAdvance

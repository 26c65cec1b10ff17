SPECIFICATION FairSpec
CONSTANTS
    t1 = t1
    t2 = t2
    NoTask = NoTask
    NoWrite = NoWrite
    Tasks <- MCTasks
    Order <- MCOrder
    Deps <- MCDeps
    MaxRevisions = 1
    MaxNoChange = 1
    ExhaustedPolicies = {"manual-review", "fail", "stop"}
    FailFast = FALSE
    MaxFaults = 2
    MaxEdits = 0
PROPERTIES
    PendingCommits
    InvocationEnds

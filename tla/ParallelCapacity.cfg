SPECIFICATION FairSpec
CONSTANTS
    a1 = a1
    b1 = b1
    t1 = t1
    t2 = t2
    projectA = projectA
    projectB = projectB
    free = free
    limited = limited
    m = m
    Procs = {a1, b1}
    Project <- MCProject
    Tasks <- MCTasks
    GraphOrder <- MCGraphOrder
    Provider <- MCProvider
    Model <- MCModel
    MaxGlobal <- MCMaxGlobal
    MaxProject <- MCMaxProject
    MaxByProvider <- MCMaxByProvider
    MaxByModel <- MCUnlimited
    RowIds = {1, 2, 3}
CHECK_DEADLOCK FALSE
INVARIANTS
    IdleHoldsNothing
    StartedOwns
    ProcessesBounded
PROPERTY
    WaveTerminates

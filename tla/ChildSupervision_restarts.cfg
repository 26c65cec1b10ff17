SPECIFICATION Spec
CONSTANTS
    HeartbeatGrace = 1
    QuietAfter = 1
    SlowAfter = 1
    SuspectAfter = 1
    HardTimeout = 2
    Confirmations = 2
    Action = "restart-attempt"
    MaxRestarts = 1
    MaxSessions = 2
    MaxInvocations = 2
    MaxQueue = 1
INVARIANTS
    RestartsBounded
    OneCoordinator
CHECK_DEADLOCK FALSE

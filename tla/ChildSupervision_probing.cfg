SPECIFICATION Spec
CONSTANTS
    HeartbeatGrace = 1
    QuietAfter = 1
    SlowAfter = 1
    SuspectAfter = 1
    HardTimeout = 2
    Confirmations = 3
    Action = "restart-attempt"
    MaxRestarts = 1
    MaxSessions = 1
    MaxInvocations = 1
    MaxQueue = 1
INVARIANTS
    SuspectKeepsProbing
CHECK_DEADLOCK FALSE

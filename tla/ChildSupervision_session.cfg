SPECIFICATION LiveSpec
CONSTANTS
    HeartbeatGrace = 1
    QuietAfter = 1
    SlowAfter = 2
    SuspectAfter = 2
    HardTimeout = 3
    Confirmations = 2
    Action = "restart-attempt"
    MaxRestarts = 1
    MaxSessions = 1
    MaxInvocations = 1
    MaxQueue = 1
INVARIANTS
    TransitionsLegal
    HardKillConfirmed
PROPERTIES
    StuckSessionEnds
CHECK_DEADLOCK FALSE

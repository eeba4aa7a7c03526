CONSTANTS
    Follower = {f1, f2}
    HeartbeatPeriod = 4
    HandleTime = 14
    ElectionTimeout = 20
    MaxDelay = 2
    FirstLength = 2
    MaxLength = 4
    MaxInFlight = 2
    MaxCuts = 2
SPECIFICATION Spec
INVARIANTS TypeOK HeardInTime
CHECK_DEADLOCK FALSE

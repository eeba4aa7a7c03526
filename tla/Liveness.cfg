CONSTANTS
    Server = {s0, s1, s2}
    DefaultLeader = s0
    Request = {r1}
    Starters = {s1, s2}
    None = None
    MaxTerm = 1
    MaxInFlight = 3
    MaxLosses = 2
SPECIFICATION LiveSpec
PROPERTIES WaitingEnds AllExecute 
CHECK_DEADLOCK FALSE

CONSTANTS
    s0 = s0
    s1 = s1
    s2 = s2
    Server = {s0, s1, s2}
    DefaultLeader = s0
    Request = {}
    Starters = {s0, s1, s2}
    None = None
    MaxTerm = 1
    MaxInFlight = 1
    MaxRestarts = 1
SPECIFICATION CrashSpec
SYMMETRY Symmetry
INVARIANT ElectionSafety
CHECK_DEADLOCK FALSE

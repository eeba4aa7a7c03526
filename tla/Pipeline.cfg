CONSTANTS
    s0 = s0
    s1 = s1
    s2 = s2
    r1 = r1
    r2 = r2
    Server = {s0, s1, s2}
    DefaultLeader = s0
    Request = {r1, r2}
    Starters = {s1}
    None = None
    MaxTerm = 1
    MaxInFlight = 2
SPECIFICATION Spec
SYMMETRY Symmetry
INVARIANTS LogMatching TableMatchesChain
PROPERTY OneLedgerForAll
CHECK_DEADLOCK FALSE

CONSTANTS
    s0 = s0
    s1 = s1
    s2 = s2
    r1 = r1
    r2 = r2
    r3 = r3
    Old = s1
    New = s2
    Orphan = r1
    Kept = r2
    Server = {s0, s1, s2}
    DefaultLeader = s0
    Request = {r1, r2, r3}
    Starters = {s0, s1}
    None = None
    MaxTerm = 3
    MaxInFlight = 1
SPECIFICATION DeposedSpec
INVARIANTS TablesAgree LeaderCompleteness
PROPERTIES CommittedStays OneLedgerSteps
CHECK_DEADLOCK FALSE

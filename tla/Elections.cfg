CONSTANTS
    s0 = s0
    s1 = s1
    s2 = s2
    s3 = s3
    r1 = r1
    Server = {s0, s1, s2, s3}
    DefaultLeader = s0
    Request = {r1}
    Starters = {s1, s2}
    None = None
    MaxTerm = 1
    MaxInFlight = 1
SPECIFICATION Spec
SYMMETRY Symmetry
INVARIANTS TypeInv ElectionInv ElectionSafety
CHECK_DEADLOCK FALSE

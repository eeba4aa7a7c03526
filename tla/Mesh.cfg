SPECIFICATION FairSpec
CONSTANTS
    Replica = {r1, r2}
    Fd = {1, 2, 3}
    None = None
    Sender = {r1}
    MaxConns = 3
    MaxSent = 3
    MaxToggles = 1
INVARIANTS TypeOK SocketsApart OneStrayPerLoss
PROPERTIES  Answered Delivered
CHECK_DEADLOCK FALSE

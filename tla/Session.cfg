CONSTANTS
    Client = {c1}
    Server = {s0, s1}
    DefaultLeader = s0
    None = None
    Kinds = {"TRANSACTION", "BALANCE"}
    MaxCommands = 2
    MaxElections = 2
    MaxRestarts = 1
SPECIFICATION Spec
INVARIANTS TypeOK 
 
CHECK_DEADLOCK FALSE

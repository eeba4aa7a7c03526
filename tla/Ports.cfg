CONSTANTS
    Client = {c1, c2}
    Fd = {1, 2, 3, 4}
    MaxConns = 4
    MaxAnswers = 2
SPECIFICATION FairSpec
INVARIANTS TypeOK  ReadersApart
PROPERTIES BacklogMoves DeathIsNoticed
CHECK_DEADLOCK FALSE

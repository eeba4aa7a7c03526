SPECIFICATION Spec
CONSTANTS
    Block = {b1, b2, b3}
    IndexLimit = 1
    MaxLength = 3
    MaxCrashes = 2
    Unreadable = Unreadable
    Garbage = Garbage
INVARIANTS TypeOK FilePrefix SavedWhenIdle TableCoversIndex RepeatsPerCrash
CHECK_DEADLOCK FALSE

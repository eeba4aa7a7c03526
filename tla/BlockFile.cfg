CONSTANTS
    Terms = {9, 10}
    Amounts = {0, 16672}
    Digits = 4
    MaxLength = 3
    MaxEntries = 2
    Indices = {0, 10, 9999}
SPECIFICATION Spec
INVARIANTS ReadsBack  OverwriteIsSafe

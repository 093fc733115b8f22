CONSTANTS
    Rows = 2
    Cols = 4
    TRUST_SIGIL_WIDTH = 1
    MaxText = 5
    MaxOps = 2
SPECIFICATION Spec
INVARIANT PasteGivesBack
PROPERTIES PairsKept StatusKept
CHECK_DEADLOCK FALSE

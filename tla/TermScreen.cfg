CONSTANTS
    MaxRows = 3
    MaxCols = 4
    SaveSizes = {0, 2}
    MaxOps = 3
    ScrollOnDisp = TRUE
    ScrollOnKey = TRUE
SPECIFICATION Spec
INVARIANTS InsideWindow ScrollbackBounded ResizeRoundTrip
PROPERTIES ViewKept AlternateIsolated
CHECK_DEADLOCK FALSE

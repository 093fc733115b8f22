CONSTANTS
    Downs = {d1, d2, d3}
    Ports = {p1, p2}
    MaxUpId = 0
    MaxSrvId = 1
    MaxOps = 4
    None = None
SPECIFICATION Spec
SYMMETRY Symm
INVARIANTS NeverMisrouted NothingLeftBehind GentleIsSafe
PROPERTY GoneIsFreed
CHECK_DEADLOCK FALSE

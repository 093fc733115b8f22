CONSTANTS
    Downs = {d1, d2}
    Ports = {p1, p2}
    MaxUpId = 1
    MaxSrvId = 1
    MaxOps = 2
    None = None
SPECIFICATION Spec
SYMMETRY Symm
INVARIANT ServerContent
CHECK_DEADLOCK FALSE

SPECIFICATION Spec
CONSTANTS
  Proc = {p1, p2}
  Calls = {c1, c2}
  Users = {u1}
  ValidUser = u2
  MaxLocks = 1
CONSTRAINTS TwoAtWork Reaches
SYMMETRY Symmetry
CHECK_DEADLOCK FALSE
INVARIANT SubmitsWhatWasSent

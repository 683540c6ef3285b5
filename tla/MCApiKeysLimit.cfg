SPECIFICATION Spec
CONSTANTS
  Workers = {w1, w2}
  Keys = {k1, k2, k3, k4}
  Orgs = {o1}
  Names = {n1, n2}
  Limit = 2
  DayLen = 2
  HourLen = 1
  MaxTime = 0
  None = None
SYMMETRY Symmetry
INVARIANT LimitKept
CHECK_DEADLOCK FALSE

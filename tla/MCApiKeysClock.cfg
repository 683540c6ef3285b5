SPECIFICATION FairSpec
CONSTANTS
  Workers = {w1, w2}
  Keys = {k1}
  Orgs = {o1}
  Names = {n1}
  Limit = 1
  DayLen = 3
  HourLen = 2
  MaxTime = 25
  None = None
INVARIANTS
  GraceKept
PROPERTIES
  DeletedIsFrozen
  ExpiredIsDeleted
CHECK_DEADLOCK FALSE

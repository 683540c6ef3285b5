SPECIFICATION Spec
CONSTANTS
  i1 = i1
  i2 = i2
  e1 = e1
  a1 = a1
  s1 = s1
  x1 = x1
  Instances = {i1}
  Requests = {s1}
  Call <- MCCall
  MaxRetries = 1
  MaxFaults = 2
  MaxRestarts = 1
INVARIANT LogoutRegistered
CHECK_DEADLOCK FALSE

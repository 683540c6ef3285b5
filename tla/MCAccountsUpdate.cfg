SPECIFICATION MCSpec
CONSTANTS
  u1 = u1
  u2 = u2
  Users = {u1, u2}
  Names = {"n1", "n2", " "}
  MaxOrgs = 3
  MaxRequests = 3
  MaxFaults = 1
  Inputs <- MCWithdrawals
INVARIANT WithdrawalHolds
CHECK_DEADLOCK FALSE

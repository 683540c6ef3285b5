SPECIFICATION MCSpec
CONSTANTS
  u1 = u1
  u2 = u2
  Users = {u1, u2}
  Names = {"n1", "n2", " "}
  MaxOrgs = 3
  MaxRequests = 3
  MaxFaults = 1
  Inputs <- MCInputs
INVARIANTS
  TypeOK
  LoginAfterSignUp
  ChangesSurvive
  InvitedJoins
  MailedTokensStored
CHECK_DEADLOCK FALSE

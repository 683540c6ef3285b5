SPECIFICATION MCSpec
CONSTANTS
  c1 = c1
  u1 = u1
  u2 = u2
  u3 = u3
  u4 = u4
  Clients = {c1}
  Users = {u1, u2, u3, u4}
  Orgs = {1, 2, 3, 4}
  Gone = {3}
  Subscribed = {1, 2, 3}
  Rows = {1, 2, 3, 4, 5, 6, 7, 8}
  Names = {"n1", "n2", " "}
  Slots = {1, 2}
  DefaultPerPage = 2
  TopActors = 1
  Mine <- MCMine
  Data <- MCData
  Inputs <- MCInputs
INVARIANTS
  TypeOK
  HandlerHasContext
  PagesMissNothing
  TotalReached
  ListedAreMine
PROPERTIES
  InvitationsStay
CHECK_DEADLOCK FALSE

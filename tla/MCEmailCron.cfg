SPECIFICATION MCSpec
CONSTANTS
  MaxUsers = 3
  Flags <- MCFlags
  MaxFaults = 1
  MaxRuns = 2
INVARIANTS
  TypeOK
  MailsPaid
  MailedHaveTokens
  CountersAgree
  RetriesUsed
  ResultsFit
  SkipsPaid
  RepeatsPaid
PROPERTIES
  RunEnds
  ImplementsMailRun
CHECK_DEADLOCK FALSE

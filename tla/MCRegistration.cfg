SPECIFICATION FairSpec
CONSTANTS
  None = None
  Sessions = {s1, s2}
  Ids = {ann}
  MaxAttempts = 3
  MaxJobs = 1
INVARIANTS
  RegistrationTruthful
  AccountsComplete
  LateNeverCreates
PROPERTIES
  AnswersCome

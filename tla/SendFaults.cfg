SPECIFICATION FairSpec
CONSTANTS
  Kinds = {TRUE, FALSE}
  MaxAttempts = 2
  FilingBudget = 2
  MaxCreates = 4
  MaxRestarts = 2
  MaxDbFailures = 1
  MaxMishaps = 1
CHECK_DEADLOCK FALSE
INVARIANTS
  AtMostOneDelivery
  CheckpointAgrees
  TrustOnce
  DraftOutlivesSend
  SecondCopyExplained
  CleanupOwed
  AnswerIsTrue
PROPERTIES
  KeepsPromise
  SendSettles

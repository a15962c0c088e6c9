SPECIFICATION FairSpec
CONSTANTS
  CancelRows = {"cancel"}
  MaxAttempts = 2
  MaxFaults = 1
INVARIANTS
  CancelIsTrue
  PlacedOnEvidence
  TriggerAnswered
PROPERTIES
  ClearsLast
  Ends
CHECK_DEADLOCK FALSE

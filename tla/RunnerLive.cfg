SPECIFICATION FairSpec
CONSTANTS
  Rows <- Two
  LaneOf <- OneLane
  Unsafe <- NoSend
  Callers = {c1}
  MaxAttempts = 2
  BatchSize = 1
  MaxRestarts = 1
  MaxDbFailures = 0
  MaxRevivals = 0
PROPERTIES EveryCallAnswered EveryRowSettles
CHECK_DEADLOCK FALSE

SPECIFICATION Spec
CONSTANTS
  Rows <- Two
  LaneOf <- OneLane
  Unsafe <- NoSend
  Callers = {c1}
  MaxAttempts = 2
  BatchSize = 2
  MaxRestarts = 0
  MaxDbFailures = 0
  MaxRevivals = 0
PROPERTY NoOvertaking
CHECK_DEADLOCK FALSE

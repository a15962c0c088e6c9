SPECIFICATION Spec
CONSTANTS
  Kinds = {FALSE}
  MaxAttempts = 2
  FilingBudget = 2
  MaxCreates = 2
  MaxRestarts = 0
  MaxDbFailures = 0
  MaxMishaps = 0
CHECK_DEADLOCK FALSE
INVARIANT
  DeliveredRetires

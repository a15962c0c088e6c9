SPECIFICATION Spec
CONSTANTS
  Rows <- MCTwoRows
  Reopened = TRUE
  MaxEdits = 2
  MaxCopies = 3
  MaxLate = 0
  MaxAttempts = 2
  MaxRestarts = 1
  MaxRemovals = 0
INVARIANT DontSaveKeepsCopy
CHECK_DEADLOCK FALSE

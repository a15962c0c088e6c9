SPECIFICATION FairSpec
CONSTANTS
  Rows <- MCTwoRows
  Reopened = TRUE
  MaxEdits = 2
  MaxCopies = 3
  MaxLate = 1
  MaxAttempts = 2
  MaxRestarts = 1
  MaxRemovals = 1
INVARIANTS
  SurvivesSaving
  OneCopyAtRest
  DiscardTakesAll
  SavedIsSaved
CHECK_DEADLOCK FALSE
PROPERTY EditsSettle

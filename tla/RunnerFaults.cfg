SPECIFICATION Spec
CONSTANTS
  Rows <- Two
  LaneOf <- OneLane
  Unsafe <- SecondIsSend
  Callers = {c1}
  MaxAttempts = 1
  BatchSize = 2
  MaxRestarts = 1
  MaxDbFailures = 1
  MaxRevivals = 1
INVARIANTS LaneExclusion InterruptedIsParked AttemptBudget AnswersAgree AwaiterHasLiveRow WakeCovered StopQuiesces RunningHoldsRow
CHECK_DEADLOCK FALSE

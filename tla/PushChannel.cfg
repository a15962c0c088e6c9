SPECIFICATION FairSpec
CONSTANTS
  Types <- MCTypes
  Priority <- MCPriority
  AtStart <- MCIdentity
  AtBoot <- MCViews
  AtReopen <- MCTypes
  Locked <- MCViews
  MaxChanges = 2
  MaxFaults = 2
INVARIANTS
  NothingForgotten
  StopLeavesNothing
PROPERTIES
  CatchesUp
  NeverBack
CHECK_DEADLOCK FALSE

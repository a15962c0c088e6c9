SPECIFICATION FairSpec
CONSTANTS
  Devices <- MCDevices
  Keys <- MCKeys
  MaxStamp = 2
  MaxEdits = 2
  MaxFaults = 1
INVARIANTS
  NoEditLost
PROPERTIES
  NothingTakenBack
  Converge
CHECK_DEADLOCK FALSE

SPECIFICATION Spec
CONSTANTS
  Devices <- MCDevices
  Deleters <- MCLaptop
  Restorers <- MCDevices
  Purgers <- MCPhone
  MaxClock = 1
  MaxAsks = 2
  MaxMishaps = 1
CHECK_DEADLOCK FALSE
INVARIANTS TypeOK UploadOwed ContactKept
PROPERTY CopyFirst

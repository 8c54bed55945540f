CONSTANTS
  Services = {s1, s2, s3}
  NoFile = NoFile
  StaleAfter = 2
  MaxClock = 4
  MaxAttempts = 1
SPECIFICATION Spec
SYMMETRY Symmetry
INVARIANTS TypeOK LeaseMutex
PROPERTIES FreshLockUntouched LeaseKept
CHECK_DEADLOCK FALSE

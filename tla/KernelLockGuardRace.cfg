CONSTANTS
  Services = {s1, s2, s3, s4}
  NoFile = NoFile
  StaleAfter = 1
  MaxClock = 2
  MaxAttempts = 1
SPECIFICATION Spec
SYMMETRY Symmetry
INVARIANT RecoverySerialized
CHECK_DEADLOCK FALSE

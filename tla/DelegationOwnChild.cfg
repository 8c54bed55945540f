CONSTANTS
  MaxCalls = 2
  MaxThreads = 6
  MaxFaults = 0
SPECIFICATION Spec
PROPERTY WokenByOwnChild
CHECK_DEADLOCK FALSE

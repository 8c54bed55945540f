CONSTANTS
  Services = {s1, s2}
  NoLock = NoLock
  StaleAfter = 2
  Capacity = 1
  MaxFaults = 1
SPECIFICATION FairSpec
CHECK_DEADLOCK FALSE
INVARIANTS TypeOK WorksUnderLock FinalStateStays RepairIsOwed
PROPERTIES StopIsHeeded RepairIsMade

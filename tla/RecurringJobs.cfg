CONSTANTS
  Runners = {r1, r2}
  Interval = 1
  MaxFailures = 2
  MaxClock = 2
  MaxActs = 2
SPECIFICATION FairSpec
INVARIANTS TypeOK NoOverlap FailuresAreCounted SlotRunsOnce
PROPERTIES DueSlotPasses
CHECK_DEADLOCK FALSE

CONSTANTS
  Claimers = {c1, c2, c3}
  First = c1
  Host = host
  NoFile = NoFile
  NoClaimer = NoClaimer
  StaleAfter = 1
  MaxAttempts = 1
  MaxClock = 2
  MaxSignals = 2
  MaxCrashes = 1
SPECIFICATION FairSpec
INVARIANTS TypeOK ClaimedOnce ReadyIsQueued
PROPERTY ReadyGetsClaimed
CHECK_DEADLOCK FALSE

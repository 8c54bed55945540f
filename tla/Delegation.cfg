CONSTANTS
  MaxCalls = 2
  MaxThreads = 6
  MaxFaults = 1
SPECIFICATION Spec
INVARIANTS TypeOK ParentRunsAlone ResumedOnEvidence
PROPERTIES ForksAndJoins  EvidenceIsKept 
CHECK_DEADLOCK FALSE

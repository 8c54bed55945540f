SPECIFICATION FairSpec
CONSTANTS
    child = child
    own = own
    NoJob = NoJob
    Jobs = {child, own}
    Delegated = {child}
    RunAt <- MCRunAt
    MaxClock = 2
    MaxFaults = 1
    MaxHostCalls = 2
INVARIANTS
    TypeOK
    ReleasePaidBySchedule
    NeverReleasedEarly
    ResultsAreBacked
PROPERTIES
    FiredTimersGetLinked
    DueJobsGetReleased

SPECIFICATION Spec
CONSTANTS
    child = child
    own = own
    NoJob = NoJob
    Jobs = {child, own}
    Delegated = {child}
    RunAt <- MCRunAt
    MaxClock = 1
    MaxFaults = 0
    MaxHostCalls = 2
INVARIANT
    CancelIsFinal

SPECIFICATION Spec
CONSTANTS
    first = first
    second = second
    NoCall = NoCall
    Calls = {first, second}
    Key <- MCKey
    ExpiresAt <- MCExpiresAt
    Repeated = {first}
    MaxClock = 1
    MaxFaults = 1
INVARIANTS
    TypeOK
    OneChildPerKey
    RefusalsHaveNoEffect
    FiledAsAnswered
PROPERTIES
    NoCallLost
    ContractKept

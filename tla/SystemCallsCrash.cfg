SPECIFICATION FairSpec
CONSTANTS
    first = first
    second = second
    NoCall = NoCall
    Calls = {first, second}
    Key <- MCKey
    ExpiresAt <- MCExpiresAt
    Repeated = {}
    MaxClock = 0
    MaxFaults = 1
PROPERTIES
    CallsGetAnswered

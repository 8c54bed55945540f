SPECIFICATION FairSpec
CONSTANTS
    first = first
    second = second
    NoCall = NoCall
    Calls = {first, second}
    Key <- MCKey
    ExpiresAt <- MCExpiresAt
    Repeated = {}
    MaxClock = 1
    MaxFaults = 0
PROPERTIES
    CallsGetFiled
    ParkedCallersGoOn

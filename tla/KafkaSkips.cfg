SPECIFICATION Spec
CONSTANTS
    k1 = k1
    k2 = k2
    Clients = {k1}
    Nobody = Nobody
    LogLength = 3
    Malformed = {}
    MaxFaults = 0
INVARIANT PassedWasHandled
CHECK_DEADLOCK FALSE

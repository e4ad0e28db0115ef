SPECIFICATION FairSpec
CONSTANTS
    k1 = k1
    k2 = k2
    Clients = {k1, k2}
    Nobody = Nobody
    LogLength = 3
    Malformed = {3}
    MaxFaults = 1
INVARIANTS
    TypeOK
    PassedWasAttempted
    ClosedIsQuiet
PROPERTIES
    CloseTerminates
    EventuallyAttempted
CHECK_DEADLOCK FALSE

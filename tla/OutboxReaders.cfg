SPECIFICATION RowFairSpec
CONSTANTS
    p1 = p1
    p2 = p2
    Rows = {1, 2}
    Readers = {p1, p2}
    BatchSize = 2
    MaxAttempts = 3
    Dialect = "mysql"
    MaxFaults = 2
    Watched = {1}
    MaxDuration = 20
    Factors <- MCFactors
    Durations <- MCDurations
INVARIANTS
    TypeOK
    ProcessedWasPublished
    AttemptsBounded
    OncePerReaderPlusFaults
    BackoffWithinLimits
    BackoffGrows
PROPERTIES
    ImplementsOutboxDelivery
    EventuallySettled
CHECK_DEADLOCK FALSE

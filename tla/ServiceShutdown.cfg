SPECIFICATION ServiceFairSpec
CONSTANTS
    s1 = s1
    s2 = s2
    c1 = c1
    t1 = t1
    t2 = t2
    Starters = {s1, s2}
    Closers = {c1}
    BatchSize = 3
    CloseDuringStart = FALSE
    Topics = {t1, t2}
INVARIANTS
    TypeOK
    OnePoller
    ClosedMeansStopped
    NoRowRefused
    MapMatchesConnection
PROPERTY CloseTerminates
CHECK_DEADLOCK FALSE

SPECIFICATION Spec
CONSTANTS
    w1 = w1
    w2 = w2
    g1 = g1
    g2 = g2
    NoStep = NoStep
    NoPolicy = NoPolicy
    Sagas = {g1, g2}
    StepNames <- MCStepNames
    Topics <- MCTopics
    Steps <- MCSteps
    Messages <- BothWays
    Started = {}
    Workers = {w1, w2}
    Dialect = "postgres"
    InfraPolicy = 2
    MaxDeliveries = 2
    CommitMayBeLost = TRUE
INVARIANTS
    TypeOK
    EffectAtMostOnce
    ClaimInv
PROPERTY ImplementsAtomicStep
SYMMETRY WorkerSymmetry
CHECK_DEADLOCK FALSE

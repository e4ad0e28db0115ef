SPECIFICATION FairSpec
CONSTANTS
    w1 = w1
    w2 = w2
    g1 = g1
    g2 = g2
    NoStep = NoStep
    NoPolicy = NoPolicy
    Sagas = {g1, g2}
    StepNames <- MCStepNames
    Topics <- MCTopics
    Steps <- MCSteps
    Messages <- Starting
    Started <- Starting
    Workers = {w1, w2}
    Dialect = "postgres"
    InfraPolicy = 2
    MaxDeliveries = 2
    CommitMayBeLost = TRUE
INVARIANTS
    OutboxKeyGuardsEffects
    RowInv
    AckedIsDurable
    NoFailureEventForDuplicate
PROPERTY HandlerReturns
CHECK_DEADLOCK FALSE

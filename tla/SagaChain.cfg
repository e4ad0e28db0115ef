SPECIFICATION FairSpec
CONSTANTS
    g1 = g1
    NoSaga = NoSaga
    NoStep = NoStep
    NoPolicy = NoPolicy
    Sagas = {g1}
    Saga = g1
    StepNames <- MCStepNames
    Topics <- MCTopics
    Steps <- MCSteps
    Services <- MCServices
    ServiceOf <- MCServiceOf
    Registered <- MCRegistered
    StartSteps <- WholeStart
    Chain <- WholeChain
    MaxLostCommits = 2
INVARIANTS
    TypeOK
    OnceOnly
    DuplicateMeansHandled
    CompensationRunsBack
    StartStopsAtFailure
PROPERTIES
    ImplementsSagaOrder
    SagaEnds
CHECK_DEADLOCK FALSE

SPECIFICATION Spec
CONSTANTS
    g1 = g1
    NoSaga = NoSaga
    NoStep = NoStep
    NoPolicy = NoPolicy
    Sagas = {g1}
    Saga = g1
    StepNames <- MCStepNames
    Topics <- MCTopics
    Steps <- MCSteps
    Services <- MCServices
    ServiceOf <- MCServiceOf
    Registered <- ToldRegistered
    StartSteps <- ToldStart
    Chain <- WholeChain
    MaxLostCommits = 0
INVARIANT DuplicateMeansHandled
CHECK_DEADLOCK FALSE

SPECIFICATION Spec
CONSTANTS
    g1 = g1
    NoSaga = NoSaga
    NoStep = NoStep
    NoPolicy = NoPolicy
    Sagas = {g1}
    Saga = g1
    StepNames <- MCStepNames
    Topics <- MCTopics
    Steps <- MCSteps
    Services <- MCServices
    ServiceOf <- MCServiceOf
    Registered <- MCRegistered
    StartSteps <- LocalStart
    Chain <- ShortChain
    MaxLostCommits = 0
INVARIANT StartStopsAtFailure
CHECK_DEADLOCK FALSE

SPECIFICATION Spec
CONSTANTS
    g1 = g1
    NoSaga = NoSaga
    NoStep = NoStep
    NoPolicy = NoPolicy
    Sagas = {g1}
    Saga = g1
    StepNames <- MCStepNames
    Topics <- MCTopics
    Steps <- MCSteps
    Services <- MCServices
    ServiceOf <- MCServiceOf
    Registered <- MCRegistered
    StartSteps <- ShortStart
    Chain <- ShortChain
    MaxLostCommits = 0
INVARIANT AllOrNothing
CHECK_DEADLOCK FALSE

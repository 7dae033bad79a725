CONSTANTS
    Sessions = {s1, s2}
    MaxRetries = 2
    ApiErrorThreshold = 2
    LoopThreshold = 2
    Scenarios <- MCScenarios
SPECIFICATION FairSpec
INVARIANTS TypeOK RecoveriesBounded CheckpointIsNewest SilenceIsNoticeable
PROPERTIES SilenceIsReported EveryFailureAnswered

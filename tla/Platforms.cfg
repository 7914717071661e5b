SPECIFICATION FairSpec
CONSTANTS
    MaxRuns = 3
    MaxForeign = 0
    Retries = 1
    XComFails = TRUE
    MaxStarts = 3
    GlueStarts = 2
    PageSize = 2
    MaxPages = 2
    BatchMax = 2
INVARIANTS
    TypeOK
    SuccessIsEarned
    RetryAfterResumeFindsRunEnded
PROPERTIES
    FailureWhilePollingIsFinal
    LaunchNeedsFreeOutput
    EveryTryEnds
CHECK_DEADLOCK FALSE

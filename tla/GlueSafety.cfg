SPECIFICATION Spec
CONSTANTS
    MaxRuns = 4
    MaxForeign = 1
    Retries = 1
    XComFails = TRUE
    MaxStarts = 3
    PageSize = 2
    MaxPages = 2
    BatchMax = 1
INVARIANTS
    TypeOK
    SingleWriter
    DeferredWatchesTheWriter
    ForeignRunsUntouched
    SuccessIsEarned
    NoRetryOfFailedJob
    CapacityStaysRetryable
PROPERTIES
    OwnerSpec
CHECK_DEADLOCK FALSE

SPECIFICATION Spec
CONSTANTS
    MaxRuns = 1
    MaxForeign = 0
    Retries = 1
    XComFails = TRUE
    MaxStarts = 1
    PageSize = 1
    MaxPages = 1
    BatchMax = 1
INVARIANTS
    FailureAfterRunIsFinal
CHECK_DEADLOCK FALSE

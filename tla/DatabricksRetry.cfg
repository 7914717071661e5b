SPECIFICATION Spec
CONSTANTS
    MaxRuns = 1
    MaxForeign = 0
    Retries = 1
    XComFails = FALSE
    MaxStarts = 1
INVARIANTS
    NoRetryOfFailedJob
CHECK_DEADLOCK FALSE

SPECIFICATION Spec
CONSTANTS
    a = a
    b = b
    TaskInstances <- Pair
    MaxTimeoutHours <- MixedHours
    MaxQueueWaitHours = 1
    WaiterDelay = 2
    MaxRuns = 1
    MaxTime = 4
INVARIANTS
    AgedRunsAreOver

SPECIFICATION Spec
CONSTANTS
    a = a
    b = b
    TaskInstances <- Pair
    MaxTimeoutHours <- SameHours
    MaxQueueWaitHours = 2
    WaiterDelay = 2
    MaxRuns = 2
    MaxTime = 5
INVARIANTS
    TypeOK
    AgedRunsAreOver
    OneWriter
    BudgetOutlastsRun
SYMMETRY Alike

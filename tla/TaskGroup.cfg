SPECIFICATION FairSpec
CONSTANTS
    Jobs <- AllJobs
    SetupRetries = 1
    ExecuteRetries = 1
    MaxVersion = 2
    Disturbed <- DisturbedJobs
    MaxClears = 1
INVARIANTS
    TypeOK
    InputsOfOneSetup
    StagedBeforeSubmit
    CallerConfWins
    DatabricksConfigWins
    CatalogsDelegated
    WellSized
    PreviewMatches
PROPERTIES
    GroupEnds
CHECK_DEADLOCK FALSE

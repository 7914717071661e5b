SPECIFICATION Spec
CONSTANTS
    Tasks <- Kinds
    Wants <- Wanted
    Artifacts <- All
    Origin <- Origins
    File <- Files
    InUrl <- InUrls
    Prefix <- Prefixes
    PipOnly <- Pip
    Installed <- PipInstalls
    MaxTries = 2
    MaxStarted = 3
INVARIANTS
    TypeOK
    OnlyNamesakesStray
    Delivered
    OnlyErrorsFail
PROPERTIES
    NothingIsReplaced
CHECK_DEADLOCK FALSE

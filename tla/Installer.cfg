SPECIFICATION FairInstallerSpec
CONSTANTS
    Staged <- BuildStage
    DiskFails = TRUE
    MaxRuns = 2
    Block = 4
    Marker = 3
    MaxLength = 8
INVARIANTS
    FindsFirst
    FailureKeepsInstalled
PROPERTY SearchReturns
CHECK_DEADLOCK FALSE

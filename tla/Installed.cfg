SPECIFICATION InstallerSpec
CONSTANTS
    Staged <- BuildStage
    DiskFails = FALSE
    MaxRuns = 1
    Block = 4
    Marker = 3
    MaxLength = 4
INVARIANT InstalledIsThere
CHECK_DEADLOCK FALSE

CONSTANTS
    Pages = {0, 1, 2, 3}
    MaxBatch = 5
    MaxRun = 3
SPECIFICATION FairSpec
INVARIANT RunsCapped
PROPERTIES ImplementsSortedBatch BatchEnds
CHECK_DEADLOCK FALSE

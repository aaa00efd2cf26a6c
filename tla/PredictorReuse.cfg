SPECIFICATION PredictorSpec
CONSTANTS
    TableCapacity = 2
    InitialCapacity = 1
    MaxStates = 3
    MemoryFails = FALSE
    MaxLives = 5
    MaxTicks = 3
INVARIANTS
    LearnsFromOwnPage
CHECK_DEADLOCK FALSE

SPECIFICATION PredictorSpec
CONSTANTS
    TableCapacity = 4
    InitialCapacity = 1
    MaxStates = 3
    MemoryFails = FALSE
    MaxLives = 5
    MaxTicks = 3
INVARIANTS
    EveryPageHasState
CHECK_DEADLOCK FALSE

SPECIFICATION PipelineSpec
CONSTANTS
    One = 120
    TickMs = 16
    ClockStamps = TRUE
    MaxHeat = 245
    TableCapacity = 4
    InitialCapacity = 1
    MaxStates = 3
    MemoryFails = TRUE
    MaxLives = 4
    MaxTicks = 3
    NumPages = 2
    Foreseen = {1}
    Heats = {6, 100, 500}
    Speeds = {0, 10}
    Errors = {0, 2, 20}
INVARIANTS
    BusiestIsServed
    OneStatePerId
    LearnsFromLastTick
PROPERTIES
    IdleCools
    BusyHeats
CHECK_DEADLOCK FALSE

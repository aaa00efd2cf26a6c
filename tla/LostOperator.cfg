SPECIFICATION HeatSpec
CONSTANTS
    One = 140
    TickMs = 16
    ClockStamps = TRUE
    MaxHeat = 285
INVARIANT OperatorsApply

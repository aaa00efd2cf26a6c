SPECIFICATION HeatSpec
CONSTANTS
    One = 140
    TickMs = 16
    ClockStamps = FALSE
    MaxHeat = 285
INVARIANT DecaysOnlyIdle

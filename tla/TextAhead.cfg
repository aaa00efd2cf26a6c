SPECIFICATION TextSpec
CONSTANTS
    Pages = {p, q}
    None = none
    FieldLines = 2
    Buffer = 6
    Resync = FALSE
    MaxRecords = 3
    ShortWrites = FALSE

INVARIANT WholeRecords

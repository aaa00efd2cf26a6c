SPECIFICATION StorageSpec
CONSTANTS
    PageIds = {1, 2}
    Values = {zero, a}
    Zero = zero
    Torn = torn
    Absent = absent
    Total = 2
    Spans = {1}
    WithFile = TRUE
    Faults = {"create_open", "create_write", "create_extend", "page_write", "fsync"}
    Pages = {p, q}
    None = none
    FieldLines = 2
    Buffer = 6
    Resync = TRUE
    MaxRecords = 4
    ShortWrites = TRUE
INVARIANTS
    FlushedSurvives
    ReadBack
    ReadsInOrder
PROPERTY LoopStops

SPECIFICATION FairSpec
CONSTANTS
    PageIds = {1}
    Values = {zero}
    Zero = zero
    Torn = torn
    Absent = absent
    Total = 2
    Spans = {1}
    WithFile = TRUE
    Faults = {"create_open"}
INVARIANT FlushesBackend

SPECIFICATION BackendSpec
CONSTANTS
    PageIds = {1, 2}
    Values = {zero, a}
    Zero = zero
    Torn = torn
    Absent = absent
    Total = 3
    Spans = {1, 2}
    Faults = {}
INVARIANT ReadBack

CONSTANTS
    Threads = {t1}
    Pages = {0}
    Values = {z}
    Zero = z
    Torn = torn
    Read = read
    RingSize = 1
    MaxWaiters = 1
    Targets = {"vram"}
    Faults = {}
SPECIFICATION FairSpec
PROPERTY FaultResolved
CHECK_DEADLOCK FALSE

CONSTANTS
    Threads = {t1, t2}
    Pages = {0}
    Values = {z}
    Zero = z
    Torn = torn
    Read = read
    RingSize = 2
    MaxWaiters = 2
    Targets = {"vram"}
    Faults = {}
SPECIFICATION FairSpec
PROPERTY EvictedFaultServed
CHECK_DEADLOCK FALSE

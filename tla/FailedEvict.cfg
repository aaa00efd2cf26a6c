CONSTANTS
    Threads = {t1}
    Pages = {0}
    Values = {z, d}
    Zero = z
    Torn = torn
    Read = read
    RingSize = 1
    MaxWaiters = 1
    Targets = {"vram"}
    Faults = {"evict_protect"}
SPECIFICATION Spec
INVARIANT Transparent
CHECK_DEADLOCK FALSE

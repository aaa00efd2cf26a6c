CONSTANTS
    Threads = {t1, t2}
    Pages = {0}
    Values = {z}
    Zero = z
    Torn = torn
    Read = read
    RingSize = 2
    MaxWaiters = 2
    Targets = {"vram"}
    Faults = {}
SYMMETRY ThreadSymmetry
SPECIFICATION Spec
INVARIANT OneProducer
CHECK_DEADLOCK FALSE

CONSTANTS
    Threads = {t1}
    Pages = {0, 1}
    Values = {z, d}
    Zero = z
    Torn = torn
    Read = read
    RingSize = 2
    MaxWaiters = 2
    Targets = {"vram"}
    Faults = {"load_protect", "load_read", "evict_write", "sync_read", "thread_create"}
SPECIFICATION FairSpec
INVARIANTS
    TypeOK
    Transparent
    StoredCopyCurrent
    ResidentIsOpen
    OnlyStrayAccessCrashes
PROPERTIES
    RequestsDrain
CHECK_DEADLOCK FALSE

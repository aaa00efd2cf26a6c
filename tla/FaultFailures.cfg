CONSTANTS
    Threads = {t1}
    Pages = {0}
    Values = {z, d}
    Zero = z
    Torn = torn
    Read = read
    RingSize = 1
    MaxWaiters = 1
    Targets = {"vram", "file"}
    Faults = {"load_protect", "load_read", "evict_protect", "evict_write",
              "sync_protect", "sync_read", "thread_create"}
SPECIFICATION FairSpec
INVARIANTS
    NoLoadWhileRunning
    NoLeakedWaiter
    WorkerGoneBeforeUnmap
PROPERTY StopTerminates
CHECK_DEADLOCK FALSE

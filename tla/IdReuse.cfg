CONSTANTS
    NumTiers = 3
    Capacity = 3
    MapCapacity = 4
    BaseVaddr = 8
    PageSize = 4
    Sizes = {0, 8}
    Bursts = {515}
    MaxAccesses = 1030
    MaxVaddr = 20
    Unlimited = unlimited
    TierCapacity <- SmallCapacity
    Latency <- RegistryLatency
    Energy <- RegistryEnergy
    TransferTime <- RegistryTransfer
    LatencyWeight = 7
    EnergyWeight = 3
    Scale = 10
    Threshold = 1000000
    Horizon = 10
    Motions = {1, 2}
    Levels = {"cold", "hot"}
    HotAbove = 50
    ColdBelow = 10
    QueueMax = 2
SPECIFICATION Spec
INVARIANT IdsUnique

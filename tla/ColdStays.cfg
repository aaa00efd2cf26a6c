CONSTANTS
    NumTiers = 3
    Capacity = 1
    MapCapacity = 4
    BaseVaddr = 8
    PageSize = 4
    Sizes = {0, 8}
    Bursts = {515}
    MaxAccesses = 1030
    MaxVaddr = 12
    Unlimited = unlimited
    TierCapacity <- SmallCapacity
    Latency <- RegistryLatency
    Energy <- RegistryEnergy
    TransferTime <- RegistryTransfer
    LatencyWeight = 7
    EnergyWeight = 3
    Scale = 10
    Threshold = 1000000
    Horizon = 10
    Motions = {1, 2}
    Levels = {"cold"}
    HotAbove = 50
    ColdBelow = 10
    QueueMax = 1
SPECIFICATION FairSpec
PROPERTY ColdSinks

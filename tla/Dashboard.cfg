SPECIFICATION FairSpec
CONSTANTS
    Pages = {1, 2}
    Tiers = {0, 1}
    Durations = {1, 2}
    Window = 2
    MaxSamples = 3
    MaxMoves = 2
INVARIANTS
    NoUseAfterFree
    WindowIsLatest
    StillFrameIsWhole
PROPERTY CloseEnds

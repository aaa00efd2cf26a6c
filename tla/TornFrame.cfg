SPECIFICATION Spec
CONSTANTS
    Pages = {1, 2}
    Tiers = {0, 1}
    Durations = {1}
    Window = 2
    MaxSamples = 1
    MaxMoves = 2
INVARIANT FrameIsSnapshot

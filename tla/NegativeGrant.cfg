SPECIFICATION BandwidthSpec
CONSTANTS
    NumPages = 2
    Foreseen = {1}
    Heats = {6, 100, 500}
    Speeds = {0, 10}
    Errors = {0, 2, 20}
INVARIANTS GrantsNothingNegative
CHECK_DEADLOCK FALSE

SPECIFICATION ChunkerSpec
CONSTANTS
    SoftLimit = 3
    HardLimit = 5
    MaxText = 7
    MaxDelta = 2
INVARIANT
    SpokenAsRuled
CHECK_DEADLOCK FALSE

SPECIFICATION Spec
CONSTANTS
    PromptBytes = 1
    MaxItems = 5
    MaxBytes = 6
    MaxItemBytes = 1
    MaxContextItems = 4
    MaxContextBytes = 4
    MaxChunks = 2
    ChunkFrames = 2
    MaxTurns = 3
INVARIANTS
    StoreSound
    HistoryHeard
PROPERTIES
    HistoryOnlyEvicted
CHECK_DEADLOCK FALSE

SPECIFICATION FairSpec
CONSTANTS
    MaxGens = 1
    MaxUnits = 3
    Kinds = {"llm", "llmText", "client", "clientText"}
    Cap = 1
    Unspeakable = FALSE
INVARIANTS
    PipelineSound
    DoneMeansAllSpoken
PROPERTIES
    SpeechEnds
CHECK_DEADLOCK FALSE

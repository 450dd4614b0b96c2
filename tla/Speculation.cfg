SPECIFICATION FairSpec
CONSTANTS
    MaxAttempts = 1
    Buffer = 1
    MaxSpeech = 2
    MaxWorks = 2
    MaxGens = 2
    MaxDeltas = 2
INVARIANTS
    WorkersSound
    AnswerSound
PROPERTIES
    AdoptsWholeTurn
    NobodyWaitsForever
CHECK_DEADLOCK FALSE

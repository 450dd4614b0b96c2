SPECIFICATION FairSpec
CONSTANTS
    Window = 2
    Packet = 2
    StartUp = 2
    MaxGen = 1
    MaxFrames = 4
    Pipe = 3
PROPERTIES
    NoAudioStall
    AllHeard
CHECK_DEADLOCK FALSE

SPECIFICATION Spec
CONSTANTS
    Window = 2
    Packet = 2
    StartUp = 2
    MaxGen = 2
    MaxFrames = 3
    Pipe = 2
INVARIANTS
    TypeOK
    NoClientFault
    TimelineOrdered
    WindowBounded
    AckRetained
    CreditsTruthful
    NoLostCredit
CHECK_DEADLOCK FALSE

SPECIFICATION FairSpec
CONSTANTS
    Queue = 1
    Ring = 2
    RelayRing = 1
    MaxFrames = 3
    MaxUpsets = 2
INVARIANTS TypeOK FrameAccounted SentInOrder RelayGetsTurn OnlySynchronized KeepsRunning
PROPERTY FramesLeave
CHECK_DEADLOCK FALSE

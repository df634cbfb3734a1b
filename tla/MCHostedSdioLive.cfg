SPECIFICATION FairSpec
CONSTANTS
    RxMod = 4
    TxMod = 4
    FrameBuf = 2
    Window = 3
    Budget = 2
    QueueDepth = 2
    RxKind <- RxPlain
    TxKind <- TxMixed
    Buffers = 3
    Faults <- OtherFaults
    ResetPins <- Pin
    MaxFrames = 2
    MaxTx = 1
    MaxThrottle = 2
    MaxAttach = 2
    MaxRestart = 0
PROPERTIES
    EveryFrameRead
    ReleaseHeeded
CHECK_DEADLOCK FALSE

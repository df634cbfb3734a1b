SPECIFICATION Spec
CONSTANTS
    RxMod = 6
    TxMod = 4
    FrameBuf = 3
    Window = 3
    Budget = 2
    QueueDepth = 2
    RxKind <- RxMixed
    TxKind <- TxMixed
    Buffers = 3
    Faults <- AllFaults
    ResetPins <- PinOrNone
    MaxFrames = 3
    MaxTx = 2
    MaxThrottle = 0
    MaxAttach = 2
    MaxRestart = 1
INVARIANTS
    TypeOK
    ReadsInStep
    PathInOrder
    NothingVanishes
    CreditInStep
    NeverOverrun
CHECK_DEADLOCK FALSE

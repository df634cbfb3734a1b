SPECIFICATION FairSpec
CONSTANTS
    Count = 3
    Prefill = 2
    CountMod = 8
    Calls = {"write", "drain", "stop"}
    MaxLen = 3
    MaxChunks = 5
    Sleeps = 2
    OtherIrq = TRUE
    NULL = NULL
INVARIANTS
    TypeOK
    QueueTrue
    DrainTrueMeansMoved
PROPERTIES
    MovedInOrder
    EveryCallReturns

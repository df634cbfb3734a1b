SPECIFICATION FairSpec
CONSTANTS
    Depth = 2
    PayloadMax = 2
    SeqMod = 2
    MaxSubmit = 4
    MaxInits = 2
    MaxNest = 2
    Frame <- MCFrame
    Client <- MCClient
INVARIANTS
    TypeOK
    RingShape
    NestedAreLater
PROPERTIES
    InOrder
    RefinesFifo
    EveryFrameLeaves

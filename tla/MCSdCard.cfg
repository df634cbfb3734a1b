SPECIFICATION Spec
CONSTANTS
    Lba = {a, b}
    Value = {u, v}
    SpiFails <- AllSpiFails
    MmcFails <- AllMmcFails
    MaxTries = 2
    MaxInit = 2
    Boards = {"spi", "sdmmc"}
INVARIANTS
    TypeOK
    ReadyMeansReady
PROPERTIES
    RefinesDevice

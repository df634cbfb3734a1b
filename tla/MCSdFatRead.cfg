SPECIFICATION Spec
CONSTANTS
    short = short
    long = long
    Other = Other
    Eoc = Eoc
    Name = {short, long}
    Long = {long}
    SectorSize = 2
    Sectors = 2
    IndexMod = 4
    MaxClusters = 2
    MaxPosition = 10
    Lens = {1, 2, 5}
INVARIANTS
    CursorTrue
    ReadTrue

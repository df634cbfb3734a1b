SPECIFICATION Spec
CONSTANTS
    short = short
    long = long
    NULL = NULL
    Name = {short, long}
    Long = {long}
    SectorSize = 2
    Sectors = 2
    Slots = 4
    LastCluster = 5
    Lens = {3}
    OldSize = {1, 5}
    Faults = {"hint", "data", "entry", "fat", "pad", "read"}
    MaxWrites = 2
    MaxLosses = 1
INVARIANTS
    TypeOK
    ChainsSound
    DirectoryWhole
    HandlesCurrent
PROPERTY RefinesStore
CHECK_DEADLOCK FALSE

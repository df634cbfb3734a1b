SPECIFICATION Spec
CONSTANTS
    short = short
    long = long
    NULL = NULL
    Name = {short, long}
    Long = {long}
    SectorSize = 2
    Sectors = 2
    Slots = 4
    LastCluster = 5
    Lens = {1}
    OldSize = {0}
    Faults = {}
    MaxWrites = 0
    MaxLosses = 0
INVARIANT CreatedIsFound
CHECK_DEADLOCK FALSE

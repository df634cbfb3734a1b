SPECIFICATION Spec
CONSTANTS
    Count = 2
    Prefill = 2
    CountMod = 8
    Calls = {"write", "poll"}
    MaxLen = 2
    MaxChunks = 4
    Sleeps = 2
    OtherIrq = FALSE
    NULL = NULL
INVARIANT CountWithinBuffers
CHECK_DEADLOCK FALSE

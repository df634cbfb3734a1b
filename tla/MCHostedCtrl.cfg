SPECIFICATION FairSpec
CONSTANTS
    Kind <- MCKind
    Msg <- MCMsg
    UidMod = 3
    Timeout = 1
    MaxCalls = 2
    MaxNest = 2
    MaxEvents = 2
    MaxRestart = 1
INVARIANTS
    TypeOK
    AnswerOwned
    TimeoutMeansNoAnswer
    WaitingIsInnermost
    LinkKnown
PROPERTY EveryRequestReturns
CHECK_DEADLOCK FALSE

SPECIFICATION FairSpec
CONSTANTS
    q1 = q1
    e1 = e1
    c1 = c1
    c2 = c2
    NULL = NULL
    Queue = {q1}
    Plain = {e1}
    Callout = {c1, c2}
    Home <- MCHome
    TickMod = 8
    MaxTicks = 2
    MaxLate = 1
INVARIANTS
    TypeOK
    QueuesLinked
PROPERTIES
    RefinesService
    EventsLeave
    CalloutsExpire

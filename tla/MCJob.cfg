CONSTANTS
    MaxCount = 3
    Readers = {r1}
    Stoppers = {s1, s2}
SPECIFICATION FairSpec
INVARIANTS
    TypeOK
    TicksMatchStatus
    ReadsStayInCapturedSlice
    NoLostWakeup
    ChangedOpenWhileRunning
    AuditedOnce
PROPERTIES
    ImplementsFeed
    StopReturns
    RangeEnds
    ImplementsLife
CHECK_DEADLOCK FALSE

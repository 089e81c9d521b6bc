CONSTANTS
    Agents = {a1, a2}
    MaxCount = 3
    Counts = {0, 1, 4}
    MaxJobs = 2
    Shutdowns = {c1, c2}
SPECIFICATION FairSpec
INVARIANTS
    TypeOK
    EveryJobIsFound
    FindsOnlyOwnJobs
    RecordsCountJobs
    ShutdownMeansFinished
PROPERTIES
    IdsAreStable
    ShutdownReturns
CHECK_DEADLOCK FALSE

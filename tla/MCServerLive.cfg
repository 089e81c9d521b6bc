CONSTANTS
    Agents = {a1}
    MaxCount = 1
    Counts = {1}
    MaxJobs = 2
    Calls = {h1, h2}
    Configs <- GoodConfigs
SPECIFICATION FairSpec
PROPERTIES
    ServeReturnsAfterSignal
    DrainNeedsNoTimer
CHECK_DEADLOCK FALSE

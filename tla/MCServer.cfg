CONSTANTS
    Agents = {a1, a2}
    MaxCount = 1
    Counts = {0, 1}
    MaxJobs = 1
    Calls = {h1, h2, h3}
    Configs <- AllConfigs
SPECIFICATION Spec
SYMMETRY Symmetry
INVARIANTS
    TypeOK
    NothingLeftRunning
    StreamsEndWithTerminal
    ExitCodeIsTrue
    RepliesAreAboutOwnJobs
    StopReportsTheEnd
CHECK_DEADLOCK FALSE

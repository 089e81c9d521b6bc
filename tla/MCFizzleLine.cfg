SPECIFICATION FairSpec
CONSTANTS
    Procs = {p}
    Lines <- AllLines
    MaxCount = 2
    CountBits = 3
    Window = 1
    Refusals = {"Unauthenticated", "PermissionDenied", "Internal"}
    MaxFaults = 3
INVARIANTS
    JobIsTheOneAskedFor
PROPERTIES
    CommandsEnd
    InterruptEnds
    AbandonedHandlersReturn

SPECIFICATION Spec
CONSTANTS
    Procs = {p}
    Lines <- GoodLines
    MaxCount = 2
    CountBits = 3
    Window = 2
    Refusals = {"Unauthenticated"}
    MaxFaults = 0
INVARIANT
    UnavailableMeansUnhandled

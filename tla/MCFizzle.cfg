SPECIFICATION Spec
CONSTANTS
    Procs = {p, q}
    Lines <- GoodLines
    MaxCount = 2
    CountBits = 3
    Window = 2
    Refusals = {"Unauthenticated"}
    MaxFaults = 1
SYMMETRY Twins
INVARIANTS
    TypeOK
    PrintedIsPrefix
    SuccessIsTrue

SPECIFICATION Spec
CONSTANTS
    Authorities = {"root", "brief"}
    NotAfter <- Expiries
    MaxItems = 4
CHECK_DEADLOCK FALSE
INVARIANTS
    TypeOK
    AcceptsTheWellFormed
    AcceptedIsSound

SPECIFICATION Spec
CONSTANTS
    Authorities = {"root", "brief"}
    NotAfter <- Expiries
    MaxItems = 3
CHECK_DEADLOCK FALSE
INVARIANT
    NoBlockDropped

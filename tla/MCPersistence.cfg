SPECIFICATION Spec
CONSTANTS
    t1 = t1
    t2 = t2
    Tasks = {t1, t2}
    MaxIds = 3
    MaxClock = 4
    Faults <- WholeFaults
    Digests <- LostDigests
    Disconnects = TRUE
    Crashes = TRUE
SYMMETRY TaskSymmetry
INVARIANTS
    TypeOK
    IdsAreFresh
    SaveCarriesOwnChange
PROPERTIES
    UntouchedRowsKeepOrder
    Refines

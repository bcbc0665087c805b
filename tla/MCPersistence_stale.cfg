SPECIFICATION Spec
CONSTANTS
    t1 = t1
    t2 = t2
    Tasks = {t1, t2}
    MaxIds = 2
    MaxClock = 3
    Faults <- NoFaults
    Digests <- AllDigests
    Disconnects = FALSE
    Crashes = FALSE
INVARIANTS
    SavedWhenQuiescent

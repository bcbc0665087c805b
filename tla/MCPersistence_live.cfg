SPECIFICATION FairSpec
CONSTANTS
    t1 = t1
    t2 = t2
    Tasks = {t1, t2}
    MaxIds = 2
    MaxClock = 4
    Faults <- NoFaults
    Digests <- AllDigests
    Disconnects = TRUE
    Crashes = FALSE
PROPERTIES
    ChangesReachDisk

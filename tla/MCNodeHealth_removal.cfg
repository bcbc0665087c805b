SPECIFICATION Spec
CONSTANTS
    n1 = n1
    n2 = n2
    s1 = s1
    r1 = r1
    r2 = r2
    Nodes = {n1, n2}
    Subs = {s1}
    Runs = {r1, r2}
    Loopback = {n2}
    Enabled = {}
    Engines <- NoEngine
    Thresholds = {0, 1, 2}
    Older <- NewBackups
    MaxFails = 2
SYMMETRY RunSymmetry
PROPERTIES
    RemovedAfterRunOfFailures

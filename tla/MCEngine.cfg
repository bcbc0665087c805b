SPECIFICATION FairSpec
CONSTANTS
    a = a
    b = b
    s = s
    p1 = p1
    p2 = p2
    p3 = p3
    Calls = {a, b, s}
    Batched = {s}
    Size <- Sizes
    Width <- Widths
    MaxProcs = 2
    Ports = {p1, p2, p3}
    BindFails = TRUE
    Disconnects = TRUE
INVARIANTS
    TypeOK
    PortsExclusive
    LeasesAreHeld
PROPERTIES
    CallsReturn

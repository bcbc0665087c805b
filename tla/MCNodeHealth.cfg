SPECIFICATION Spec
CONSTANTS
    n1 = n1
    s1 = s1
    s2 = s2
    r1 = r1
    r2 = r2
    Nodes = {n1}
    Subs = {s1, s2}
    Runs = {r1, r2}
    Loopback = {}
    Enabled = {s1}
    Engines <- EngineSwitched
    Thresholds = {0, 1}
    Older <- AnyBackups
    MaxFails = 1
SYMMETRY RunSymmetry
CONSTRAINT RunsOrSubsMeet
INVARIANTS
    TypeOK
    FiguresMatchVerdict
    UpMeansStamped
PROPERTIES
    EngineHasTheLastWord

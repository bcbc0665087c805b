SPECIFICATION Spec
CONSTANTS
    r1 = r1
    r2 = r2
    bin = bin
    g1 = g1
    g2 = g2
    s1 = s1
    s2 = s2
    None = None
    Absent = Absent
    Requests = {r1, r2}
    Intervals = {0, 5}
    Engines = {bin}
    Gists = {g1, g2}
    Environments <- Seeded
    MetaFails = TRUE
    MaxVersion = 2
    Subs = {s1, s2}
    MaxRestarts = 1
INVARIANTS TypeOK SettledSurvives NoStrayGists
PROPERTIES PublishedNeverOlder UploadsEnd LoopFollowsSwitch

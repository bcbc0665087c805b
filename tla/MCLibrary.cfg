SPECIFICATION Spec
CONSTANTS
    u1 = u1
    p = p
    n1 = n1
    n2 = n2
    m1 = m1
    w1 = w1
    w2 = w2
    Urls = {u1}
    Pasted = p
    Nodes = {n1, n2}
    Names = {m1}
    Workers = {w1, w2}
    Batches <- OnceOrTwice
    Ages = {0, 1, 2}
    Backups = {"uids"}
    MaxIds = 2
    MaxDay = 3
SYMMETRY WorkerAndNodeSymmetry
CONSTRAINT IdentitiesOrDates
INVARIANTS
    TypeOK
    IdentitiesUnique
PROPERTIES
    IdKeepsIdentity
    DeletedStaysDeleted
    RestoreBringsBackEverything
    FetchForgetsNothing
    PruneGivesGrace

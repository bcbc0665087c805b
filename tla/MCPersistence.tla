--------------------------- MODULE MCPersistence ---------------------------
EXTENDS Persistence, TLC

\* Tasks differ only in their names.
TaskSymmetry == Permutations(Tasks)

\* Which rows fail in one save: none; none or every one (the table is busy,
\* the disk is full).
NoFaults == {{}}
WholeFaults == {{}, Ids}

\* Which digests one save reads: every one; every one or none.
AllDigests == {Ids}
LostDigests == {{}, Ids}
=============================================================================

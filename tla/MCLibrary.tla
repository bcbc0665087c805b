----------------------------- MODULE MCLibrary -----------------------------
EXTENDS Library, TLC

CONSTANT u1

\* The same URL once, or twice: two outcomes that agree make it one.
OnceOrTwice == {<<u1>>, <<u1, u1>>}

\* Adds and refreshes differ only in who awaits them, the nodes of a
\* subscription in their names.
WorkerAndNodeSymmetry == Permutations(Workers) \cup Permutations(Nodes)

-----------------------------------------------------------------------------
(* Bound: a behaviour is about who is who, or about when.                  *)

Mentioned == UNION {NodesOf(store[i]) : i \in Present(store)}
               \cup UNION {NodesOf(backup[i]) : i \in Present(backup)}

\* Two ids, which a backup may have as well: on one day, of one node.
OnIdentities ==
    /\ today = 1 /\ days = 0
    /\ Cardinality(Mentioned) <= 1
    /\ \A w \in Workers : job[w].kind = "add" => Len(job[w].urls) = 2

\* Two nodes on all days, of one subscription nobody has a backup of.
OnDates == nextId <= 2 /\ Present(backup) = {}

IdentitiesOrDates == OnIdentities \/ OnDates
=============================================================================

---------------------------- MODULE Persistence ----------------------------
(***************************************************************************)
(* SubHub's library of subscriptions: the vector in memory, the SQLite     *)
(* table it is saved to, and the tasks (HTTP handlers and the two          *)
(* background loops) that change the first and save it to the second.      *)
(*                                                                         *)
(* A subscription is its id and the version of its content: two contents   *)
(* are the same exactly when their versions are (save_rows compares length *)
(* and hash, and a collision of both is left out).  Order matters, in the  *)
(* vector and in the table (ORDER BY rowid), and is kept as the set of     *)
(* pairs <<i, j>> with i before j.                                         *)
(***************************************************************************)
EXTENDS Naturals, FiniteSetsExt

CONSTANTS
    Tasks,          \* handlers and background loops that run concurrently
    MaxIds,         \* bound: ids of subscriptions are 1 .. MaxIds
    MaxClock,       \* bound: number of changes made to the store
    Faults,         \* sets of rows whose statements may fail in one save
    Digests,        \* sets of rows whose digest one save may read back
    Disconnects,    \* may a client hang up while its handler awaits?
    Crashes         \* may the process be killed or the power fail?

Ids == 1 .. MaxIds

ASSUME PersistenceAssumption ==
    /\ MaxIds \in Nat
    /\ MaxClock \in Nat
    /\ Faults \subseteq SUBSET Ids
    /\ {} \in Faults
    /\ Digests \subseteq SUBSET Ids
    /\ Digests # {}
    /\ Disconnects \in BOOLEAN
    /\ Crashes \in BOOLEAN

VARIABLES
    store,      \* AppState.store
    disk,       \* the committed `subscriptions` table
    durable,    \* the tables a power loss can leave (synchronous = NORMAL)
    nextId,     \* SUB_COUNTER
    clock,      \* number of changes made so far; a content's version
    past,       \* history: the contents the store has held
    pc,         \* where each task is
    snap,       \* the rows each task serialised in persist_all
    own         \* history: when each task last changed the store

vars == <<store, disk, durable, nextId, clock, past, pc, snap, own>>

-----------------------------------------------------------------------------
(* Tables: rows[i] is the version of subscription i, 0 when there is none; *)
(* `at` is the clock reading of the store the table was taken from.        *)

Tables == [rows : [Ids -> Nat], before : SUBSET (Ids \X Ids), at : Nat]

Present(T) == {i \in Ids : T.rows[i] > 0}

Empty == [rows |-> [i \in Ids |-> 0], before |-> {}, at |-> 0]

\* The order of a table lists each two of its rows one way, and only them.
Ordered(T) ==
    /\ T.before \subseteq Present(T) \X Present(T)
    /\ \A i, j \in Present(T) :
          i # j => (<<i, j>> \in T.before <=> <<j, i>> \notin T.before)
    /\ \A i \in Ids : <<i, i>> \notin T.before
    /\ \A i, j, k \in Ids :
          <<i, j>> \in T.before /\ <<j, k>> \in T.before => <<i, k>> \in T.before

\* Vec::push of one new subscription.
Push(T, new, v) ==
    [rows   |-> [T.rows EXCEPT ![new] = v],
     before |-> T.before \cup (Present(T) \X {new}),
     at     |-> v]

\* New content for the subscriptions in S, in place.
Edit(T, S, v) ==
    [T EXCEPT !.rows = [i \in Ids |-> IF i \in S THEN v ELSE T.rows[i]],
              !.at   = v]

\* Vec::retain of what is not in D.
Drop(T, D, v) ==
    [rows   |-> [i \in Ids |-> IF i \in D THEN 0 ELSE T.rows[i]],
     before |-> {p \in T.before : p[1] \notin D /\ p[2] \notin D},
     at     |-> v]

\* Mutant: rows that left the store are not deleted.
SaveRowsKeepsVanished(old, new, failed, known) ==
    LET moved == {i \in Ids \ failed : new.rows[i] > 0 /\ new.rows[i] # old.rows[i]}
        stay  == Present(old) \ moved
    IN  [rows   |-> [i \in Ids |-> IF i \in moved THEN new.rows[i] ELSE old.rows[i]],
         before |-> (old.before \cap (stay \X stay))
                      \cup (stay \X moved)
                      \cup (new.before \cap (moved \X moved)),
         at     |-> new.at]

\* Mutant: a row that came or went has every row rewritten.
SaveRowsRewritesAll(old, new, failed, known) ==
    LET rows == [i \in Ids |-> IF i \in failed THEN old.rows[i] ELSE new.rows[i]]
        moved == {i \in Present(new) \ failed :
                    Present(new) # Present(old) \/ new.rows[i] # old.rows[i]}
        stay  == {i \in Ids \ moved : rows[i] > 0}
    IN  [rows   |-> rows,
         before |-> (old.before \cap (stay \X stay))
                      \cup (stay \X moved)
                      \cup (new.before \cap (moved \X moved)),
         at     |-> new.at]

\* Db::save_rows: rows of `new` that differ, or whose digest it could not
\* read (the SELECT failed, the table has no digests), are replaced, which
\* moves them to the end of the table in the order of `new`; rows `new` lacks
\* are deleted; a statement that fails is logged and its row stays as it was.
SaveRows(old, new, failed, known) ==
    LET rows == [i \in Ids |-> IF i \in failed THEN old.rows[i] ELSE new.rows[i]]
        moved == {i \in Ids \ failed :
                    new.rows[i] > 0 /\ (i \in known => new.rows[i] # old.rows[i])}
        stay  == {i \in Ids \ moved : rows[i] > 0}
    IN  [rows   |-> rows,
         before |-> (old.before \cap (stay \X stay))
                      \cup (stay \X moved)
                      \cup (new.before \cap (moved \X moved)),
         at     |-> IF failed = {} THEN new.at ELSE old.at]

\* Mutants: the counter restarts at the largest id; it skips one.
RebasedToMax(T) == Max({1} \cup Present(T))
RebasedTooFar(T) == 2 + Max({0} \cup Present(T))

\* run_server moves the id counter past the ids it loaded.
Rebased(T) == 1 + Max({0} \cup Present(T))

-----------------------------------------------------------------------------
Init ==
    /\ store = Empty
    /\ disk = Empty
    /\ durable = {Empty}
    /\ nextId = 1
    /\ clock = 0
    /\ past = {Empty.rows}
    /\ pc = [t \in Tasks |-> "idle"]
    /\ snap = [t \in Tasks |-> Empty]
    /\ own = [t \in Tasks |-> 0]

\* What every change to the store does: t goes on to `to`.
Changed(t, new, to) ==
    /\ clock < MaxClock
    /\ clock' = clock + 1
    /\ store' = new
    /\ past' = past \cup {new.rows}
    /\ own' = [own EXCEPT ![t] = clock + 1]
    /\ pc' = [pc EXCEPT ![t] = to]
    /\ UNCHANGED <<disk, durable, snap>>

\* Adding a URL or pasting nodes pushes a subscription; its fresh nodes are
\* then tested, an await, unless there are none.  A restore awaits nothing.
Create(t) ==
    /\ pc[t] = "idle"
    /\ nextId \in Ids
    /\ nextId' = nextId + 1
    /\ \E to \in {"probing", "changed"} :
          Changed(t, Push(store, nextId, clock + 1), to)

\* A refresh (which tests the nodes it brought), a rename, a node deleted,
\* results written back, a cleanup, a restore over existing entries.
Update(t) ==
    /\ pc[t] = "idle"
    /\ \E S \in SUBSET Present(store) \ {{}}, to \in {"probing", "changed"} :
          Changed(t, Edit(store, S, clock + 1), to)
    /\ UNCHANGED nextId

\* A deletion (one subscription) or a prune (any number of them).
Remove(t) ==
    /\ pc[t] = "idle"
    /\ \E D \in SUBSET Present(store) \ {{}} :
          Changed(t, Drop(store, D, clock + 1), "changed")
    /\ UNCHANGED nextId

\* A handler that found nothing to change saves all the same.
Touch(t) ==
    /\ pc[t] = "idle"
    /\ pc' = [pc EXCEPT ![t] = "changed"]
    /\ own' = [own EXCEPT ![t] = 0]
    /\ UNCHANGED <<store, disk, durable, nextId, clock, past, snap>>

\* Mutant: results are written back after the rows were serialised.
WriteBackLate(t) ==
    /\ pc[t] = "snapped"
    /\ \E S \in SUBSET Present(store) \ {{}} :
          Changed(t, Edit(store, S, clock + 1), "snapped")
    /\ UNCHANGED nextId

\* persist_results after the await: the nodes tested may meanwhile be in
\* any of the subscriptions, or in none.
WriteBack(t) ==
    /\ pc[t] = "probing"
    /\ \/ \E S \in SUBSET Present(store) \ {{}} :
             Changed(t, Edit(store, S, clock + 1), "changed")
       \/ /\ pc' = [pc EXCEPT ![t] = "changed"]
          /\ UNCHANGED <<store, disk, durable, clock, past, snap, own>>
    /\ UNCHANGED nextId

\* The client hangs up: the handler's future is dropped at its await.
Disconnect(t) ==
    /\ Disconnects
    /\ pc[t] = "probing"
    /\ pc' = [pc EXCEPT ![t] = "idle"]
    /\ own' = [own EXCEPT ![t] = 0]
    /\ UNCHANGED <<store, disk, durable, nextId, clock, past, snap>>

\* persist_all, first half: serialise the store under its lock, release it.
Snapshot(t) ==
    /\ pc[t] = "changed"
    /\ snap' = [snap EXCEPT ![t] = store]
    /\ pc' = [pc EXCEPT ![t] = "snapped"]
    /\ UNCHANGED <<store, disk, durable, nextId, clock, past, own>>

\* Mutant: a save gives up when another one is on its way (try_lock).
CommitIfFree(t) ==
    /\ pc[t] = "snapped"
    /\ disk' = IF \E u \in Tasks \ {t} : pc[u] = "snapped"
               THEN disk ELSE SaveRows(disk, snap[t], {}, Ids)
    /\ durable' = durable \cup {disk'}
    /\ pc' = [pc EXCEPT ![t] = "idle"]
    /\ snap' = [snap EXCEPT ![t] = Empty]
    /\ own' = [own EXCEPT ![t] = 0]
    /\ UNCHANGED <<store, nextId, clock, past>>

\* persist_all, second half: under persist_lock one transaction of save_rows.
CommitRows(t, failed, known) ==
    /\ pc[t] = "snapped"
    /\ disk' = SaveRows(disk, snap[t], failed, known)
    /\ durable' = durable \cup {disk'}
    /\ pc' = [pc EXCEPT ![t] = "idle"]
    /\ snap' = [snap EXCEPT ![t] = Empty]
    /\ own' = [own EXCEPT ![t] = 0]
    /\ UNCHANGED <<store, nextId, clock, past>>

Commit(t) ==
    \E failed \in Faults, known \in Digests : CommitRows(t, failed, known)

\* SQLite checkpoints its write-ahead log.
Checkpoint ==
    /\ Crashes
    /\ durable' = {disk}
    /\ UNCHANGED <<store, disk, nextId, clock, past, pc, snap, own>>

\* The process is killed, or the power fails and takes commits since the
\* last checkpoint with it; run_server loads the table it then finds and
\* moves the id counter past the ids it read.
Restart ==
    /\ Crashes
    /\ \E T \in durable :
          /\ disk' = T
          /\ durable' = {T}
          /\ store' = T
          /\ nextId' = Rebased(T)
    /\ pc' = [t \in Tasks |-> "idle"]
    /\ snap' = [t \in Tasks |-> Empty]
    /\ own' = [t \in Tasks |-> 0]
    /\ UNCHANGED <<clock, past>>

Step(t) ==
    \/ Create(t) \/ Update(t) \/ Remove(t) \/ Touch(t)
    \/ WriteBack(t) \/ Disconnect(t)
    \/ Snapshot(t) \/ Commit(t)

Next == Checkpoint \/ Restart \/ \E t \in Tasks : Step(t)

Spec == Init /\ [][Next]_vars

\* Once a handler is past its awaits nothing but a crash keeps it from
\* running to its end: the runtime polls it, both locks are released.
FairSpec ==
    Spec /\ \A t \in Tasks : WF_vars(Snapshot(t)) /\ WF_vars(Commit(t))

-----------------------------------------------------------------------------
(* Properties *)

TypeOK ==
    /\ store \in Tables
    /\ disk \in Tables
    /\ durable \in SUBSET Tables
    /\ nextId \in 1 .. MaxIds + 1
    /\ clock \in 0 .. MaxClock
    /\ past \in SUBSET [Ids -> Nat]
    /\ pc \in [Tasks -> {"idle", "probing", "changed", "snapped"}]
    /\ snap \in [Tasks -> Tables]
    /\ own \in [Tasks -> Nat]

\* save_rows deletes and replaces row by row, and tasks race to commit, yet
\* the table always holds one library the memory once held, whole.
SnapshotAtomic == disk.rows \in past

\* The order read back by `ORDER BY rowid` is total and mentions only rows
\* that exist, whichever saves, failures and restarts came before.
OrdersAreTotal == Ordered(store) /\ Ordered(disk)

\* What a task is about to commit is not older than its own change: a
\* request never answers 200 with its change left out of its own save.
SaveCarriesOwnChange ==
    \A t \in Tasks : pc[t] = "snapped" => snap[t].at >= own[t]

\* No id handed to a new subscription is one in memory, on disk, or in a
\* save still to be committed, across restarts too.
IdsAreFresh ==
    \A i \in Ids : i >= nextId =>
        /\ store.rows[i] = 0
        /\ disk.rows[i] = 0
        /\ \A t \in Tasks : snap[t].rows[i] = 0

\* A save only moves rows it rewrites: two rows whose content did not
\* change, and whose digests the save read, keep their order on disk.
UntouchedRowsKeepOrder ==
    [][\A known \in Digests :
         (\E t \in Tasks, failed \in Faults : CommitRows(t, failed, known)) =>
          \A i, j \in Present(disk) \cap known :
             disk'.rows[i] = disk.rows[i] /\ disk'.rows[j] = disk.rows[j]
               => (<<i, j>> \in disk.before <=> <<i, j>> \in disk'.before)]_vars

\* When nothing is under way the table holds what the memory holds.
SavedWhenQuiescent ==
    (\A t \in Tasks : pc[t] = "idle") => disk.rows = store.rows

\* A change whose handler got past its awaits reaches the disk.
ChangesReachDisk ==
    \A t \in Tasks, v \in 1 .. MaxClock :
        (pc[t] = "changed" /\ own[t] = v) ~> (disk.at >= v)

Abs == INSTANCE SnapshotStore
         WITH Library <- [Ids -> Nat], current <- store.rows,
              saved <- disk.rows, seen <- past

Refines == Abs!Spec
=============================================================================

------------------------- MODULE PersistenceProofs -------------------------
(***************************************************************************)
(* What holds of SubHub's persistence for any number of tasks, ids and     *)
(* changes: the tables are well formed, and the durable one is always,     *)
(* whole, a library the memory once held.                                  *)
(***************************************************************************)
EXTENDS Persistence, WellFoundedInduction, TLAPS

-----------------------------------------------------------------------------
(* Operators on tables *)

\* A finite set of ids has a largest one: rebase_sub_counter is well defined.
LEMMA RebasedType ==
    ASSUME NEW T \in Tables
    PROVE  /\ Rebased(T) \in 1 .. MaxIds + 1
           /\ \A i \in Present(T) : i < Rebased(T)
<1> DEFINE S == {0} \cup Present(T)
           R == {MaxIds - x : x \in S}
<1>1. S \subseteq 0 .. MaxIds /\ MaxIds \in Nat
  BY PersistenceAssumption DEF Present, Ids
<1>2. R \in SUBSET Nat /\ R # {}
  BY <1>1
<1>3. PICK r \in R : \A y \in R : r <= y
  <2>1. PICK r \in R : \A y \in R : <<y, r>> \notin OpToRel(<, Nat)
    BY ONLY <1>2, NatLessThanWellFounded, WFMin
  <2>2. \A y \in R : ~ (y < r)
    BY <1>2, <2>1 DEF OpToRel
  <2> QED
    BY <1>2, <2>2
<1>4. PICK m \in S : r = MaxIds - m
  OBVIOUS
<1>5. \A y \in S : m >= y
  <2> SUFFICES ASSUME NEW y \in S PROVE m >= y
    OBVIOUS
  <2>1. r <= MaxIds - y
    BY <1>3
  <2>2. m \in 0 .. MaxIds /\ y \in 0 .. MaxIds
    BY <1>1
  <2> QED
    BY <1>1, <1>4, <2>1, <2>2
<1>6. Max(S) \in S /\ \A y \in S : Max(S) >= y
  BY <1>5 DEF Max
<1> HIDE DEF S
<1>7. Max(S) \in 0 .. MaxIds
  BY <1>1, <1>6
<1>8. \A i \in Present(T) : i <= Max(S) /\ i \in Nat
  <2> SUFFICES ASSUME NEW i \in Present(T) PROVE i <= Max(S) /\ i \in Nat
    OBVIOUS
  <2>1. i \in S
    BY DEF S
  <2> QED
    BY <1>1, <1>6, <1>7, <2>1
<1>9. Rebased(T) = 1 + Max(S)
  BY DEF Rebased, S
<1> QED
  BY <1>1, <1>7, <1>8, <1>9

LEMMA PushType ==
    ASSUME NEW T \in Tables, NEW i \in Ids, NEW v \in Nat
    PROVE  Push(T, i, v) \in Tables
BY DEF Push, Tables, Present

LEMMA EditType ==
    ASSUME NEW T \in Tables, NEW S \in SUBSET Ids, NEW v \in Nat
    PROVE  Edit(T, S, v) \in Tables
BY DEF Edit, Tables

LEMMA DropType ==
    ASSUME NEW T \in Tables, NEW D \in SUBSET Ids, NEW v \in Nat
    PROVE  Drop(T, D, v) \in Tables
BY DEF Drop, Tables

LEMMA SaveRowsType ==
    ASSUME NEW old \in Tables, NEW new \in Tables, NEW failed \in SUBSET Ids, NEW known
    PROVE  SaveRows(old, new, failed, known) \in Tables
BY DEF SaveRows, Tables

LEMMA EmptyType == Empty \in Tables
BY DEF Empty, Tables

-----------------------------------------------------------------------------
(* Type correctness *)

LEMMA TypeInit == Init => TypeOK
<1> SUFFICES ASSUME Init PROVE TypeOK
  OBVIOUS
<1>1. MaxIds \in Nat /\ MaxClock \in Nat
  BY PersistenceAssumption
<1>2. Empty.rows \in [Ids -> Nat]
  BY DEF Empty
<1> QED
  BY <1>1, <1>2, EmptyType DEF Init, TypeOK

LEMMA ChangedType ==
    ASSUME TypeOK, NEW t \in Tasks, NEW T \in Tables, NEW to \in {"probing", "changed"},
           Changed(t, T, to), nextId' \in 1 .. MaxIds + 1
    PROVE  TypeOK'
<1>1. clock' \in 0 .. MaxClock /\ clock + 1 \in Nat
  BY PersistenceAssumption DEF Changed, TypeOK
<1>2. T.rows \in [Ids -> Nat]
  BY DEF Tables
<1> QED
  BY <1>1, <1>2 DEF Changed, TypeOK

LEMMA TypeStep == TypeOK /\ [Next]_vars => TypeOK'
<1> SUFFICES ASSUME TypeOK, [Next]_vars PROVE TypeOK'
  OBVIOUS
<1> DEFINE v == clock + 1
<1>0. v \in Nat /\ MaxIds \in Nat /\ Present(store) \subseteq Ids
  BY PersistenceAssumption DEF TypeOK, Present
<1>1. CASE UNCHANGED vars
  BY <1>1 DEF vars, TypeOK
<1>2. CASE Checkpoint
  BY <1>2 DEF Checkpoint, TypeOK
<1>3. CASE Restart
  <2>1. PICK T \in durable : /\ disk' = T /\ durable' = {T}
                             /\ store' = T /\ nextId' = Rebased(T)
    BY <1>3 DEF Restart
  <2>2. T \in Tables
    BY DEF TypeOK
  <2> QED
    BY <1>3, <2>1, <2>2, RebasedType, EmptyType DEF Restart, TypeOK
<1>4. ASSUME NEW t \in Tasks, Create(t) PROVE TypeOK'
  <2>1. PICK to \in {"probing", "changed"} : Changed(t, Push(store, nextId, v), to)
    BY <1>4 DEF Create
  <2>2. Push(store, nextId, v) \in Tables
    BY <1>0, <1>4, PushType DEF Create, TypeOK
  <2>3. nextId' \in 1 .. MaxIds + 1
    BY <1>0, <1>4 DEF Create, Ids
  <2> QED
    BY <2>1, <2>2, <2>3, ChangedType
<1>5. ASSUME NEW t \in Tasks, Update(t) PROVE TypeOK'
  <2>1. PICK S \in SUBSET Present(store), to \in {"probing", "changed"} :
           Changed(t, Edit(store, S, v), to)
    BY <1>5 DEF Update
  <2>2. Edit(store, S, v) \in Tables
    BY <1>0, EditType DEF TypeOK
  <2> QED
    BY <1>5, <2>1, <2>2, ChangedType DEF Update, TypeOK
<1>6. ASSUME NEW t \in Tasks, Remove(t) PROVE TypeOK'
  <2>1. PICK D \in SUBSET Present(store) : Changed(t, Drop(store, D, v), "changed")
    BY <1>6 DEF Remove
  <2>2. Drop(store, D, v) \in Tables
    BY <1>0, DropType DEF TypeOK
  <2> QED
    BY <1>6, <2>1, <2>2, ChangedType DEF Remove, TypeOK
<1>7. ASSUME NEW t \in Tasks, Touch(t) PROVE TypeOK'
  BY <1>7 DEF Touch, TypeOK
<1>8. ASSUME NEW t \in Tasks, WriteBack(t) PROVE TypeOK'
  <2>1. CASE \E S \in SUBSET Present(store) \ {{}} :
                Changed(t, Edit(store, S, v), "changed")
    <3>1. PICK S \in SUBSET Present(store) : Changed(t, Edit(store, S, v), "changed")
      BY <2>1
    <3>2. Edit(store, S, v) \in Tables
      BY <1>0, EditType DEF TypeOK
    <3> QED
      BY <1>8, <3>1, <3>2, ChangedType DEF WriteBack, TypeOK
  <2>2. CASE /\ pc' = [pc EXCEPT ![t] = "changed"]
             /\ UNCHANGED <<store, disk, durable, clock, past, snap, own>>
    BY <1>8, <2>2 DEF WriteBack, TypeOK
  <2> QED
    BY <1>8, <2>1, <2>2 DEF WriteBack
<1>9. ASSUME NEW t \in Tasks, Disconnect(t) PROVE TypeOK'
  BY <1>9 DEF Disconnect, TypeOK
<1>10. ASSUME NEW t \in Tasks, Snapshot(t) PROVE TypeOK'
  BY <1>10 DEF Snapshot, TypeOK
<1>11. ASSUME NEW t \in Tasks, Commit(t) PROVE TypeOK'
  <2>1. PICK failed \in SUBSET Ids, known \in Digests :
          disk' = SaveRows(disk, snap[t], failed, known)
    BY <1>11, PersistenceAssumption DEF Commit, CommitRows
  <2>2. disk' \in Tables
    BY <2>1, SaveRowsType DEF TypeOK
  <2> QED
    BY <1>11, <2>2, EmptyType DEF Commit, CommitRows, TypeOK
<1> QED
  BY <1>1, <1>2, <1>3, <1>4, <1>5, <1>6, <1>7, <1>8, <1>9, <1>10, <1>11
  DEF Next, Step

\* The state of the library, of its table and of every task keeps its type.
THEOREM TypeCorrect == Spec => []TypeOK
BY TypeInit, TypeStep, PTL DEF Spec

-----------------------------------------------------------------------------
(* Ids are fresh *)

Unused(i) ==
    /\ store.rows[i] = 0
    /\ disk.rows[i] = 0
    /\ \A t \in Tasks : snap[t].rows[i] = 0

\* A step that only changes the store of ids below the counter leaves the
\* ids at or past it unused.
LEMMA ChangedFresh ==
    ASSUME NEW i \in Ids, Unused(i), NEW t \in Tasks, NEW T, NEW to,
           Changed(t, T, to), T.rows[i] = 0
    PROVE  Unused(i)'
BY DEF Changed, Unused

\* IdsAreFresh is inductive once the tables have their types: every change
\* adds at most the one id the counter then leaves behind.
LEMMA FreshStep == TypeOK /\ IdsAreFresh /\ [Next]_vars => IdsAreFresh'
<1> SUFFICES ASSUME TypeOK, IdsAreFresh, [Next]_vars,
                    NEW i \in Ids, i >= nextId'
             PROVE  Unused(i)'
  BY DEF IdsAreFresh, Unused
<1> DEFINE v == clock + 1
<1>0. /\ MaxIds \in Nat /\ i \in Nat /\ nextId \in Nat
      /\ Empty.rows[i] = 0
      /\ store.rows \in [Ids -> Nat]
  BY PersistenceAssumption DEF Empty, Ids, TypeOK, Tables
<1>a. nextId <= i => Unused(i)
  BY <1>0 DEF IdsAreFresh, Unused
<1>1. CASE UNCHANGED vars
  BY <1>1, <1>a, <1>0 DEF vars, Unused
<1>2. CASE Checkpoint
  BY <1>2, <1>a, <1>0 DEF Checkpoint, Unused
<1>3. CASE Restart
  <2>1. PICK T \in durable : /\ disk' = T /\ store' = T /\ nextId' = Rebased(T)
    BY <1>3 DEF Restart
  <2>2. T \in Tables
    BY DEF TypeOK
  <2>3. Rebased(T) \in Nat /\ \A j \in Present(T) : j < Rebased(T)
    BY <1>0, <2>2, RebasedType
  <2>4. i \notin Present(T)
    BY <1>0, <2>1, <2>3
  <2>5. T.rows[i] = 0
    BY <2>2, <2>4 DEF Present, Tables
  <2> QED
    BY <1>0, <1>3, <2>1, <2>5 DEF Restart, Unused
<1>4. ASSUME NEW t \in Tasks, Create(t) PROVE Unused(i)'
  <2>1. PICK to \in {"probing", "changed"} : Changed(t, Push(store, nextId, v), to)
    BY <1>4 DEF Create
  <2>2. nextId < i /\ Unused(i)
    BY <1>0, <1>4, <1>a DEF Create
  <2>3. Push(store, nextId, v).rows[i] = 0
    BY <1>0, <2>2 DEF Push, Unused
  <2> QED
    BY <2>1, <2>2, <2>3, ChangedFresh
<1>5. ASSUME NEW t \in Tasks, Update(t) PROVE Unused(i)'
  <2>1. PICK S \in SUBSET Present(store), to \in {"probing", "changed"} :
           Changed(t, Edit(store, S, v), to)
    BY <1>5 DEF Update
  <2>2. Unused(i)
    BY <1>5, <1>a, <1>0 DEF Update
  <2>3. Edit(store, S, v).rows[i] = 0
    BY <2>2 DEF Edit, Unused, Present
  <2> QED
    BY <2>1, <2>2, <2>3, ChangedFresh
<1>6. ASSUME NEW t \in Tasks, Remove(t) PROVE Unused(i)'
  <2>1. PICK D \in SUBSET Present(store) : Changed(t, Drop(store, D, v), "changed")
    BY <1>6 DEF Remove
  <2>2. Unused(i)
    BY <1>6, <1>a, <1>0 DEF Remove
  <2>3. Drop(store, D, v).rows[i] = 0
    BY <2>2 DEF Drop, Unused
  <2> QED
    BY <2>1, <2>2, <2>3, ChangedFresh
<1>7. ASSUME NEW t \in Tasks, WriteBack(t) PROVE Unused(i)'
  <2>1. Unused(i)
    BY <1>7, <1>a, <1>0 DEF WriteBack
  <2>2. ASSUME NEW S \in SUBSET Present(store), Changed(t, Edit(store, S, v), "changed")
        PROVE  Unused(i)'
    <3>1. Edit(store, S, v).rows[i] = 0
      BY <2>1 DEF Edit, Unused, Present
    <3> QED
      BY <2>1, <2>2, <3>1, ChangedFresh
  <2>3. CASE UNCHANGED <<store, disk, durable, clock, past, snap, own>>
    BY <2>1, <2>3 DEF Unused
  <2> QED
    BY <1>7, <2>2, <2>3 DEF WriteBack
<1>8. ASSUME NEW t \in Tasks, Touch(t) \/ Disconnect(t) PROVE Unused(i)'
  BY <1>8, <1>a, <1>0 DEF Touch, Disconnect, Unused
<1>9. ASSUME NEW t \in Tasks, Snapshot(t) PROVE Unused(i)'
  BY <1>9, <1>a, <1>0 DEF Snapshot, Unused, TypeOK
<1>10. ASSUME NEW t \in Tasks, Commit(t) PROVE Unused(i)'
  <2>1. PICK failed \in SUBSET Ids, known \in Digests :
          disk' = SaveRows(disk, snap[t], failed, known)
    BY <1>10, PersistenceAssumption DEF Commit, CommitRows
  <2>2. Unused(i)
    BY <1>10, <1>a, <1>0 DEF Commit, CommitRows
  <2>3. disk'.rows[i] = 0
    BY <2>1, <2>2 DEF SaveRows, Unused
  <2> QED
    BY <1>0, <1>10, <2>2, <2>3 DEF Commit, CommitRows, Unused, TypeOK
<1> QED
  BY <1>1, <1>2, <1>3, <1>4, <1>5, <1>6, <1>7, <1>8, <1>9, <1>10 DEF Next, Step

\* No new subscription ever gets the id of one in memory, on disk or in a
\* save still on its way, whatever restarts and failed saves came before:
\* what run_server rebases SUB_COUNTER for.
THEOREM FreshIds == Spec => []IdsAreFresh
<1>1. Init => IdsAreFresh
  BY DEF Init, IdsAreFresh, Empty
<1> QED
  BY <1>1, FreshStep, TypeCorrect, PTL DEF Spec

-----------------------------------------------------------------------------
(* Orders are total *)

LEMMA OrderedEmpty == Ordered(Empty)
BY DEF Ordered, Empty, Present

LEMMA OrderedPush ==
    ASSUME NEW T \in Tables, Ordered(T), NEW new \in Ids, T.rows[new] = 0,
           NEW v \in Nat \ {0}
    PROVE  Ordered(Push(T, new, v))
<1>1. Present(Push(T, new, v)) = Present(T) \cup {new} /\ new \notin Present(T)
  BY DEF Present, Push, Tables
<1>2. Push(T, new, v).before = T.before \cup (Present(T) \X {new})
  BY DEF Push
<1>3. Present(T) \subseteq Ids
  BY DEF Present
<1> HIDE DEF Push
<1> QED
  BY <1>1, <1>2, <1>3 DEF Ordered

LEMMA OrderedEdit ==
    ASSUME NEW T \in Tables, Ordered(T), NEW S \in SUBSET Present(T),
           NEW v \in Nat \ {0}
    PROVE  Ordered(Edit(T, S, v))
<1>1. Edit(T, S, v).before = T.before
  BY DEF Edit, Tables
<1>2. Present(Edit(T, S, v)) = Present(T)
  BY DEF Edit, Tables, Present
<1> QED
  BY <1>1, <1>2 DEF Ordered

LEMMA OrderedDrop ==
    ASSUME NEW T \in Tables, Ordered(T), NEW D \in SUBSET Ids, NEW v \in Nat
    PROVE  Ordered(Drop(T, D, v))
<1>1. Present(Drop(T, D, v)) = Present(T) \ D
  BY DEF Drop, Tables, Present
<1>2. \A i, j : <<i, j>> \in Drop(T, D, v).before
                   <=> <<i, j>> \in T.before /\ i \notin D /\ j \notin D
  BY DEF Drop
<1>3. Drop(T, D, v).before \subseteq Present(T) \X Present(T)
  BY DEF Drop, Ordered
<1> HIDE DEF Drop
<1> QED
  BY <1>1, <1>2, <1>3 DEF Ordered

\* Replacing rows moves them, in the order of the snapshot, behind the rows
\* that stay, whichever statements fail.
LEMMA OrderedSaveRows ==
    ASSUME NEW old \in Tables, NEW new \in Tables, NEW failed \in SUBSET Ids, NEW known,
           Ordered(old), Ordered(new)
    PROVE  Ordered(SaveRows(old, new, failed, known))
<1> DEFINE T == SaveRows(old, new, failed, known)
           moved == {i \in Ids \ failed :
                       new.rows[i] > 0 /\ (i \in known => new.rows[i] # old.rows[i])}
           stay == Present(T) \ moved
<1>1. T.rows = [i \in Ids |-> IF i \in failed THEN old.rows[i] ELSE new.rows[i]]
  BY DEF SaveRows
<1>2. /\ moved \subseteq Present(new) /\ moved \subseteq Present(T)
      /\ stay \subseteq Present(old)
  BY <1>1 DEF Present, Tables
<1>3. T.before = (old.before \cap (stay \X stay)) \cup (stay \X moved)
                   \cup (new.before \cap (moved \X moved))
  <2>1. stay = {i \in Ids \ moved :
                  [j \in Ids |-> IF j \in failed THEN old.rows[j] ELSE new.rows[j]][i] > 0}
    BY <1>1 DEF Present
  <2> QED
    BY <2>1 DEF SaveRows
<1>4. /\ Present(T) = stay \cup moved /\ stay \cap moved = {}
      /\ Present(T) \subseteq Ids
  BY <1>2 DEF Present
<1> HIDE DEF T, moved, stay
<1>5. \A i, j : <<i, j>> \in T.before <=>
                   \/ i \in stay /\ j \in stay /\ <<i, j>> \in old.before
                   \/ i \in stay /\ j \in moved
                   \/ i \in moved /\ j \in moved /\ <<i, j>> \in new.before
  BY <1>3
<1>6. T.before \subseteq Present(T) \X Present(T)
  BY <1>3, <1>4
<1>7. \A i, j \in Present(T) :
         i # j => (<<i, j>> \in T.before <=> <<j, i>> \notin T.before)
  BY <1>2, <1>4, <1>5 DEF Ordered
<1>8. \A i \in Ids : <<i, i>> \notin T.before
  BY <1>4, <1>5 DEF Ordered
<1>9. \A i, j, k \in Ids :
         <<i, j>> \in T.before /\ <<j, k>> \in T.before => <<i, k>> \in T.before
  BY <1>4, <1>5 DEF Ordered
<1> QED
  BY <1>6, <1>7, <1>8, <1>9 DEF Ordered, T

\* Every table a step can read or load is ordered.
OrderInv ==
    /\ Ordered(store)
    /\ disk \in durable
    /\ \A T \in durable : Ordered(T)
    /\ \A t \in Tasks : Ordered(snap[t])

LEMMA ChangedOrder ==
    ASSUME OrderInv, NEW t, NEW T, NEW to, Changed(t, T, to), Ordered(T)
    PROVE  OrderInv'
BY DEF Changed, OrderInv

LEMMA OrderStep == TypeOK /\ IdsAreFresh /\ OrderInv /\ [Next]_vars => OrderInv'
<1> SUFFICES ASSUME TypeOK, IdsAreFresh, OrderInv, [Next]_vars PROVE OrderInv'
  OBVIOUS
<1> DEFINE v == clock + 1
<1>0. v \in Nat \ {0} /\ store \in Tables /\ Ordered(store) /\ Present(store) \subseteq Ids
  BY PersistenceAssumption DEF TypeOK, OrderInv, Present
<1>1. CASE UNCHANGED vars
  BY <1>1 DEF vars, OrderInv
<1>2. CASE Checkpoint
  BY <1>2 DEF Checkpoint, OrderInv
<1>3. CASE Restart
  BY <1>3, OrderedEmpty DEF Restart, OrderInv
<1>4. ASSUME NEW t \in Tasks, Create(t) PROVE OrderInv'
  <2>1. PICK to \in {"probing", "changed"} : Changed(t, Push(store, nextId, v), to)
    BY <1>4 DEF Create
  <2>2. nextId \in Ids /\ store.rows[nextId] = 0
    BY <1>4 DEF Create, IdsAreFresh, TypeOK
  <2> QED
    BY <1>0, <2>1, <2>2, OrderedPush, ChangedOrder
<1>5. ASSUME NEW t \in Tasks, Update(t) PROVE OrderInv'
  BY <1>0, <1>5, OrderedEdit, ChangedOrder DEF Update
<1>6. ASSUME NEW t \in Tasks, Remove(t) PROVE OrderInv'
  <2>1. PICK D \in SUBSET Present(store) : Changed(t, Drop(store, D, v), "changed")
    BY <1>6 DEF Remove
  <2> QED
    BY <1>0, <2>1, OrderedDrop, ChangedOrder
<1>7. ASSUME NEW t \in Tasks, WriteBack(t) PROVE OrderInv'
  <2>1. ASSUME NEW S \in SUBSET Present(store), Changed(t, Edit(store, S, v), "changed")
        PROVE  OrderInv'
    BY <1>0, <2>1, OrderedEdit, ChangedOrder
  <2>2. CASE UNCHANGED <<store, disk, durable, clock, past, snap, own>>
    BY <2>2 DEF OrderInv
  <2> QED
    BY <1>7, <2>1, <2>2 DEF WriteBack
<1>8. ASSUME NEW t \in Tasks, Touch(t) \/ Disconnect(t) PROVE OrderInv'
  BY <1>8 DEF Touch, Disconnect, OrderInv
<1>9. ASSUME NEW t \in Tasks, Snapshot(t) PROVE OrderInv'
  BY <1>9 DEF Snapshot, OrderInv, TypeOK
<1>10. ASSUME NEW t \in Tasks, Commit(t) PROVE OrderInv'
  <2>1. PICK failed \in SUBSET Ids, known \in Digests :
          disk' = SaveRows(disk, snap[t], failed, known)
    BY <1>10, PersistenceAssumption DEF Commit, CommitRows
  <2>2. Ordered(disk')
    BY <2>1, OrderedSaveRows DEF OrderInv, TypeOK
  <2> QED
    BY <1>10, <2>2, OrderedEmpty DEF Commit, CommitRows, OrderInv, TypeOK
<1> QED
  BY <1>1, <1>2, <1>3, <1>4, <1>5, <1>6, <1>7, <1>8, <1>9, <1>10 DEF Next, Step

\* The vector and the table list their subscriptions in one total order
\* each, for any faults and restarts: `ORDER BY rowid` always has one answer.
THEOREM TotalOrders == Spec => []OrdersAreTotal
<1>1. Init => OrderInv
  BY OrderedEmpty DEF Init, OrderInv
<1>2. OrderInv => OrdersAreTotal
  BY DEF OrderInv, OrdersAreTotal
<1> QED
  BY <1>1, <1>2, OrderStep, TypeCorrect, FreshIds, PTL DEF Spec

-----------------------------------------------------------------------------
(* The durable library is one the memory held *)

\* Either every statement of a save takes effect or none does: the only
\* failures are those of the whole transaction.
SavesAreAllOrNothing == Faults \subseteq {{}, Ids}

\* Every table that may become the durable one holds a past library.
AtomicInv ==
    /\ store.rows \in past
    /\ disk \in durable
    /\ \A T \in durable : T.rows \in past
    /\ \A t \in Tasks : snap[t].rows \in past
    /\ Empty.rows \in past     \* a task between two saves holds no rows

LEMMA SaveRowsWhole ==
    ASSUME NEW old \in Tables, NEW new \in Tables, NEW failed \in {{}, Ids}, NEW known
    PROVE  SaveRows(old, new, failed, known).rows \in {old.rows, new.rows}
BY DEF SaveRows, Tables

LEMMA ChangedAtomic ==
    ASSUME AtomicInv, NEW t, NEW T, NEW to, Changed(t, T, to)
    PROVE  AtomicInv'
BY DEF Changed, AtomicInv

LEMMA AtomicStep ==
    ASSUME SavesAreAllOrNothing
    PROVE  TypeOK /\ AtomicInv /\ [Next]_vars => AtomicInv'
<1> SUFFICES ASSUME TypeOK, AtomicInv, [Next]_vars PROVE AtomicInv'
  OBVIOUS
<1>1. CASE UNCHANGED vars
  BY <1>1 DEF vars, AtomicInv
<1>2. CASE Checkpoint \/ Restart
  BY <1>2 DEF Checkpoint, Restart, AtomicInv
<1>3. ASSUME NEW t \in Tasks, Create(t) \/ Update(t) \/ Remove(t)
      PROVE  AtomicInv'
  <2>1. PICK T, to : Changed(t, T, to)
    BY <1>3 DEF Create, Update, Remove
  <2> QED
    BY <2>1, ChangedAtomic DEF Changed
<1>4. ASSUME NEW t \in Tasks, WriteBack(t)
      PROVE  AtomicInv'
  <2>1. CASE \E T, to : Changed(t, T, to)
    BY <2>1, ChangedAtomic DEF Changed
  <2>2. CASE UNCHANGED <<store, disk, durable, clock, past, snap, own>>
    BY <2>2 DEF AtomicInv
  <2> QED
    BY <1>4, <2>1, <2>2 DEF WriteBack
<1>5. ASSUME NEW t \in Tasks, Touch(t) \/ Disconnect(t) \/ Snapshot(t)
      PROVE  AtomicInv'
  BY <1>5 DEF Touch, Disconnect, Snapshot, AtomicInv, TypeOK
<1>6. ASSUME NEW t \in Tasks, Commit(t)
      PROVE  AtomicInv'
  <2>1. PICK failed \in {{}, Ids}, known \in Digests :
          disk' = SaveRows(disk, snap[t], failed, known)
    BY <1>6 DEF Commit, CommitRows, SavesAreAllOrNothing
  <2>2. disk'.rows \in {disk.rows, snap[t].rows}
    BY <2>1, SaveRowsWhole DEF TypeOK
  <2>3. disk'.rows \in past
    BY <2>2 DEF AtomicInv
  <2> QED
    BY <1>6, <2>3 DEF Commit, CommitRows, AtomicInv, TypeOK
<1> QED
  BY <1>1, <1>2, <1>3, <1>4, <1>5, <1>6 DEF Next, Step

LEMMA AtomicAlways ==
    ASSUME SavesAreAllOrNothing
    PROVE  Spec => [](TypeOK /\ AtomicInv)
<1>1. Init => AtomicInv
  BY DEF Init, AtomicInv
<1>2. TypeOK /\ AtomicInv /\ [Next]_vars => AtomicInv'
  BY AtomicStep
<1> QED
  BY <1>1, <1>2, TypeCorrect, PTL DEF Spec

\* Whatever tasks race, crash or fail as a whole, the table holds one
\* library the memory once held, never a mixture of two.
THEOREM AtomicSnapshots ==
    ASSUME SavesAreAllOrNothing
    PROVE  Spec => []SnapshotAtomic
<1>1. AtomicInv => SnapshotAtomic
  BY DEF AtomicInv, SnapshotAtomic
<1> QED
  BY <1>1, AtomicAlways, PTL

\* SubHub implements SnapshotStore: every step of a handler, a save, a
\* checkpoint or a restart is one of its steps or none.
THEOREM Refinement ==
    ASSUME SavesAreAllOrNothing
    PROVE  Spec => Refines
<1>1. Init => Abs!Init
  BY DEF Init, Abs!Init, Empty
<1>2. TypeOK /\ TypeOK' /\ AtomicInv /\ AtomicInv' /\ [Next]_vars
         => [Abs!Next]_(Abs!absVars)
  <2> SUFFICES ASSUME TypeOK, TypeOK', AtomicInv, AtomicInv', [Next]_vars
               PROVE  Abs!Next \/ UNCHANGED Abs!absVars
    OBVIOUS
  <2>0. disk'.rows \in past' /\ store'.rows \in [Ids -> Nat]
    BY DEF AtomicInv, TypeOK, Tables
  <2>1. ASSUME UNCHANGED <<store, disk, past>> PROVE UNCHANGED Abs!absVars
    BY <2>1 DEF Abs!absVars
  <2>2. ASSUME NEW t, NEW T, NEW to, Changed(t, T, to) PROVE Abs!Change
    BY <2>0, <2>2 DEF Changed, Abs!Change
  <2>3. ASSUME NEW t \in Tasks, Commit(t) PROVE Abs!Save
    BY <2>0, <2>3 DEF Commit, CommitRows, Abs!Save
  <2>4. ASSUME Restart PROVE Abs!Reboot
    BY <2>0, <2>4 DEF Restart, Abs!Reboot
  <2>5. ASSUME NEW t \in Tasks, Step(t), ~ Commit(t)
        PROVE  UNCHANGED <<store, disk, past>> \/ \E T, to : Changed(t, T, to)
    BY <2>5 DEF Step, Create, Update, Remove, Touch, WriteBack, Disconnect, Snapshot
  <2> QED
    BY <2>1, <2>2, <2>3, <2>4, <2>5 DEF Next, Checkpoint, vars, Abs!Next
<1> QED
  BY <1>1, <1>2, AtomicAlways, PTL DEF Spec, Refines, Abs!Spec

-----------------------------------------------------------------------------
(* A save contains the change it was made for. *)

\* Every table is as old as the clock or older; the store is not older than
\* the change of a task that has yet to serialise it.
OwnInv ==
  /\ store.at <= clock /\ disk.at <= clock
  /\ \A T \in durable : T.at <= clock
  /\ \A t \in Tasks :
        /\ snap[t].at <= clock
        /\ pc[t] \in {"probing", "changed"} => own[t] <= store.at
        /\ pc[t] = "snapped" => own[t] <= snap[t].at

LEMMA ChangedOwn ==
  ASSUME TypeOK, OwnInv, NEW t \in Tasks, NEW T \in Tables,
         NEW to \in {"probing", "changed"}, T.at = clock + 1, Changed(t, T, to)
  PROVE  OwnInv'
<1>1. /\ clock \in Nat /\ clock' = clock + 1 /\ store' = T
      /\ disk' = disk /\ durable' = durable /\ snap' = snap
      /\ \A u \in Tasks : own'[u] = IF u = t THEN clock + 1 ELSE own[u]
      /\ \A u \in Tasks : pc'[u] = IF u = t THEN to ELSE pc[u]
  BY PersistenceAssumption DEF Changed, TypeOK
<1>2. /\ store.at \in Nat /\ disk.at \in Nat
      /\ \A D \in durable : D.at \in Nat
      /\ \A u \in Tasks : snap[u].at \in Nat /\ own[u] \in Nat
  BY DEF TypeOK, Tables
<1>. QED BY <1>1, <1>2 DEF OwnInv

LEMMA OwnStep == TypeOK /\ OwnInv /\ [Next]_vars => OwnInv'
<1>. SUFFICES ASSUME TypeOK, OwnInv, [Next]_vars PROVE OwnInv'
  OBVIOUS
<1>. DEFINE v == clock + 1
<1>1. v \in Nat /\ Present(store) \subseteq Ids
  BY PersistenceAssumption DEF TypeOK, Present
<1>2. ASSUME NEW S \in SUBSET Ids
      PROVE  /\ Edit(store, S, v) \in Tables /\ Edit(store, S, v).at = v
             /\ Drop(store, S, v) \in Tables /\ Drop(store, S, v).at = v
  <2>1. Edit(store, S, v) \in Tables /\ Drop(store, S, v) \in Tables
    BY <1>1, EditType, DropType DEF TypeOK
  <2>2. store \in Tables
    BY DEF TypeOK
  <2>. QED BY <2>1, <2>2 DEF Edit, Drop, Tables
<1>3. CASE UNCHANGED vars
  BY <1>3 DEF vars, OwnInv
<1>4. CASE Checkpoint
  BY <1>4 DEF Checkpoint, OwnInv
<1>5. CASE Restart
  <2>1. PICK T \in durable : disk' = T /\ durable' = {T} /\ store' = T
    BY <1>5 DEF Restart
  <2>2. \A t \in Tasks : pc'[t] = "idle" /\ snap'[t].at = 0
    BY <1>5 DEF Restart, Empty
  <2>3. clock \in Nat /\ clock' = clock
    BY <1>5, PersistenceAssumption DEF Restart, TypeOK
  <2>. QED BY <2>1, <2>2, <2>3 DEF OwnInv
<1>6. ASSUME NEW t \in Tasks, Create(t) PROVE OwnInv'
  <2>1. nextId \in Ids /\ \E to \in {"probing", "changed"} : Changed(t, Push(store, nextId, v), to)
    BY <1>6 DEF Create
  <2>2. Push(store, nextId, v) \in Tables /\ Push(store, nextId, v).at = v
    BY <1>1, <2>1, PushType DEF TypeOK, Push
  <2>. QED BY <2>1, <2>2, ChangedOwn
<1>7. ASSUME NEW t \in Tasks, Update(t) PROVE OwnInv'
  BY <1>1, <1>2, <1>7, ChangedOwn DEF Update
<1>8. ASSUME NEW t \in Tasks, Remove(t) PROVE OwnInv'
  BY <1>1, <1>2, <1>8, ChangedOwn DEF Remove
<1>9. ASSUME NEW t \in Tasks, WriteBack(t) PROVE OwnInv'
  <2>1. CASE \E S \in SUBSET Present(store) \ {{}} : Changed(t, Edit(store, S, v), "changed")
    BY <1>1, <1>2, <2>1, ChangedOwn
  <2>2. CASE /\ pc' = [pc EXCEPT ![t] = "changed"]
             /\ UNCHANGED <<store, disk, durable, clock, past, snap, own>>
    BY <1>9, <2>2 DEF WriteBack, OwnInv, TypeOK
  <2>. QED BY <1>9, <2>1, <2>2 DEF WriteBack
<1>10. ASSUME NEW t \in Tasks, Touch(t) PROVE OwnInv'
  <2>1. store.at \in Nat
    BY DEF TypeOK, Tables
  <2>. QED BY <1>10, <2>1 DEF Touch, OwnInv, TypeOK
<1>11. ASSUME NEW t \in Tasks, Disconnect(t) PROVE OwnInv'
  BY <1>11 DEF Disconnect, OwnInv, TypeOK
<1>12. ASSUME NEW t \in Tasks, Snapshot(t) PROVE OwnInv'
  BY <1>12 DEF Snapshot, OwnInv, TypeOK
<1>13. ASSUME NEW t \in Tasks, Commit(t) PROVE OwnInv'
  <2>1. PICK failed \in Faults, known \in Digests :
          disk' = SaveRows(disk, snap[t], failed, known)
    BY <1>13 DEF Commit, CommitRows
  <2>2. disk'.at \in {disk.at, snap[t].at}
    BY <2>1 DEF SaveRows
  <2>3. disk'.at <= clock
    BY <2>2 DEF OwnInv
  <2>4. clock \in Nat
    BY PersistenceAssumption DEF TypeOK
  <2>. QED BY <1>13, <2>3, <2>4 DEF Commit, CommitRows, OwnInv, TypeOK, Empty
<1>. QED BY <1>3, <1>4, <1>5, <1>6, <1>7, <1>8, <1>9, <1>10, <1>11, <1>12, <1>13
       DEF Next, Step

\* A request whose save is done has its own change on disk, unless rows failed:
\* whatever other tasks changed, saved or lost meanwhile.
THEOREM SavesCarryOwnChanges == Spec => []SaveCarriesOwnChange
<1>1. Init => OwnInv
  BY DEF Init, OwnInv, Empty
<1>2. TypeOK /\ OwnInv => SaveCarriesOwnChange
  BY DEF TypeOK, Tables, OwnInv, SaveCarriesOwnChange
<1>. QED BY <1>1, <1>2, TypeInit, TypeStep, OwnStep, PTL DEF Spec

-----------------------------------------------------------------------------
(* The order of the rows a save does not touch. *)

LEMMA SaveRowsKeepsOrder ==
  ASSUME NEW old \in Tables, NEW new \in Tables, NEW failed \in SUBSET Ids, NEW known,
         NEW i \in Present(old) \cap known, NEW j \in Present(old) \cap known,
         SaveRows(old, new, failed, known).rows[i] = old.rows[i],
         SaveRows(old, new, failed, known).rows[j] = old.rows[j]
  PROVE  <<i, j>> \in old.before <=> <<i, j>> \in SaveRows(old, new, failed, known).before
<1>. DEFINE rows == [k \in Ids |-> IF k \in failed THEN old.rows[k] ELSE new.rows[k]]
            moved == {k \in Ids \ failed :
                       new.rows[k] > 0 /\ (k \in known => new.rows[k] # old.rows[k])}
            stay == {k \in Ids \ moved : rows[k] > 0}
<1>1. i \in Ids /\ j \in Ids /\ old.rows[i] > 0 /\ old.rows[j] > 0
  BY DEF Present
<1>2. rows[i] = old.rows[i] /\ rows[j] = old.rows[j]
  BY DEF SaveRows
<1>3. i \in stay /\ j \in stay /\ i \notin moved /\ j \notin moved
  BY <1>1, <1>2
<1>4. SaveRows(old, new, failed, known).before =
        (old.before \cap (stay \X stay)) \cup (stay \X moved)
          \cup (new.before \cap (moved \X moved))
  BY DEF SaveRows
<1>. HIDE DEF rows, moved, stay
<1>. QED BY <1>3, <1>4

\* Two subscriptions that a save leaves as they were keep their order on disk,
\* when it reads their digests: whichever rows fail, whatever other saves did.
THEOREM UntouchedKeepOrder == Spec => UntouchedRowsKeepOrder
<1>. DEFINE Kept == \A known \in Digests :
              (\E t \in Tasks, failed \in Faults : CommitRows(t, failed, known)) =>
              \A i, j \in Present(disk) \cap known :
                 disk'.rows[i] = disk.rows[i] /\ disk'.rows[j] = disk.rows[j]
                   => (<<i, j>> \in disk.before <=> <<i, j>> \in disk'.before)
<1>1. TypeOK => Kept
  <2>. SUFFICES ASSUME TypeOK, NEW known \in Digests, NEW t \in Tasks,
                       NEW failed \in Faults, CommitRows(t, failed, known),
                       NEW i \in Present(disk) \cap known,
                       NEW j \in Present(disk) \cap known,
                       disk'.rows[i] = disk.rows[i], disk'.rows[j] = disk.rows[j]
                PROVE  <<i, j>> \in disk.before <=> <<i, j>> \in disk'.before
    OBVIOUS
  <2>1. disk' = SaveRows(disk, snap[t], failed, known)
    BY DEF CommitRows
  <2>2. failed \in SUBSET Ids
    BY PersistenceAssumption
  <2>3. disk \in Tables /\ snap[t] \in Tables
    BY DEF TypeOK
  <2>. QED BY <2>1, <2>2, <2>3, SaveRowsKeepsOrder
<1>2. TypeOK /\ [Next]_vars => [Kept]_vars
  BY <1>1
<1>. HIDE DEF Kept
<1>3. Spec => [][Kept]_vars
  BY <1>2, TypeInit, TypeStep, PTL DEF Spec
<1>. QED BY <1>3 DEF UntouchedRowsKeepOrder, Kept

=============================================================================

------------------------------ MODULE Library ------------------------------
(***************************************************************************)
(* The list of subscriptions and everything that adds to it, renews it or  *)
(* takes from it: adding URLs, pasting nodes, refreshing, restoring a      *)
(* backup, deleting, cleaning up, and the pruning of subscriptions that    *)
(* have long been without a usable node.  Adding and refreshing await a    *)
(* fetch between two looks at the list, so what they found out before it   *)
(* may be gone after it.                                                   *)
(*                                                                         *)
(* Ids stand for subscriptions in the order their kept copies were made;   *)
(* the ids the code gives to copies it then merges away are not counted.   *)
(* Times are days, 0 for a time that is not set; a day is the unit of the  *)
(* prune, and a fetch ends on the day it began.                            *)
(***************************************************************************)
EXTENDS Naturals, Sequences, FiniteSetsExt

CONSTANTS
    Urls,           \* remote sources
    Pasted,         \* the source of every local subscription
    Nodes,          \* fingerprints
    Names,          \* names a local subscription may be given
    Workers,        \* adds and refreshes that may await at one time
    Batches,        \* what one add request may ask for: sequences of Urls
    Ages,           \* values remove_sub_after_days takes
    Backups,        \* the backups a user may take: with uids, or an old
                    \* version's without
    MaxIds,         \* bound: subscriptions ever made
    MaxDay          \* bound: the last day

ASSUME LibraryAssumption ==
    /\ Pasted \notin Urls
    /\ Names # {}
    /\ Batches \subseteq Seq(Urls)
    /\ Ages \subseteq Nat /\ 0 \in Ages
    /\ Backups \subseteq {"uids", "old"}
    /\ MaxIds \in Nat /\ MaxDay \in Nat \ {0}

VARIABLES
    store,      \* AppState.store
    nextId,     \* SUB_COUNTER; a new subscription's uid is as fresh
    backup,     \* the export file the user keeps
    days,       \* AppState.remove_sub_after_days
    today,
    job,        \* the add or refresh each worker awaits
    grace       \* history: when each subscription was last known to be good

vars == <<store, nextId, backup, days, today, job, grace>>

-----------------------------------------------------------------------------
Ids == 1 .. MaxIds
Days == 0 .. MaxDay
Remote(s) == s.source # Pasted

Verdicts == {"absent", "untested", "up", "down"}

Subscriptions ==
    [source : Urls \cup {Pasted}, uid : 0 .. MaxIds, name : Names,
     verdict : [Nodes -> Verdicts], error : BOOLEAN,
     checked : Days, updated : Days, healthy : Days]

None == [source |-> "none"]

Present(S) == {i \in Ids : S[i] # None}

NodesOf(s) == {n \in Nodes : s.verdict[n] # "absent"}
HasUp(s) == \E n \in Nodes : s.verdict[n] = "up"

Untested(S) == [n \in Nodes |-> IF n \in S THEN "untested" ELSE "absent"]

Idle == [kind |-> "idle"]

\* The list, and the id the next subscription gets, as a request goes on.
Grown(lib, sub) ==
    [store |-> [i \in Ids |-> IF i = lib.next THEN sub ELSE lib.store[i]],
     next  |-> lib.next + 1]

Put(lib, i, sub) == [lib EXCEPT !.store[i] = sub]

Where(lib, Test(_)) == {i \in Present(lib.store) : Test(lib.store[i])}

\* Mutant: a refresh forgets what was measured.
AllUntested(old, S) == Untested(S)

\* incremental_update: survivors keep their verdicts, the rest is as fetched.
Merged(old, S) ==
    [n \in Nodes |-> IF n \notin S THEN "absent"
                     ELSE IF old[n] = "absent" THEN "untested" ELSE old[n]]

\* Mutant: every URL of an add becomes a subscription of its own.
AlwaysAppend(lib, url, S, now) ==
    Grown(lib, [source |-> url, uid |-> lib.next, name |-> CHOOSE m \in Names : TRUE,
                verdict |-> Untested(S), error |-> S = {}, checked |-> now,
                updated |-> IF S = {} THEN 0 ELSE now, healthy |-> 0])

\* One URL of an add: merged into the subscription that has its source, or
\* appended.  Fetching nothing (an error, no nodes) keeps the nodes there are.
MergeBySource(lib, url, S, now) ==
    LET same == Where(lib, LAMBDA s : s.source = url)
    IN  IF same = {}
        THEN Grown(lib,
               [source |-> url, uid |-> lib.next, name |-> CHOOSE m \in Names : TRUE,
                verdict |-> Untested(S), error |-> S = {}, checked |-> now,
                updated |-> IF S = {} THEN 0 ELSE now, healthy |-> 0])
        ELSE LET i == Min(same)
                 old == lib.store[i]
             IN  Put(lib, i, IF S = {}
                             THEN [old EXCEPT !.error = TRUE, !.checked = now]
                             ELSE [old EXCEPT !.error = FALSE, !.checked = now,
                                              !.updated = now,
                                              !.verdict = Merged(@, S)])

SameName(lib, item) == Where(lib, LAMBDA s : ~Remote(s) /\ s.name = item.name)

\* Mutant: local entries are found by their name though they have a uid.
TargetIgnoresUid(lib, item) ==
    IF Remote(item)
    THEN Where(lib, LAMBDA s : s.source = item.source)
    ELSE IF Cardinality(SameName(lib, item)) = 1 THEN SameName(lib, item) ELSE {}

\* Where an entry of a backup goes: a remote one by its URL, a local one by
\* its uid, or in an old backup by its name if only one local has it.
Target(lib, item) ==
    IF Remote(item)
    THEN Where(lib, LAMBDA s : s.source = item.source)
    ELSE IF item.uid # 0
    THEN Where(lib, LAMBDA s : ~Remote(s) /\ s.uid = item.uid)
    ELSE IF Cardinality(SameName(lib, item)) = 1 THEN SameName(lib, item) ELSE {}

\* Mutant: a time that is missing is made up in a smaller unit.
StampedInSeconds(item, now) ==
    [item EXCEPT !.checked = IF @ = 0 THEN now ELSE @,
                 !.updated = IF @ = 0 THEN now * 86400 ELSE @]

Stamped(item, now) ==
    [item EXCEPT !.checked = IF @ = 0 THEN now ELSE @,
                 !.updated = IF @ = 0 THEN now ELSE @]

\* Mutant: the backup's uid replaces that of the subscription it updates.
RestoreItemTakesUid(lib, item, now) ==
    LET target == Target(lib, item)
        sub == Stamped(item, now)
    IN  IF target # {} THEN Put(lib, Max(target), sub)
        ELSE Grown(lib, [sub EXCEPT !.uid = IF Remote(item) \/ item.uid = 0
                                            THEN lib.next ELSE item.uid])

\* One entry of a backup: the backup's word stands, the identity is kept.
RestoreItem(lib, item, now) ==
    LET target == Target(lib, item)
        sub == Stamped(item, now)
    IN  IF target # {}
        THEN LET i == IF Remote(item) THEN Max(target) ELSE Min(target)
             IN  Put(lib, i, [sub EXCEPT !.uid = lib.store[i].uid])
        ELSE Grown(lib,
               [sub EXCEPT !.uid = IF Remote(item) \/ item.uid = 0
                                   THEN lib.next ELSE item.uid])

\* The entries of a backup, the URLs of an add: one after the other.
RestoreAll(lib, file, now) ==
    LET after[b \in 0 .. MaxIds] ==
          IF b = 0 THEN lib
          ELSE IF file[b] = None THEN after[b - 1]
          ELSE RestoreItem(after[b - 1], file[b], now)
    IN  after[MaxIds]

AddAll(lib, urls, fetched, now) ==
    LET after[k \in 0 .. Len(urls)] ==
          IF k = 0 THEN lib
          ELSE MergeBySource(after[k - 1], urls[k], fetched[k], now)
    IN  after[Len(urls)]

Here == [store |-> store, next |-> nextId]

\* Bound: a request that would make more than MaxIds subscriptions is not made.
Fits(lib) == lib.next <= MaxIds + 1

-----------------------------------------------------------------------------
Init ==
    /\ store = [i \in Ids |-> None]
    /\ nextId = 1
    /\ backup = [i \in Ids |-> None]
    /\ days \in Ages
    /\ today = 1
    /\ job = [w \in Workers |-> Idle]
    /\ grace = [i \in Ids |-> 0]

\* What becomes known to be good: `good` says on which day, 0 if not.
Becomes(lib, good(_)) ==
    /\ Fits(lib)
    /\ store' = lib.store
    /\ nextId' = lib.next
    /\ grace' = [i \in Ids |-> IF lib.store[i] = None THEN 0
                               ELSE Max({good(i),
                                         IF store[i] = None THEN 0 ELSE grace[i]})]

StartAdd(w, urls) ==
    /\ job[w] = Idle
    /\ job' = [job EXCEPT ![w] = [kind |-> "add", urls |-> urls]]
    /\ UNCHANGED <<store, nextId, backup, days, today, grace>>

\* The URLs were fetched one after the other; all are merged under one lock.
FinishAdd(w) ==
    /\ job[w].kind = "add"
    /\ job' = [job EXCEPT ![w] = Idle]
    /\ \E fetched \in [DOMAIN job[w].urls -> SUBSET Nodes] :
          Becomes(AddAll(Here, job[w].urls, fetched, today),
                  LAMBDA i : IF store[i] = None THEN today ELSE 0)
    /\ UNCHANGED <<backup, days, today>>

Paste(name, S) ==
    /\ S # {}
    /\ Becomes(Grown(Here,
                 [source |-> Pasted, uid |-> nextId, name |-> name,
                  verdict |-> Untested(S), error |-> FALSE, checked |-> today,
                  updated |-> today, healthy |-> 0]),
               LAMBDA i : IF store[i] = None THEN today ELSE 0)
    /\ UNCHANGED <<backup, days, today, job>>

\* do_refresh_one, before the fetch: the user's or the scheduler's.
StartRefresh(w, i) ==
    /\ job[w] = Idle
    /\ i \in Present(store)
    /\ job' = [job EXCEPT ![w] = [kind |-> "refresh", id |-> i,
                                  remote |-> Remote(store[i])]]
    /\ UNCHANGED <<store, nextId, backup, days, today, grace>>

\* What a refresh makes of a subscription that is still there.
Refreshed(old, remote, S, now) ==
    CASE ~remote -> [old EXCEPT !.checked = now, !.updated = now]
      [] remote /\ S = {} -> [old EXCEPT !.checked = now, !.error = TRUE]
      [] OTHER -> [old EXCEPT !.checked = now, !.updated = now, !.error = FALSE,
                              !.verdict = Merged(@, S)]

\* Mutant: the subscription is written back under its id, gone or not.
FinishRefreshRevives(w) ==
    /\ job[w].kind = "refresh"
    /\ \E S \in SUBSET Nodes \ {{}} :
          LET i == job[w].id
              old == IF store[i] # None THEN store[i]
                     ELSE [source |-> Pasted, uid |-> i, name |-> CHOOSE m \in Names : TRUE,
                           verdict |-> Untested(S), error |-> FALSE, checked |-> today,
                           updated |-> today, healthy |-> 0]
          IN  Becomes(Put(Here, i, Refreshed(old, job[w].remote, S, today)),
                      LAMBDA k : 0)
    /\ job' = [job EXCEPT ![w] = Idle]
    /\ UNCHANGED <<backup, days, today>>

\* After the fetch: the id may be gone.
FinishRefresh(w) ==
    /\ job[w].kind = "refresh"
    /\ job' = [job EXCEPT ![w] = Idle]
    /\ LET i == job[w].id
       IN  IF store[i] = None
           THEN UNCHANGED <<store, nextId, grace>>
           ELSE \E S \in SUBSET Nodes :
                   Becomes(Put(Here, i, Refreshed(store[i], job[w].remote, S, today)),
                           LAMBDA k : 0)
    /\ UNCHANGED <<backup, days, today>>

\* The client of an add or refresh hangs up while it is being fetched.
Disconnect(w) ==
    /\ job[w] # Idle
    /\ job' = [job EXCEPT ![w] = Idle]
    /\ UNCHANGED <<store, nextId, backup, days, today, grace>>

\* Mutant: the day a node was last up is not written down.
WriteBackUnstamped(T, U) ==
    /\ T # {} /\ U \subseteq T
    /\ LET judged(s) == [s EXCEPT !.verdict = [n \in Nodes |->
                           IF s.verdict[n] = "absent" \/ n \notin T THEN s.verdict[n]
                           ELSE IF n \in U THEN "up" ELSE "down"]]
       IN  Becomes([Here EXCEPT !.store = [i \in Ids |->
                      IF store[i] = None THEN None ELSE judged(store[i])]],
                   LAMBDA i : IF store[i] # None /\ HasUp(judged(store[i])) THEN today ELSE 0)
    /\ UNCHANGED <<backup, days, today, job>>

\* persist_results of some run (NodeHealth has the runs): the nodes T were
\* tested, U found usable, wherever they now are.
WriteBack(T, U) ==
    /\ T # {} /\ U \subseteq T
    /\ LET judged(s) == [s EXCEPT !.verdict = [n \in Nodes |->
                           IF s.verdict[n] = "absent" \/ n \notin T THEN s.verdict[n]
                           ELSE IF n \in U THEN "up" ELSE "down"]]
           stamped(s) == IF HasUp(s) THEN [s EXCEPT !.healthy = today] ELSE s
       IN  Becomes([Here EXCEPT !.store = [i \in Ids |->
                      IF store[i] = None THEN None ELSE stamped(judged(store[i]))]],
                   LAMBDA i : IF store[i] # None /\ HasUp(judged(store[i])) THEN today ELSE 0)
    /\ UNCHANGED <<backup, days, today, job>>

\* export_subscriptions; a backup of an older version has no uids.
Export ==
    /\ \E version \in Backups :
          backup' = [i \in Ids |-> IF store[i] # None /\ version = "old"
                                   THEN [store[i] EXCEPT !.uid = 0] ELSE store[i]]
    /\ UNCHANGED <<store, nextId, days, today, job, grace>>

\* import_subscriptions: one critical section, no await.
Restore ==
    /\ LET lib == RestoreAll(Here, backup, today)
       IN  /\ Fits(lib)
           /\ store' = lib.store
           /\ nextId' = lib.next
           /\ grace' = [i \in Ids |-> IF lib.store[i] = store[i] THEN grace[i] ELSE 0]
    /\ UNCHANGED <<backup, days, today, job>>

Without(D) == [Here EXCEPT !.store = [i \in Ids |-> IF i \in D THEN None ELSE store[i]]]

Delete(i) ==
    /\ i \in Present(store)
    /\ Becomes(Without({i}), LAMBDA k : 0)
    /\ UNCHANGED <<backup, days, today, job>>

\* delete_proxy.
DeleteNode(i, n) ==
    /\ i \in Present(store)
    /\ store[i].verdict[n] # "absent"
    /\ Becomes(Put(Here, i, [store[i] EXCEPT !.verdict[n] = "absent"]), LAMBDA k : 0)
    /\ UNCHANGED <<backup, days, today, job>>

\* cleanup_bad.
CleanupBad ==
    /\ Becomes([Here EXCEPT !.store = [i \in Ids |->
                  IF store[i] = None THEN None
                  ELSE [store[i] EXCEPT !.verdict = [n \in Nodes |->
                          IF @[n] = "down" THEN "absent" ELSE @[n]]]]],
               LAMBDA k : 0)
    /\ UNCHANGED <<backup, days, today, job>>

\* When the prune starts counting.
Since(s) ==
    CASE s.healthy # 0 -> s.healthy
      [] s.healthy = 0 /\ s.checked # 0 -> s.checked
      [] OTHER -> s.updated

Dead(s) == ~HasUp(s) /\ Since(s) # 0 /\ today - Since(s) >= days

\* prune_dead_subscriptions: after each round of either scheduler, or at the
\* user's request.
Prune ==
    /\ days > 0
    /\ Becomes(Without({i \in Present(store) : Dead(store[i])}), LAMBDA k : 0)
    /\ UNCHANGED <<backup, days, today, job>>

SetDays ==
    /\ days' \in Ages \ {days}
    /\ UNCHANGED <<store, nextId, backup, today, job, grace>>

\* A fetch lasts seconds; none is taken to last over midnight.
NextDay ==
    /\ today < MaxDay
    /\ \A w \in Workers : job[w] = Idle
    /\ today' = today + 1
    /\ UNCHANGED <<store, nextId, backup, days, job, grace>>

Next ==
    \/ \E w \in Workers :
          \/ \E urls \in Batches : StartAdd(w, urls)
          \/ \E i \in Ids : StartRefresh(w, i)
          \/ FinishAdd(w) \/ FinishRefresh(w) \/ Disconnect(w)
    \/ \E name \in Names, S \in SUBSET Nodes : Paste(name, S)
    \/ \E T \in SUBSET Nodes : \E U \in SUBSET T : WriteBack(T, U)
    \/ \E i \in Ids : Delete(i) \/ \E n \in Nodes : DeleteNode(i, n)
    \/ Export \/ Restore \/ CleanupBad \/ Prune \/ SetDays \/ NextDay

Spec == Init /\ [][Next]_vars

-----------------------------------------------------------------------------
(* Properties *)

Jobs ==
    {Idle}
      \cup [kind : {"add"}, urls : Batches]
      \cup [kind : {"refresh"}, id : Ids, remote : BOOLEAN]

TypeOK ==
    /\ store \in [Ids -> Subscriptions \cup {None}]
    /\ nextId \in 1 .. MaxIds + 1
    /\ backup \in [Ids -> Subscriptions \cup {None}]
    /\ days \in Ages
    /\ today \in 1 .. MaxDay
    /\ job \in [Workers -> Jobs]
    /\ grace \in [Ids -> Days]

\* However adds of one URL, in one request or in two that fetch at the same
\* time, and restores of it meet: a URL has one subscription, and so has a uid,
\* by which a backup finds a pasted one.
IdentitiesUnique ==
    \A i, j \in Present(store) :
        \/ Remote(store[i]) /\ store[i].source = store[j].source
        \/ store[i].uid = store[j].uid
        => i = j

\* An id stands for one source and one uid as long as it lives, so a refresh
\* under way or a link in the user's hands means what it meant.
IdKeepsIdentity ==
    [][\A i \in Present(store) : store'[i] # None =>
          /\ store'[i].source = store[i].source
          /\ store'[i].uid = store[i].uid]_vars

\* A fetch that ends after its subscription was deleted, pruned or restored
\* under another id does not bring it back.
DeletedStaysDeleted ==
    [][\A i \in Ids : i < nextId /\ store[i] = None => store'[i] = None]_vars

\* The request names the URL more than once.
Repeated(j, url) ==
    j.kind = "add" /\ \E k, l \in DOMAIN j.urls : k # l /\ j.urls[k] = url /\ j.urls[l] = url

\* A node that survives a fetch keeps the verdict it has when the fetch ends,
\* that of a run which wrote back while it was under way included (two fetches
\* of one request may drop it and bring it back); and no fetch, whatever it
\* brought, leaves a subscription that had nodes with none.
FetchForgetsNothing ==
    [][\A w \in Workers : FinishAdd(w) \/ FinishRefresh(w) =>
          \A i \in Present(store) :
             /\ NodesOf(store[i]) # {} => NodesOf(store'[i]) # {}
             /\ \A n \in NodesOf(store[i]) \cap NodesOf(store'[i]) :
                   \/ store'[i].verdict[n] = store[i].verdict[n]
                   \/ Repeated(job[w], store[i].source) /\ store'[i].verdict[n] = "untested"]_vars

\* After a restore every entry of the backup is there, with its nodes.
RestoreBringsBackEverything ==
    [][Restore =>
          \A b \in Present(backup) : \E i \in Ids :
             /\ store'[i] # None
             /\ store'[i].source = backup[b].source
             /\ backup[b].uid # 0 /\ ~Remote(backup[b]) => store'[i].uid = backup[b].uid
             /\ store'[i].verdict = backup[b].verdict]_vars

\* A subscription that was added or pasted is not pruned before as many days
\* have gone by as the setting says: since it came, and since the last test
\* that left it with a node that is up.
PruneGivesGrace ==
    [][\A i \in Present(store) : (Prune /\ store'[i] = None) =>
          today >= grace[i] + days]_vars
=============================================================================

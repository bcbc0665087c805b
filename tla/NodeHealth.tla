----------------------------- MODULE NodeHealth -----------------------------
(***************************************************************************)
(* The verdict SubHub keeps on every node of every subscription, and the   *)
(* runs that renew it: speed tests, the tests of the nodes a fetch brought *)
(* and the periodic TCP-only check.  A run copies its nodes, awaits their  *)
(* probes with no lock held, and writes back by fingerprint whatever the   *)
(* library, the engine setting and the threshold have become meanwhile.    *)
(* Verdicts also come from backups, which hold what they were when the     *)
(* backup was made.                                                        *)
(*                                                                         *)
(* A node is its fingerprint; `latency` and `http` say whether it shows a   *)
(* latency and an HTTP latency (its TCP latency is always the last one     *)
(* seen, and left out).  Bandwidth probing is switched off, so no speed is *)
(* measured and `measured` says that the engine got through.               *)
(***************************************************************************)
EXTENDS Naturals, FiniteSets

CONSTANTS
    Nodes,          \* fingerprints
    Subs,           \* subscriptions
    Runs,           \* test runs that may be under way at one time
    Loopback,       \* nodes whose server is a local address
    Enabled,        \* subscriptions whose health.enabled is set
    Engines,        \* values the engine setting takes: configured or not
    Thresholds,     \* values remove_after_fails takes
    Older,          \* whether backups were written by an older version or not
    MaxFails        \* where consecutive_failures saturates

ASSUME NodeHealthAssumption ==
    /\ IsFiniteSet(Nodes)
    /\ Loopback \subseteq Nodes
    /\ Enabled \subseteq Subs
    /\ Engines \subseteq BOOLEAN /\ Engines # {}
    /\ Thresholds \subseteq Nat /\ 0 \in Thresholds
    /\ Older \subseteq BOOLEAN
    /\ MaxFails \in Nat

VARIABLES
    members,    \* the nodes of each subscription
    node,       \* what each subscription has recorded of each node
    counts,     \* SubscriptionHealth's derived counts, as stored
    healthy,    \* has each subscription's last_healthy_at been stamped?
    engine,     \* AppState.engine_bin is set
    threshold,  \* AppState.remove_after_fails
    phase,      \* where each run is
    targets,    \* the nodes each run tests
    result,     \* what a run's probes found
    backup,     \* an entry of a backup file: one subscription
    streak,     \* history: failed tests in a row, of each node
    legacy      \* history: restored from a backup without last_healthy_at,
                \* and no run has written back since

vars == <<members, node, counts, healthy, engine, threshold,
          phase, targets, result, backup, streak, legacy>>

lib == <<members, node, counts, healthy, streak, legacy>>
setup == <<engine, threshold>>
run == <<phase, targets, result>>

-----------------------------------------------------------------------------
Verdicts == {"untested", "up", "down"}

Records == [available : Verdicts, latency : BOOLEAN, http : BOOLEAN,
            measured : BOOLEAN, fails : 0 .. MaxFails]

Untested == [available |-> "untested", latency |-> FALSE, http |-> FALSE,
             measured |-> FALSE, fails |-> 0]

\* `tcp` is "none" when the run was cancelled before the node's turn, `http`
\* when the engine did not run for it: none configured, it did not start, or
\* it cannot represent the node.
Results == [tcp : {"none", "ok", "fail"}, http : {"none", "ok", "fail"}]

NoResult == [tcp |-> "none", http |-> "none"]

\* Mutant: the counter does not saturate.
OneMoreForever(n) == n + 1

\* u32::saturating_add(1).
OneMore(n) == IF n < MaxFails THEN n + 1 ELSE MaxFails

\* Mutant: the figures of the last good test stay.
DownKeepsFigures(p) ==
    [p EXCEPT !.available = "down", !.measured = FALSE, !.fails = OneMore(@)]

\* A test found the node unusable: stale figures go, a failure is counted.
Down(p) ==
    [p EXCEPT !.available = "down", !.latency = FALSE, !.measured = FALSE,
              !.fails = OneMore(@)]

\* The engine is configured but said nothing of the node.
TcpOnly(res) == engine /\ res.http = "none"

Usable(res) == IF engine THEN res.http = "ok" ELSE res.tcp = "ok"

\* What the run itself saw, without regard to the verdict it leads to.
Reached(res) == IF TcpOnly(res) THEN res.tcp = "ok" ELSE Usable(res)

\* Mutants: a TCP answer counts as a verdict; a good test leaves the count.
VerdictTrustsTcp(p, n, res) ==
    CASE n \in Loopback -> [Untested EXCEPT !.fails = p.fails]
      [] n \notin Loopback /\ res.tcp = "ok" ->
            [p EXCEPT !.available = "up", !.latency = TRUE, !.fails = 0]
      [] OTHER -> Down(p)

VerdictNeverForgives(p, n, res) ==
    CASE n \in Loopback -> [Untested EXCEPT !.fails = p.fails]
      [] n \notin Loopback /\ Reached(res) ->
            [p EXCEPT !.available = "up", !.latency = TRUE]
      [] OTHER -> Down(p)

\* persist_results, one node: loopback nodes have no figures, a run without
\* the engine can only demote, a full run decides.
Verdict(p, n, res) ==
    LET seen == IF res.http = "none" THEN p ELSE [p EXCEPT !.http = res.http = "ok"]
        good == IF res.http = "none" THEN seen ELSE [seen EXCEPT !.measured = res.http = "ok"]
    IN  CASE n \in Loopback -> [Untested EXCEPT !.fails = p.fails]
          [] n \notin Loopback /\ TcpOnly(res) ->
                IF res.tcp = "ok" THEN p ELSE Down(p)
          [] OTHER ->
                IF Usable(res)
                THEN [good EXCEPT !.available = "up", !.latency = TRUE, !.fails = 0]
                ELSE Down(seen)

\* Auto-removal: found unusable, and often enough.
WornOut(p) == threshold > 0 /\ p.available = "down" /\ p.fails >= threshold

\* SubscriptionHealth::recompute.
Count(S, rec) ==
    [nodes   |-> Cardinality(S),
     healthy |-> Cardinality({n \in S : rec[n].available = "up"}),
     unknown |-> Cardinality({n \in S : rec[n].available = "untested"})]

Counts == [nodes : Nat, healthy : Nat, unknown : Nat]

\* SubExportItem, with the history of what it holds.
Entries == [members : SUBSET Nodes, node : [Nodes -> Records], healthy : BOOLEAN,
            streak : [Nodes -> 0 .. MaxFails], legacy : BOOLEAN]

EmptyEntry == [members |-> {}, node |-> [n \in Nodes |-> Untested], healthy |-> FALSE,
               streak |-> [n \in Nodes |-> 0], legacy |-> FALSE]

AllNodes(S) == UNION {members[s] : s \in S}

-----------------------------------------------------------------------------
Init ==
    /\ members = [s \in Subs |-> {}]
    /\ node = [s \in Subs |-> [n \in Nodes |-> Untested]]
    /\ counts = [s \in Subs |-> [nodes |-> 0, healthy |-> 0, unknown |-> 0]]
    /\ healthy = [s \in Subs |-> FALSE]
    /\ engine \in Engines
    /\ threshold \in Thresholds
    /\ phase = [r \in Runs |-> "idle"]
    /\ targets = [r \in Runs |-> {}]
    /\ result = [r \in Runs |-> [n \in Nodes |-> NoResult]]
    /\ backup = EmptyEntry
    /\ streak = [s \in Subs |-> [n \in Nodes |-> 0]]
    /\ legacy = [s \in Subs |-> FALSE]

Begin(r, kind, T) ==
    /\ phase' = [phase EXCEPT ![r] = kind]
    /\ targets' = [targets EXCEPT ![r] = T]
    /\ UNCHANGED result

\* The library keeps only S of the nodes of s, with what it knows of them.
Keep(s, S) ==
    /\ members' = [members EXCEPT ![s] = S]
    /\ node' = [node EXCEPT ![s] =
                  [n \in Nodes |-> IF n \in S THEN node[s][n] ELSE Untested]]
    /\ streak' = [streak EXCEPT ![s] =
                    [n \in Nodes |-> IF n \in S THEN streak[s][n] ELSE 0]]

Recounted(s) == counts' = [counts EXCEPT ![s] = Count(members'[s], node'[s])]

\* A fetch (add, paste or refresh) of s brought the nodes S: those it had keep
\* their figures, those upstream dropped go, new ones are tested by run r.
\* Only a refresh recomputes the counts.
Fetch(r, s, S) ==
    /\ phase[r] = "idle"
    /\ S # {}
    /\ Keep(s, S)
    /\ Recounted(s) \/ UNCHANGED counts
    /\ IF S \subseteq members[s]
       THEN UNCHANGED run
       ELSE Begin(r, "fresh", S \ members[s])
    /\ UNCHANGED <<healthy, legacy, setup, backup>>

\* A speed test the user starts: any of the nodes, by mode or by choice.
StartTest(r, T) ==
    /\ phase[r] = "idle"
    /\ T # {} /\ T \subseteq AllNodes(Subs)
    /\ Begin(r, "testing", T)
    /\ UNCHANGED <<lib, setup, backup>>

\* The periodic check takes every node of the enabled subscriptions.
StartCheck(r) ==
    /\ phase[r] = "idle"
    /\ AllNodes(Enabled) # {}
    /\ Begin(r, "checking", AllNodes(Enabled))
    /\ UNCHANGED <<lib, setup, backup>>

\* The probes end, or stop short when the listener of a speed test is gone.
\* The engine setting is read after the TCP pings.
Probed(r, res, to) ==
    /\ result' = [result EXCEPT ![r] = res]
    /\ phase' = [phase EXCEPT ![r] = to]
    /\ UNCHANGED <<lib, setup, targets, backup>>

ProbeTest(r) ==
    /\ phase[r] \in {"testing", "fresh"}
    /\ \E done \in SUBSET targets[r] :
       \E tcp \in [done -> {"ok", "fail"}],
          http \in [done -> IF engine THEN {"none", "ok", "fail"} ELSE {"none"}] :
            /\ phase[r] = "fresh" => done = targets[r]
            /\ Probed(r, [n \in Nodes |-> IF n \in done
                                          THEN [tcp |-> tcp[n], http |-> http[n]]
                                          ELSE NoResult], "tested")

ProbeCheck(r) ==
    /\ phase[r] = "checking"
    /\ \E tcp \in [targets[r] -> {"ok", "fail"}] :
          Probed(r, [n \in Nodes |-> IF n \in targets[r]
                                     THEN [tcp |-> tcp[n], http |-> "none"]
                                     ELSE NoResult], "checked")

\* The client of an add, paste or refresh hangs up: its handler is dropped.
Disconnect(r) ==
    /\ phase[r] = "fresh"
    /\ phase' = [phase EXCEPT ![r] = "idle"]
    /\ targets' = [targets EXCEPT ![r] = {}]
    /\ UNCHANGED <<lib, setup, result, backup>>

\* What run r says of node n in subscription s.
Judged(r, s, n) ==
    IF n \in members[s] /\ result[r][n].tcp # "none"
    THEN Verdict(node[s][n], n, result[r][n])
    ELSE node[s][n]

Survivors(r, s) == {n \in members[s] : ~WornOut(Judged(r, s, n))}

FailedInARow(r, s, n) ==
    IF result[r][n].tcp = "none" THEN streak[s][n]
    ELSE IF Reached(result[r][n]) \/ n \in Loopback THEN 0 ELSE OneMore(streak[s][n])

Done(r) ==
    /\ phase' = [phase EXCEPT ![r] = "idle"]
    /\ targets' = [targets EXCEPT ![r] = {}]
    /\ result' = [result EXCEPT ![r] = [n \in Nodes |-> NoResult]]

\* Mutant: only the subscriptions whose nodes runs test are stamped.
WriteBackStampsTested(r) ==
    /\ phase[r] \in {"tested", "checked"}
    /\ members' = [s \in Subs |-> Survivors(r, s)]
    /\ node' = [s \in Subs |-> [n \in Nodes |->
                  IF n \in Survivors(r, s) THEN Judged(r, s, n) ELSE Untested]]
    /\ streak' = [s \in Subs |-> [n \in Nodes |->
                    IF n \in Survivors(r, s) THEN FailedInARow(r, s, n) ELSE 0]]
    /\ healthy' = [s \in Subs |->
                     \/ healthy[s]
                     \/ s \in Enabled /\ \E n \in members'[s] : node'[s][n].available = "up"]
    /\ legacy' = [s \in Subs |-> FALSE]
    /\ Done(r)
    /\ UNCHANGED <<counts, setup, backup>>

\* persist_results: the verdicts in every subscription that has the node,
\* the auto-removal in every subscription, then the stamp.
WriteBack(r) ==
    /\ phase[r] \in {"tested", "checked"}
    /\ members' = [s \in Subs |-> Survivors(r, s)]
    /\ node' = [s \in Subs |-> [n \in Nodes |->
                  IF n \in Survivors(r, s) THEN Judged(r, s, n) ELSE Untested]]
    /\ streak' = [s \in Subs |-> [n \in Nodes |->
                    IF n \in Survivors(r, s) THEN FailedInARow(r, s, n) ELSE 0]]
    /\ healthy' = [s \in Subs |-> healthy[s] \/
                     \E n \in members'[s] : node'[s][n].available = "up"]
    /\ legacy' = [s \in Subs |-> FALSE]
    /\ Done(r)
    /\ UNCHANGED <<counts, setup, backup>>

\* delete_proxy.
DeleteNode(s, n) ==
    /\ n \in members[s]
    /\ Keep(s, members[s] \ {n})
    /\ Recounted(s)
    /\ UNCHANGED <<healthy, legacy, setup, run, backup>>

\* delete_subscription; a subscription added later starts from nothing.
DeleteSub(s) ==
    /\ Keep(s, {})
    /\ healthy' = [healthy EXCEPT ![s] = FALSE]
    /\ legacy' = [legacy EXCEPT ![s] = FALSE]
    /\ Recounted(s)
    /\ UNCHANGED <<setup, run, backup>>

\* cleanup_bad: every node found unusable goes, in all subscriptions.
CleanupBad ==
    LET good(s) == {n \in members[s] : node[s][n].available # "down"}
    IN  /\ members' = [s \in Subs |-> good(s)]
        /\ node' = [s \in Subs |-> [n \in Nodes |->
                      IF n \in good(s) THEN node[s][n] ELSE Untested]]
        /\ streak' = [s \in Subs |-> [n \in Nodes |->
                        IF n \in good(s) THEN streak[s][n] ELSE 0]]
        /\ counts' = [s \in Subs |-> IF good(s) = members[s] THEN counts[s]
                                     ELSE Count(good(s), node[s])]
        /\ UNCHANGED <<healthy, legacy, setup, run, backup>>

\* export_subscriptions, the entry of s.
Export(s) ==
    /\ backup' = [members |-> members[s], node |-> node[s], healthy |-> healthy[s],
                  streak |-> streak[s], legacy |-> legacy[s]]
    /\ UNCHANGED <<lib, setup, run>>

\* import_subscriptions, one entry: the list of the subscription it finds, or
\* appends, becomes that of the backup, verdicts, counts of failures and stamp
\* included; a backup an older version wrote has no stamp.
Restore(s, old) ==
    /\ members' = [members EXCEPT ![s] = backup.members]
    /\ node' = [node EXCEPT ![s] = backup.node]
    /\ streak' = [streak EXCEPT ![s] = backup.streak]
    /\ healthy' = [healthy EXCEPT ![s] = ~old /\ backup.healthy]
    /\ legacy' = [legacy EXCEPT ![s] = old \/ backup.legacy]
    /\ Recounted(s)
    /\ UNCHANGED <<setup, run, backup>>

\* apply_settings, the two settings that runs read.
SetEngine ==
    /\ engine' \in Engines \ {engine}
    /\ UNCHANGED <<lib, threshold, run, backup>>

SetThreshold ==
    /\ threshold' \in Thresholds \ {threshold}
    /\ UNCHANGED <<lib, engine, run, backup>>

Next ==
    \/ \E r \in Runs, s \in Subs, S \in SUBSET Nodes : Fetch(r, s, S)
    \/ \E r \in Runs, T \in SUBSET Nodes : StartTest(r, T)
    \/ \E r \in Runs : StartCheck(r) \/ ProbeTest(r) \/ ProbeCheck(r)
                         \/ Disconnect(r) \/ WriteBack(r)
    \/ \E s \in Subs, n \in Nodes : DeleteNode(s, n)
    \/ \E s \in Subs : DeleteSub(s) \/ Export(s)
    \/ \E s \in Subs, old \in Older : Restore(s, old)
    \/ CleanupBad \/ SetEngine \/ SetThreshold

Spec == Init /\ [][Next]_vars

-----------------------------------------------------------------------------
(* Properties *)

TypeOK ==
    /\ members \in [Subs -> SUBSET Nodes]
    /\ node \in [Subs -> [Nodes -> Records]]
    /\ counts \in [Subs -> Counts]
    /\ healthy \in [Subs -> BOOLEAN]
    /\ engine \in Engines
    /\ threshold \in Thresholds
    /\ phase \in [Runs -> {"idle", "fresh", "testing", "checking", "tested", "checked"}]
    /\ targets \in [Runs -> SUBSET Nodes]
    /\ result \in [Runs -> [Nodes -> Results]]
    /\ backup \in Entries
    /\ streak \in [Subs -> [Nodes -> 0 .. MaxFails]]
    /\ legacy \in [Subs -> BOOLEAN]

\* However runs, fetches, clean-ups, restores and changes of the settings
\* interleave, a node shows a latency exactly when it is up, is called measured
\* only when it is up and the engine got through, and owes no failure when up.
Coherent(p) ==
    /\ p.latency <=> p.available = "up"
    /\ p.measured => p.available = "up" /\ p.http
    /\ p.available = "up" => p.fails = 0

FiguresMatchVerdict == \A s \in Subs, n \in Nodes : Coherent(node[s][n])

SomeUp(s) == \E n \in members[s] : node[s][n].available = "up"

\* A subscription with a node that is up has been stamped, so that the day
\* the node is lost the prune has a date to count from: a disabled one too,
\* which gets verdicts from runs that did not take their nodes from it, and
\* one restored from a backup.  The only exception is a list that goes back to
\* a backup of an older version, and it ends with the next write-back.
UpMeansStamped == \A s \in Subs : SomeUp(s) => healthy[s] \/ legacy[s]

\* With an engine configured a node turns up only on the word of the engine,
\* whatever the setting was when the run began, or with a backup that was made
\* while it was up.
EngineHasTheLastWord ==
    [][\A s \in Subs, n \in Nodes :
          (engine /\ node[s][n].available # "up" /\ node'[s][n].available = "up")
             => \/ \E r \in Runs : /\ phase[r] = "tested" /\ WriteBack(r)
                                   /\ result[r][n].http = "ok"
                \/ \E old \in Older :
                      Restore(s, old) /\ backup.node[n].available = "up"]_vars

\* A node is removed only after as many failed tests in a row as the
\* threshold asks for: a single test that reaches it starts the count anew.
\* For a restored node those the backup counted come first.
RemovedAfterRunOfFailures ==
    [][\A r \in Runs : WriteBack(r) =>
          \A s \in Subs : \A n \in members[s] \ members'[s] :
             threshold > 0 /\ FailedInARow(r, s, n) >= threshold]_vars
=============================================================================

-------------------------- MODULE NodeHealthProofs --------------------------
(***************************************************************************)
(* Proofs about NodeHealth, for any nodes, subscriptions, runs, settings   *)
(* and saturation bound.                                                   *)
(***************************************************************************)
EXTENDS NodeHealth, FiniteSetTheorems, TLAPS

USE NodeHealthAssumption

\* One more failure is still within the bound.
LEMMA OneMoreType == \A n \in 0 .. MaxFails : OneMore(n) \in 0 .. MaxFails
  BY DEF OneMore

LEMMA RecordsAreTyped ==
  /\ Untested \in Records
  /\ \A p \in Records : Down(p) \in Records
  /\ \A p \in Records, n \in Nodes, res \in Results : Verdict(p, n, res) \in Records
<1>1. Untested \in Records
  BY DEF Untested, Records, Verdicts
<1>2. \A p \in Records : Down(p) \in Records
  BY OneMoreType DEF Down, Records, Verdicts
<1>3. ASSUME NEW p \in Records, NEW n \in Nodes, NEW res \in Results
      PROVE  Verdict(p, n, res) \in Records
  <2>1. [Untested EXCEPT !.fails = p.fails] \in Records
    BY DEF Untested, Records, Verdicts
  <2>2. ASSUME NEW seen \in Records
        PROVE  /\ [seen EXCEPT !.http = (res.http = "ok")] \in Records
               /\ [seen EXCEPT !.measured = (res.http = "ok")] \in Records
               /\ [seen EXCEPT !.available = "up", !.latency = TRUE, !.fails = 0] \in Records
    <3>1. \A b \in BOOLEAN : /\ [seen EXCEPT !.http = b] \in Records
                            /\ [seen EXCEPT !.measured = b] \in Records
      BY DEF Records
    <3>2. [seen EXCEPT !.available = "up", !.latency = TRUE, !.fails = 0] \in Records
      <4>1. 0 \in 0 .. MaxFails /\ "up" \in Verdicts
        BY DEF Verdicts
      <4>. QED BY <4>1 DEF Records
    <3>. QED BY <3>1, <3>2
  <2>. QED BY <1>2, <2>1, <2>2 DEF Verdict
<1>. QED BY <1>1, <1>2, <1>3

\* Counting the nodes of a subscription gives numbers.
LEMMA CountType == ASSUME NEW S \in SUBSET Nodes, NEW rec
                   PROVE  Count(S, rec) \in Counts
<1>1. IsFiniteSet(S)
  BY FS_Subset
<1>2. /\ IsFiniteSet({n \in S : rec[n].available = "up"})
      /\ IsFiniteSet({n \in S : rec[n].available = "untested"})
  BY <1>1, FS_Subset
<1>. QED BY <1>1, <1>2, FS_CardinalityType DEF Count, Counts

-----------------------------------------------------------------------------
(* Every variable keeps its type. *)

LEMMA JudgedType ==
  ASSUME TypeOK, NEW r \in Runs, NEW s \in Subs, NEW n \in Nodes
  PROVE  Judged(r, s, n) \in Records
  BY RecordsAreTyped DEF TypeOK, Judged

LEMMA KeepType ==
  ASSUME TypeOK, NEW s \in Subs, NEW S \in SUBSET Nodes, Keep(s, S)
  PROVE  /\ members' \in [Subs -> SUBSET Nodes]
         /\ node' \in [Subs -> [Nodes -> Records]]
         /\ streak' \in [Subs -> [Nodes -> 0 .. MaxFails]]
  BY RecordsAreTyped DEF TypeOK, Keep

LEMMA RecountedType ==
  ASSUME TypeOK, NEW s \in Subs, members' \in [Subs -> SUBSET Nodes], Recounted(s)
  PROVE  counts' \in [Subs -> Counts]
  BY CountType DEF TypeOK, Recounted

LEMMA BackupType ==
  ASSUME TypeOK
  PROVE  /\ EmptyEntry \in Entries
         /\ backup.members \in SUBSET Nodes
         /\ backup.node \in [Nodes -> Records]
         /\ backup.healthy \in BOOLEAN
         /\ backup.streak \in [Nodes -> 0 .. MaxFails]
         /\ backup.legacy \in BOOLEAN
  BY RecordsAreTyped DEF TypeOK, Entries, EmptyEntry

LEMMA RestoreType ==
  ASSUME TypeOK, NEW s \in Subs, NEW old \in Older, Restore(s, old)
  PROVE  TypeOK'
<1>1. /\ members' \in [Subs -> SUBSET Nodes]
      /\ node' \in [Subs -> [Nodes -> Records]]
      /\ streak' \in [Subs -> [Nodes -> 0 .. MaxFails]]
      /\ healthy' \in [Subs -> BOOLEAN]
      /\ legacy' \in [Subs -> BOOLEAN]
  BY BackupType DEF TypeOK, Restore
<1>2. counts' \in [Subs -> Counts]
  BY <1>1, RecountedType DEF Restore
<1>. QED BY <1>1, <1>2 DEF TypeOK, Restore, setup, run

LEMMA WriteBackType ==
  ASSUME TypeOK, NEW r \in Runs, WriteBack(r)
  PROVE  TypeOK'
<1>1. members' \in [Subs -> SUBSET Nodes]
  BY DEF TypeOK, WriteBack, Survivors
<1>2. node' \in [Subs -> [Nodes -> Records]]
  BY JudgedType, RecordsAreTyped DEF WriteBack
<1>3. streak' \in [Subs -> [Nodes -> 0 .. MaxFails]]
  <2>1. \A s \in Subs, n \in Nodes : FailedInARow(r, s, n) \in 0 .. MaxFails
    BY OneMoreType DEF TypeOK, FailedInARow
  <2>. QED BY <2>1 DEF WriteBack
<1>4. healthy' \in [Subs -> BOOLEAN]
  BY DEF TypeOK, WriteBack
<1>5. NoResult \in Results
  BY DEF NoResult, Results
<1>6. /\ phase' \in [Runs -> {"idle", "fresh", "testing", "checking", "tested", "checked"}]
      /\ targets' \in [Runs -> SUBSET Nodes]
      /\ result' \in [Runs -> [Nodes -> Results]]
  BY <1>5 DEF TypeOK, WriteBack, Done
<1>7. /\ counts' \in [Subs -> Counts] /\ engine' \in Engines /\ threshold' \in Thresholds
      /\ backup' \in Entries /\ legacy' \in [Subs -> BOOLEAN]
  BY DEF TypeOK, WriteBack, setup
<1>. QED BY <1>1, <1>2, <1>3, <1>4, <1>6, <1>7 DEF TypeOK

LEMMA ProbedType ==
  ASSUME TypeOK, NEW r \in Runs, NEW res \in [Nodes -> Results],
         NEW to \in {"tested", "checked"}, Probed(r, res, to)
  PROVE  TypeOK'
  BY DEF TypeOK, Probed, lib, setup

LEMMA CleanupType ==
  ASSUME TypeOK, CleanupBad
  PROVE  TypeOK'
<1>. DEFINE good(s) == {n \in members[s] : node[s][n].available # "down"}
<1>1. \A s \in Subs : good(s) \in SUBSET Nodes
  BY DEF TypeOK
<1>2. members' \in [Subs -> SUBSET Nodes]
  BY <1>1 DEF CleanupBad
<1>3. node' \in [Subs -> [Nodes -> Records]]
  BY RecordsAreTyped DEF TypeOK, CleanupBad
<1>4. streak' \in [Subs -> [Nodes -> 0 .. MaxFails]]
  BY DEF TypeOK, CleanupBad
<1>5. counts' \in [Subs -> Counts]
  <2>1. \A s \in Subs : Count(good(s), node[s]) \in Counts
    BY <1>1, CountType
  <2>2. counts' = [s \in Subs |-> IF good(s) = members[s] THEN counts[s]
                                  ELSE Count(good(s), node[s])]
    BY DEF CleanupBad
  <2>. HIDE DEF good
  <2>. QED BY <2>1, <2>2 DEF TypeOK
<1>. QED BY <1>2, <1>3, <1>4, <1>5 DEF TypeOK, CleanupBad, setup, run

LEMMA InitType == Init => TypeOK
<1>. SUFFICES ASSUME Init PROVE TypeOK
  OBVIOUS
<1>1. NoResult \in Results
  BY DEF NoResult, Results
<1>2. [nodes |-> 0, healthy |-> 0, unknown |-> 0] \in Counts
  BY DEF Counts
<1>3. EmptyEntry \in Entries
  BY RecordsAreTyped DEF EmptyEntry, Entries
<1>. QED BY <1>1, <1>2, <1>3, RecordsAreTyped DEF Init, TypeOK

LEMMA NextType == TypeOK /\ [Next]_vars => TypeOK'
<1>. SUFFICES ASSUME TypeOK, [Next]_vars PROVE TypeOK'
  OBVIOUS
<1>1. ASSUME NEW r \in Runs, NEW s \in Subs, NEW S \in SUBSET Nodes, Fetch(r, s, S)
      PROVE  TypeOK'
  <2>1. Keep(s, S)
    BY <1>1 DEF Fetch
  <2>2. /\ members' \in [Subs -> SUBSET Nodes]
        /\ node' \in [Subs -> [Nodes -> Records]]
        /\ streak' \in [Subs -> [Nodes -> 0 .. MaxFails]]
    BY <2>1, KeepType
  <2>3. counts' \in [Subs -> Counts]
    <3>1. CASE Recounted(s)
      BY <2>2, <3>1, RecountedType
    <3>2. CASE UNCHANGED counts
      BY <3>2 DEF TypeOK
    <3>. QED BY <1>1, <3>1, <3>2 DEF Fetch
  <2>4. /\ phase' \in [Runs -> {"idle", "fresh", "testing", "checking", "tested", "checked"}]
        /\ targets' \in [Runs -> SUBSET Nodes]
        /\ result' \in [Runs -> [Nodes -> Results]]
    <3>1. CASE S \subseteq members[s]
      BY <1>1, <3>1 DEF TypeOK, Fetch, run
    <3>2. CASE ~(S \subseteq members[s])
      <4>1. Begin(r, "fresh", S \ members[s]) /\ S \ members[s] \in SUBSET Nodes
        BY <1>1, <3>2 DEF Fetch
      <4>. QED BY <4>1 DEF TypeOK, Begin
    <3>. QED BY <3>1, <3>2
  <2>. QED BY <1>1, <2>2, <2>3, <2>4 DEF TypeOK, Fetch, setup
<1>2. ASSUME NEW r \in Runs, NEW T \in SUBSET Nodes, StartTest(r, T)
      PROVE  TypeOK'
  BY <1>2 DEF TypeOK, StartTest, Begin, lib, setup
<1>3. ASSUME NEW r \in Runs, StartCheck(r)
      PROVE  TypeOK'
  <2>1. AllNodes(Enabled) \in SUBSET Nodes
    BY DEF TypeOK, AllNodes
  <2>. QED BY <1>3, <2>1 DEF TypeOK, StartCheck, Begin, lib, setup
<1>4. ASSUME NEW r \in Runs, ProbeTest(r)
      PROVE  TypeOK'
  <2>1. PICK done \in SUBSET targets[r] :
        \E tcp \in [done -> {"ok", "fail"}],
           http \in [done -> IF engine THEN {"none", "ok", "fail"} ELSE {"none"}] :
             Probed(r, [n \in Nodes |-> IF n \in done
                                        THEN [tcp |-> tcp[n], http |-> http[n]]
                                        ELSE NoResult], "tested")
    BY <1>4 DEF ProbeTest
  <2>2. PICK tcp \in [done -> {"ok", "fail"}],
             http \in [done -> IF engine THEN {"none", "ok", "fail"} ELSE {"none"}] :
             Probed(r, [n \in Nodes |-> IF n \in done
                                        THEN [tcp |-> tcp[n], http |-> http[n]]
                                        ELSE NoResult], "tested")
    BY <2>1
  <2>3. [n \in Nodes |-> IF n \in done THEN [tcp |-> tcp[n], http |-> http[n]]
                         ELSE NoResult] \in [Nodes -> Results]
    BY DEF Results, NoResult
  <2>. QED BY <2>2, <2>3, ProbedType
<1>5. ASSUME NEW r \in Runs, ProbeCheck(r)
      PROVE  TypeOK'
  <2>1. PICK tcp \in [targets[r] -> {"ok", "fail"}] :
          Probed(r, [n \in Nodes |-> IF n \in targets[r]
                                     THEN [tcp |-> tcp[n], http |-> "none"]
                                     ELSE NoResult], "checked")
    BY <1>5 DEF ProbeCheck
  <2>2. [n \in Nodes |-> IF n \in targets[r] THEN [tcp |-> tcp[n], http |-> "none"]
                         ELSE NoResult] \in [Nodes -> Results]
    BY DEF Results, NoResult
  <2>. QED BY <2>1, <2>2, ProbedType
<1>6. ASSUME NEW r \in Runs, Disconnect(r)
      PROVE  TypeOK'
  BY <1>6 DEF TypeOK, Disconnect, lib, setup
<1>7. ASSUME NEW r \in Runs, WriteBack(r)
      PROVE  TypeOK'
  BY <1>7, WriteBackType
<1>8. ASSUME NEW s \in Subs, NEW n \in Nodes, DeleteNode(s, n)
      PROVE  TypeOK'
  <2>1. Keep(s, members[s] \ {n}) /\ Recounted(s)
    BY <1>8 DEF DeleteNode
  <2>2. members[s] \ {n} \in SUBSET Nodes
    BY DEF TypeOK
  <2>3. counts' \in [Subs -> Counts]
    BY <2>1, <2>2, KeepType, RecountedType
  <2>. QED BY <1>8, <2>1, <2>2, <2>3, KeepType DEF TypeOK, DeleteNode, setup, run
<1>9. ASSUME NEW s \in Subs, DeleteSub(s)
      PROVE  TypeOK'
  <2>1. Keep(s, {}) /\ Recounted(s)
    BY <1>9 DEF DeleteSub
  <2>2. counts' \in [Subs -> Counts]
    BY <2>1, KeepType, RecountedType
  <2>. QED BY <1>9, <2>1, <2>2, KeepType DEF TypeOK, DeleteSub, setup, run
<1>10. CASE CleanupBad
  BY <1>10, CleanupType
<1>11. CASE SetEngine
  BY <1>11 DEF TypeOK, SetEngine, lib, run
<1>12. CASE SetThreshold
  BY <1>12 DEF TypeOK, SetThreshold, lib, run
<1>13. ASSUME NEW s \in Subs, Export(s)
       PROVE  TypeOK'
  <2>1. backup' \in Entries
    BY <1>13 DEF TypeOK, Export, Entries
  <2>. QED BY <1>13, <2>1 DEF TypeOK, Export, lib, setup, run
<1>14. ASSUME NEW s \in Subs, NEW old \in Older, Restore(s, old)
       PROVE  TypeOK'
  BY <1>14, RestoreType
<1>15. CASE UNCHANGED vars
  BY <1>15 DEF TypeOK, vars
<1>. QED
  BY <1>1, <1>2, <1>3, <1>4, <1>5, <1>6, <1>7, <1>8, <1>9, <1>10, <1>11, <1>12, <1>13,
     <1>14, <1>15 DEF Next

\* Every variable of a running SubHub has its type.
THEOREM TypeCorrect == Spec => []TypeOK
  BY InitType, NextType, PTL DEF Spec

-----------------------------------------------------------------------------
(* What a node shows agrees with its verdict. *)

LEMMA VerdictsAreCoherent ==
  /\ Coherent(Untested)
  /\ \A p \in Records, n \in Nodes, res \in Results :
        Coherent(p) => Coherent(Verdict(p, n, res))
<1>1. Coherent(Untested)
  BY DEF Coherent, Untested
<1>2. ASSUME NEW p \in Records, NEW n \in Nodes, NEW res \in Results, Coherent(p)
      PROVE  Coherent(Verdict(p, n, res))
  <2>1. CASE n \in Loopback
    BY <2>1 DEF Coherent, Verdict, Untested
  <2>2. ASSUME NEW q \in Records PROVE Coherent(Down(q))
    BY DEF Coherent, Down, Records
  <2>3. CASE n \notin Loopback /\ TcpOnly(res)
    BY <1>2, <2>2, <2>3 DEF Verdict
  <2>4. CASE n \notin Loopback /\ ~TcpOnly(res)
    <3>. DEFINE seen == IF res.http = "none" THEN p
                        ELSE [p EXCEPT !.http = res.http = "ok"]
                good == IF res.http = "none" THEN seen
                        ELSE [seen EXCEPT !.measured = res.http = "ok"]
    <3>1. seen \in Records /\ good \in Records
      BY DEF Records
    <3>2. good.measured => good.http
      BY <1>2 DEF Coherent, Records
    <3>3. Coherent([good EXCEPT !.available = "up", !.latency = TRUE, !.fails = 0])
      BY <3>1, <3>2 DEF Coherent, Records
    <3>4. Verdict(p, n, res) = IF Usable(res)
            THEN [good EXCEPT !.available = "up", !.latency = TRUE, !.fails = 0]
            ELSE Down(seen)
      BY <2>4 DEF Verdict
    <3>. HIDE DEF seen, good
    <3>. QED BY <2>2, <3>1, <3>3, <3>4
  <2>. QED BY <2>1, <2>3, <2>4
<1>. QED BY <1>1, <1>2

\* Every step either keeps a record, or forgets the node, or judges it, or
\* replaces it by that of a backup.
LEMMA RecordSteps ==
  ASSUME TypeOK, [Next]_vars, NEW s \in Subs, NEW n \in Nodes
  PROVE  \/ node'[s][n] = node[s][n]
         \/ node'[s][n] = Untested
         \/ \E r \in Runs : /\ WriteBack(r)
                            /\ n \in members[s]
                            /\ result[r][n].tcp # "none"
                            /\ node'[s][n] = Verdict(node[s][n], n, result[r][n])
         \/ \E old \in Older : /\ Restore(s, old)
                               /\ node'[s][n] = backup.node[n]
<1>1. ASSUME NEW u \in Subs, NEW S, Keep(u, S)
      PROVE  node'[s][n] \in {node[s][n], Untested}
  BY <1>1 DEF TypeOK, Keep
<1>2. CASE \E r \in Runs, u \in Subs, S \in SUBSET Nodes : Fetch(r, u, S)
  BY <1>1, <1>2 DEF Fetch
<1>3. CASE \E r \in Runs : WriteBack(r)
  <2>1. PICK r \in Runs : WriteBack(r)
    BY <1>3
  <2>2. node'[s][n] = IF n \in Survivors(r, s) THEN Judged(r, s, n) ELSE Untested
    BY <2>1 DEF WriteBack
  <2>3. CASE n \in members[s] /\ result[r][n].tcp # "none"
    BY <2>1, <2>2, <2>3 DEF Judged
  <2>4. CASE ~(n \in members[s] /\ result[r][n].tcp # "none")
    BY <2>2, <2>4 DEF Judged
  <2>. QED BY <2>3, <2>4
<1>4. CASE \E u \in Subs, m \in Nodes : DeleteNode(u, m)
  BY <1>1, <1>4 DEF DeleteNode
<1>5. CASE \E u \in Subs : DeleteSub(u)
  BY <1>1, <1>5 DEF DeleteSub
<1>6. CASE CleanupBad
  BY <1>6 DEF TypeOK, CleanupBad
<1>7. CASE \E u \in Subs, old \in Older : Restore(u, old)
  <2>1. PICK u \in Subs, old \in Older : Restore(u, old)
    BY <1>7
  <2>2. node' = [node EXCEPT ![u] = backup.node]
    BY <2>1 DEF Restore
  <2>3. CASE u = s
    BY <2>1, <2>2, <2>3 DEF TypeOK
  <2>4. CASE u # s
    BY <2>2, <2>4 DEF TypeOK
  <2>. QED BY <2>3, <2>4
<1>8. CASE UNCHANGED lib
  BY <1>8 DEF lib
<1>9. \/ \E r \in Runs, u \in Subs, S \in SUBSET Nodes : Fetch(r, u, S)
      \/ \E r \in Runs : WriteBack(r)
      \/ \E u \in Subs, m \in Nodes : DeleteNode(u, m)
      \/ \E u \in Subs : DeleteSub(u)
      \/ CleanupBad
      \/ \E u \in Subs, old \in Older : Restore(u, old)
      \/ UNCHANGED lib
  BY DEF Next, vars, lib, StartTest, StartCheck, ProbeTest, ProbeCheck, Probed,
         Disconnect, Export, SetEngine, SetThreshold
<1>. QED BY <1>2, <1>3, <1>4, <1>5, <1>6, <1>7, <1>8, <1>9

\* The records of the backup are those of some earlier library.
BackupCoherent == \A n \in Nodes : Coherent(backup.node[n])

\* The backup changes only when it is made anew.
LEMMA BackupSteps ==
  ASSUME [Next]_vars
  PROVE  (\E s \in Subs : Export(s)) \/ backup' = backup
  BY DEF Next, vars, Fetch, StartTest, StartCheck, ProbeTest, ProbeCheck, Probed, Disconnect,
         WriteBack, DeleteNode, DeleteSub, CleanupBad, Restore, SetEngine, SetThreshold

LEMMA CoherentStep ==
  TypeOK /\ FiguresMatchVerdict /\ BackupCoherent /\ [Next]_vars
     => FiguresMatchVerdict' /\ BackupCoherent'
<1>. SUFFICES ASSUME TypeOK, FiguresMatchVerdict, BackupCoherent, [Next]_vars
              PROVE  FiguresMatchVerdict' /\ BackupCoherent'
  OBVIOUS
<1>1. ASSUME NEW s \in Subs, NEW n \in Nodes
      PROVE  Coherent(node'[s][n])
  <2>1. Coherent(node[s][n]) /\ Coherent(backup.node[n])
    BY DEF FiguresMatchVerdict, BackupCoherent
  <2>2. node[s][n] \in Records /\ \A r \in Runs : result[r][n] \in Results
    BY DEF TypeOK
  <2>. QED BY <2>1, <2>2, RecordSteps, VerdictsAreCoherent
<1>2. FiguresMatchVerdict'
  BY <1>1 DEF FiguresMatchVerdict, Coherent
<1>3. BackupCoherent'
  <2>1. CASE backup' = backup
    BY <2>1 DEF BackupCoherent, Coherent
  <2>2. ASSUME NEW s \in Subs, Export(s)
        PROVE  BackupCoherent'
    <3>1. backup'.node = node[s]
      BY <2>2 DEF Export
    <3>. QED BY <3>1 DEF FiguresMatchVerdict, BackupCoherent, Coherent
  <2>. QED BY <2>1, <2>2, BackupSteps
<1>. QED BY <1>2, <1>3

\* A node shows a latency exactly when it is up, whatever the interleaving of
\* tests, fetches, clean-ups, restores and changes of the settings.
THEOREM CoherentFigures == Spec => []FiguresMatchVerdict
<1>1. Init => FiguresMatchVerdict /\ BackupCoherent
  BY VerdictsAreCoherent DEF Init, FiguresMatchVerdict, BackupCoherent, EmptyEntry
<1>. QED BY <1>1, InitType, NextType, CoherentStep, PTL DEF Spec

-----------------------------------------------------------------------------
(* The engine has the last word. *)

\* The periodic check never carries a result of the engine.
ChecksAreTcpOnly ==
  \A r \in Runs, n \in Nodes : phase[r] = "checked" => result[r][n].http = "none"

LEMMA ChecksStep == TypeOK /\ ChecksAreTcpOnly /\ [Next]_vars => ChecksAreTcpOnly'
<1>. SUFFICES ASSUME TypeOK, ChecksAreTcpOnly, [Next]_vars,
                     NEW u \in Runs, NEW n \in Nodes, phase'[u] = "checked"
              PROVE  result'[u][n].http = "none"
  BY DEF ChecksAreTcpOnly
<1>1. CASE UNCHANGED run
  BY <1>1 DEF ChecksAreTcpOnly, run
<1>2. ASSUME NEW r \in Runs, NEW kind \in {"fresh", "testing", "checking"}, NEW T,
             Begin(r, kind, T)
      PROVE  result'[u][n].http = "none"
  BY <1>2 DEF TypeOK, ChecksAreTcpOnly, Begin
<1>3. ASSUME NEW r \in Runs, Disconnect(r) \/ WriteBack(r)
      PROVE  result'[u][n].http = "none"
  BY <1>3 DEF TypeOK, ChecksAreTcpOnly, Disconnect, WriteBack, Done, NoResult
<1>4. ASSUME NEW r \in Runs, ProbeTest(r)
      PROVE  result'[u][n].http = "none"
  <2>1. /\ phase' = [phase EXCEPT ![r] = "tested"]
        /\ \E res : result' = [result EXCEPT ![r] = res]
    BY <1>4 DEF ProbeTest, Probed
  <2>. QED BY <2>1 DEF TypeOK, ChecksAreTcpOnly
<1>5. ASSUME NEW r \in Runs, ProbeCheck(r)
      PROVE  result'[u][n].http = "none"
  <2>1. PICK tcp \in [targets[r] -> {"ok", "fail"}] :
          Probed(r, [m \in Nodes |-> IF m \in targets[r]
                                     THEN [tcp |-> tcp[m], http |-> "none"]
                                     ELSE NoResult], "checked")
    BY <1>5 DEF ProbeCheck
  <2>2. CASE u = r
    BY <2>1, <2>2 DEF TypeOK, Probed, NoResult
  <2>3. CASE u # r
    BY <2>1, <2>3 DEF TypeOK, ChecksAreTcpOnly, Probed
  <2>. QED BY <2>2, <2>3
<1>6. \/ UNCHANGED run
      \/ \E r \in Runs, kind \in {"fresh", "testing", "checking"}, T \in SUBSET Nodes :
            Begin(r, kind, T)
      \/ \E r \in Runs : Disconnect(r) \/ WriteBack(r) \/ ProbeTest(r) \/ ProbeCheck(r)
  <2>1. \A s \in Subs, S \in SUBSET Nodes : S \ members[s] \in SUBSET Nodes
    OBVIOUS
  <2>2. AllNodes(Enabled) \in SUBSET Nodes
    BY DEF TypeOK, AllNodes
  <2>. QED
    BY <2>1, <2>2 DEF Next, vars, run, Fetch, StartTest, StartCheck, DeleteNode, DeleteSub,
           CleanupBad, Export, Restore, SetEngine, SetThreshold
<1>. QED BY <1>1, <1>2, <1>3, <1>4, <1>5, <1>6

\* With an engine configured a node turns up only on the word of the engine.
LEMMA OnlyTheEngineRaises ==
  \A p \in Records, n \in Nodes, res \in Results :
     engine /\ p.available # "up" /\ Verdict(p, n, res).available = "up"
        => res.http = "ok"
  BY DEF Verdict, Untested, TcpOnly, Usable, Down, Records

\* What a step that raises a node owes to, with an engine configured.
RaisedWithReason(s, n) ==
  \/ \E r \in Runs : /\ phase[r] = "tested" /\ WriteBack(r)
                     /\ result[r][n].http = "ok"
  \/ \E old \in Older :
        Restore(s, old) /\ backup.node[n].available = "up"

\* With an engine configured a node turns up only on the word of the engine or
\* with a backup in which it is up.
THEOREM EngineDecides == Spec => EngineHasTheLastWord
<1>. DEFINE Step == \A s \in Subs, n \in Nodes :
              (engine /\ node[s][n].available # "up" /\ node'[s][n].available = "up")
                => RaisedWithReason(s, n)
<1>1. Init => ChecksAreTcpOnly
  BY DEF Init, ChecksAreTcpOnly
<1>2. TypeOK /\ ChecksAreTcpOnly /\ [Next]_vars => Step
  <2>. SUFFICES ASSUME TypeOK, ChecksAreTcpOnly, [Next]_vars,
                       NEW s \in Subs, NEW n \in Nodes,
                       engine, node[s][n].available # "up", node'[s][n].available = "up"
                PROVE  RaisedWithReason(s, n)
    OBVIOUS
  <2>1. ASSUME NEW r \in Runs, WriteBack(r),
               node'[s][n] = Verdict(node[s][n], n, result[r][n])
        PROVE  RaisedWithReason(s, n)
    <3>1. node[s][n] \in Records /\ result[r][n] \in Results
      BY DEF TypeOK
    <3>2. result[r][n].http = "ok"
      BY <2>1, <3>1, OnlyTheEngineRaises
    <3>3. phase[r] = "tested"
      BY <2>1, <3>2 DEF ChecksAreTcpOnly, WriteBack
    <3>. QED BY <2>1, <3>2, <3>3 DEF RaisedWithReason
  <2>2. ASSUME NEW old \in Older, Restore(s, old), node'[s][n] = backup.node[n]
        PROVE  RaisedWithReason(s, n)
    BY <2>2 DEF RaisedWithReason
  <2>. QED BY <2>1, <2>2, RecordSteps DEF Untested
<1>3. TypeOK /\ ChecksAreTcpOnly /\ [Next]_vars => [Step]_vars
  BY <1>2
<1>. HIDE DEF Step
<1>4. Spec => [][Step]_vars
  BY <1>1, <1>3, InitType, NextType, ChecksStep, PTL DEF Spec
<1>5. [][Step]_vars => EngineHasTheLastWord
  BY DEF EngineHasTheLastWord, Step, RaisedWithReason
<1>. QED BY <1>4, <1>5

-----------------------------------------------------------------------------
(* A subscription with a node that is up has been stamped. *)

\* Nothing is recorded of a node a subscription does not have.
AbsentUntested ==
  \A s \in Subs, n \in Nodes : n \notin members[s] => node[s][n] = Untested

\* The same, and the stamp, of the subscription in the backup.
BackupStamped ==
  /\ \A n \in Nodes : n \notin backup.members => backup.node[n] = Untested
  /\ (\E n \in backup.members : backup.node[n].available = "up")
        => backup.healthy \/ backup.legacy

StampInv == TypeOK /\ AbsentUntested /\ UpMeansStamped /\ BackupStamped

LEMMA KeepStamp ==
  ASSUME StampInv, NEW u \in Subs, NEW S \in SUBSET Nodes, Keep(u, S),
         healthy' = healthy, legacy' = legacy
  PROVE  AbsentUntested' /\ UpMeansStamped'
<1>1. /\ members' = [members EXCEPT ![u] = S]
      /\ node' = [node EXCEPT ![u] =
                    [n \in Nodes |-> IF n \in S THEN node[u][n] ELSE Untested]]
  BY DEF Keep
<1>2. AbsentUntested'
  BY <1>1 DEF StampInv, TypeOK, AbsentUntested
<1>3. ASSUME NEW s \in Subs, NEW n \in members'[s], node'[s][n].available = "up"
      PROVE  healthy[s] \/ legacy[s]
  <2>1. n \in Nodes /\ node'[s][n] \in {node[s][n], Untested}
    BY <1>1 DEF StampInv, TypeOK
  <2>2. node[s][n].available = "up"
    BY <1>3, <2>1 DEF Untested
  <2>3. n \in members[s]
    BY <2>1, <2>2 DEF StampInv, AbsentUntested, Untested
  <2>. QED BY <2>2, <2>3 DEF StampInv, UpMeansStamped, SomeUp
<1>. QED BY <1>2, <1>3 DEF UpMeansStamped, SomeUp

\* What a restore makes of a list is what the backup says of it.
LEMMA RestoreStamp ==
  ASSUME StampInv, NEW u \in Subs, NEW old \in Older, Restore(u, old)
  PROVE  AbsentUntested' /\ UpMeansStamped'
<1>1. /\ members' = [members EXCEPT ![u] = backup.members]
      /\ node' = [node EXCEPT ![u] = backup.node]
      /\ healthy' = [healthy EXCEPT ![u] = ~old /\ backup.healthy]
      /\ legacy' = [legacy EXCEPT ![u] = old \/ backup.legacy]
  BY DEF Restore
<1>2. AbsentUntested'
  BY <1>1 DEF StampInv, TypeOK, AbsentUntested, BackupStamped
<1>3. ASSUME NEW s \in Subs, NEW n \in members'[s], node'[s][n].available = "up"
      PROVE  healthy'[s] \/ legacy'[s]
  <2>1. CASE s = u
    <3>1. n \in backup.members /\ backup.node[n].available = "up"
      BY <1>1, <1>3, <2>1 DEF StampInv, TypeOK
    <3>2. backup.healthy \/ backup.legacy
      BY <3>1 DEF StampInv, BackupStamped
    <3>3. healthy'[s] = (~old /\ backup.healthy) /\ legacy'[s] = (old \/ backup.legacy)
      BY <1>1, <2>1 DEF StampInv, TypeOK
    <3>. QED BY <3>2, <3>3
  <2>2. CASE s # u
    <3>1. n \in members[s] /\ node[s][n].available = "up"
      BY <1>1, <1>3, <2>2 DEF StampInv, TypeOK
    <3>2. healthy'[s] = healthy[s] /\ legacy'[s] = legacy[s]
      BY <1>1, <2>2 DEF StampInv, TypeOK
    <3>. QED BY <3>1, <3>2 DEF StampInv, UpMeansStamped, SomeUp
  <2>. QED BY <2>1, <2>2
<1>. QED BY <1>2, <1>3 DEF UpMeansStamped, SomeUp

LEMMA StampStep == StampInv /\ [Next]_vars => StampInv'
<1>. SUFFICES ASSUME StampInv, [Next]_vars PROVE StampInv'
  OBVIOUS
<1>1. ASSUME NEW r \in Runs, NEW s \in Subs, NEW S \in SUBSET Nodes, Fetch(r, s, S)
      PROVE  AbsentUntested' /\ UpMeansStamped'
  BY <1>1, KeepStamp DEF Fetch
<1>2. ASSUME NEW r \in Runs, WriteBack(r)
      PROVE  AbsentUntested' /\ UpMeansStamped'
  <2>1. AbsentUntested'
    BY <1>2 DEF StampInv, TypeOK, AbsentUntested, WriteBack
  <2>2. \A s \in Subs : healthy'[s] = (healthy[s] \/
                     \E n \in members'[s] : node'[s][n].available = "up")
    BY <1>2 DEF WriteBack
  <2>. QED BY <2>1, <2>2 DEF UpMeansStamped, SomeUp
<1>3. ASSUME NEW s \in Subs, NEW n \in Nodes, DeleteNode(s, n)
      PROVE  AbsentUntested' /\ UpMeansStamped'
  <2>1. members[s] \ {n} \in SUBSET Nodes
    BY DEF StampInv, TypeOK
  <2>. QED BY <1>3, <2>1, KeepStamp DEF DeleteNode
<1>4. ASSUME NEW s \in Subs, DeleteSub(s)
      PROVE  AbsentUntested' /\ UpMeansStamped'
  BY <1>4 DEF StampInv, TypeOK, AbsentUntested, UpMeansStamped, SomeUp, DeleteSub, Keep
<1>5. ASSUME CleanupBad
      PROVE  AbsentUntested' /\ UpMeansStamped'
  BY <1>5 DEF StampInv, TypeOK, AbsentUntested, UpMeansStamped, SomeUp, CleanupBad
<1>6. ASSUME NEW s \in Subs, NEW old \in Older, Restore(s, old)
      PROVE  AbsentUntested' /\ UpMeansStamped'
  BY <1>6, RestoreStamp
<1>7. ASSUME UNCHANGED <<members, node, healthy, legacy>>
      PROVE  AbsentUntested' /\ UpMeansStamped'
  BY <1>7 DEF StampInv, AbsentUntested, UpMeansStamped, SomeUp
<1>8. \/ \E r \in Runs, s \in Subs, S \in SUBSET Nodes : Fetch(r, s, S)
      \/ \E r \in Runs : WriteBack(r)
      \/ \E s \in Subs, n \in Nodes : DeleteNode(s, n)
      \/ \E s \in Subs : DeleteSub(s)
      \/ CleanupBad
      \/ \E s \in Subs, old \in Older : Restore(s, old)
      \/ UNCHANGED <<members, node, healthy, legacy>>
  BY DEF Next, vars, lib, StartTest, StartCheck, ProbeTest, ProbeCheck, Probed,
         Disconnect, Export, SetEngine, SetThreshold
<1>9. AbsentUntested' /\ UpMeansStamped'
  BY <1>1, <1>2, <1>3, <1>4, <1>5, <1>6, <1>7, <1>8
<1>10. BackupStamped'
  <2>1. CASE backup' = backup
    BY <2>1 DEF StampInv, BackupStamped
  <2>2. ASSUME NEW s \in Subs, Export(s)
        PROVE  BackupStamped'
    <3>1. /\ backup'.members = members[s] /\ backup'.node = node[s]
          /\ backup'.healthy = healthy[s] /\ backup'.legacy = legacy[s]
      BY <2>2 DEF Export
    <3>. QED BY <3>1 DEF StampInv, AbsentUntested, UpMeansStamped, SomeUp, BackupStamped
  <2>. QED BY <2>1, <2>2, BackupSteps
<1>. QED BY <1>9, <1>10, NextType DEF StampInv

\* The prune always has a date for a subscription that has a node up, unless it
\* was restored from a backup without one and not tested since.
THEOREM StampedWhenUp == Spec => []UpMeansStamped
<1>1. Init => StampInv
  BY InitType DEF Init, StampInv, AbsentUntested, UpMeansStamped, SomeUp, BackupStamped,
                  EmptyEntry, TypeOK
<1>2. StampInv => UpMeansStamped
  BY DEF StampInv
<1>. QED BY <1>1, <1>2, StampStep, PTL DEF Spec

-----------------------------------------------------------------------------
(* Without an engine a node is removed only after enough failures in a row. *)

NoEngine == Engines \subseteq {FALSE}

\* What is held against a node are failures in a row; nothing is held against
\* a local one.
OwedInARow ==
  \A s \in Subs, n \in Nodes :
     /\ node[s][n].fails <= streak[s][n]
     /\ n \in Loopback => node[s][n].available # "down" /\ node[s][n].fails = 0

BackupOwed ==
  \A n \in Nodes :
     /\ backup.node[n].fails <= backup.streak[n]
     /\ n \in Loopback => backup.node[n].available # "down" /\ backup.node[n].fails = 0

\* What a write-back does to the count and to the streak of one node.
LEMMA JudgedOwed ==
  ASSUME NoEngine, TypeOK, OwedInARow, NEW r \in Runs, NEW s \in Subs, NEW n \in Nodes
  PROVE  /\ n \in members[s] => Judged(r, s, n).fails <= FailedInARow(r, s, n)
         /\ n \in Loopback => Judged(r, s, n).available # "down" /\ Judged(r, s, n).fails = 0
<1>. DEFINE p == node[s][n]  res == result[r][n]
<1>1. /\ p \in Records /\ res \in Results /\ streak[s][n] \in 0 .. MaxFails
      /\ p.fails \in 0 .. MaxFails
      /\ engine = FALSE
  <2>1. p \in Records /\ res \in Results /\ streak[s][n] \in 0 .. MaxFails
    BY DEF TypeOK
  <2>2. p.fails \in 0 .. MaxFails
    BY <2>1 DEF Records
  <2>3. engine = FALSE
    BY DEF NoEngine, TypeOK
  <2>. QED BY <2>1, <2>2, <2>3
<1>2. p.fails <= streak[s][n] /\ (n \in Loopback => p.available # "down" /\ p.fails = 0)
  BY DEF OwedInARow
<1>3. CASE ~(n \in members[s] /\ res.tcp # "none")
  <2>1. Judged(r, s, n) = p
    BY <1>3 DEF Judged
  <2>2. n \in members[s] => FailedInARow(r, s, n) = streak[s][n]
    BY <1>3 DEF FailedInARow
  <2>. QED BY <1>2, <2>1, <2>2
<1>4. CASE n \in members[s] /\ res.tcp # "none"
  <2>1. Judged(r, s, n) = Verdict(p, n, res)
    BY <1>4 DEF Judged
  <2>2. FailedInARow(r, s, n) = IF res.tcp = "ok" \/ n \in Loopback THEN 0
                                ELSE OneMore(streak[s][n])
    BY <1>1, <1>4 DEF FailedInARow, Reached, TcpOnly, Usable
  <2>. DEFINE seen == IF res.http = "none" THEN p ELSE [p EXCEPT !.http = res.http = "ok"]
  <2>3. seen \in Records /\ seen.fails = p.fails
    BY <1>1 DEF Records
  <2>. HIDE DEF seen
  <2>4. CASE n \in Loopback
    <3>1. Verdict(p, n, res) = [Untested EXCEPT !.fails = p.fails]
      BY <2>4 DEF Verdict
    <3>. QED BY <1>2, <2>1, <2>2, <2>4, <3>1 DEF Untested, OwedInARow
  <2>5. CASE n \notin Loopback /\ res.tcp = "ok"
    <3>1. Verdict(p, n, res).fails = 0
      BY <1>1, <2>5 DEF Verdict, TcpOnly, Usable, Records
    <3>. QED BY <2>1, <2>2, <2>5, <3>1
  <2>6. CASE n \notin Loopback /\ res.tcp # "ok"
    <3>1. Verdict(p, n, res) = Down(seen)
      BY <1>1, <2>6 DEF Verdict, TcpOnly, Usable, seen
    <3>2. Down(seen).fails = OneMore(p.fails)
      BY <2>3 DEF Down, Records
    <3>3. OneMore(p.fails) <= OneMore(streak[s][n])
      BY <1>1, <1>2 DEF OneMore
    <3>. QED BY <2>1, <2>2, <2>6, <3>1, <3>2, <3>3
  <2>. QED BY <2>4, <2>5, <2>6
<1>. QED BY <1>3, <1>4

LEMMA OwedStep ==
  NoEngine /\ TypeOK /\ OwedInARow /\ BackupOwed /\ [Next]_vars => OwedInARow'
<1>. SUFFICES ASSUME NoEngine, TypeOK, OwedInARow, BackupOwed, [Next]_vars,
                     NEW s \in Subs, NEW n \in Nodes
              PROVE  /\ node'[s][n].fails <= streak'[s][n]
                     /\ n \in Loopback => node'[s][n].available # "down" /\ node'[s][n].fails = 0
  BY DEF OwedInARow
<1>. DEFINE Forgotten == node'[s][n] = Untested /\ streak'[s][n] = 0
            Same == node'[s][n] = node[s][n] /\ streak'[s][n] = streak[s][n]
<1>1. CASE Forgotten
  BY <1>1 DEF Untested
<1>2. CASE Same
  BY <1>2 DEF OwedInARow
<1>. HIDE DEF Forgotten, Same
<1>3. ASSUME NEW u \in Subs, NEW S, Keep(u, S)
      PROVE  Forgotten \/ Same
  BY <1>3 DEF TypeOK, Keep, Forgotten, Same
<1>4. CASE \E r \in Runs, u \in Subs, S \in SUBSET Nodes : Fetch(r, u, S)
  BY <1>1, <1>2, <1>3, <1>4 DEF Fetch
<1>5. CASE \E r \in Runs : WriteBack(r)
  <2>1. PICK r \in Runs : WriteBack(r)
    BY <1>5
  <2>2. CASE n \in Survivors(r, s)
    <3>1. node'[s][n] = Judged(r, s, n) /\ streak'[s][n] = FailedInARow(r, s, n)
      BY <2>1, <2>2 DEF WriteBack
    <3>2. n \in members[s]
      BY <2>2 DEF Survivors
    <3>. QED BY <3>1, <3>2, JudgedOwed
  <2>3. CASE n \notin Survivors(r, s)
    BY <1>1, <2>1, <2>3 DEF WriteBack, Forgotten
  <2>. QED BY <2>2, <2>3
<1>6. CASE \E u \in Subs, m \in Nodes : DeleteNode(u, m)
  BY <1>1, <1>2, <1>3, <1>6 DEF DeleteNode
<1>7. CASE \E u \in Subs : DeleteSub(u)
  BY <1>1, <1>2, <1>3, <1>7 DEF DeleteSub
<1>8. CASE CleanupBad
  <2>1. Forgotten \/ Same
    BY <1>8 DEF TypeOK, CleanupBad, Forgotten, Same
  <2>. QED BY <1>1, <1>2, <2>1
<1>9. CASE \E u \in Subs, old \in Older : Restore(u, old)
  <2>1. PICK u \in Subs, old \in Older : Restore(u, old)
    BY <1>9
  <2>2. /\ node' = [node EXCEPT ![u] = backup.node]
        /\ streak' = [streak EXCEPT ![u] = backup.streak]
    BY <2>1 DEF Restore
  <2>3. CASE u = s
    <3>1. node'[s][n] = backup.node[n] /\ streak'[s][n] = backup.streak[n]
      BY <2>2, <2>3 DEF TypeOK
    <3>. QED BY <3>1 DEF BackupOwed
  <2>4. CASE u # s
    BY <1>2, <2>2, <2>4 DEF TypeOK, Same
  <2>. QED BY <2>3, <2>4
<1>10. CASE UNCHANGED <<node, streak>>
  BY <1>2, <1>10 DEF Same
<1>11. \/ \E r \in Runs, u \in Subs, S \in SUBSET Nodes : Fetch(r, u, S)
       \/ \E r \in Runs : WriteBack(r)
       \/ \E u \in Subs, m \in Nodes : DeleteNode(u, m)
       \/ \E u \in Subs : DeleteSub(u)
       \/ CleanupBad
       \/ \E u \in Subs, old \in Older : Restore(u, old)
       \/ UNCHANGED <<node, streak>>
  BY DEF Next, vars, lib, StartTest, StartCheck, ProbeTest, ProbeCheck, Probed,
         Disconnect, Export, SetEngine, SetThreshold
<1>. QED BY <1>4, <1>5, <1>6, <1>7, <1>8, <1>9, <1>10, <1>11

LEMMA BackupOwedStep == OwedInARow /\ BackupOwed /\ [Next]_vars => BackupOwed'
<1>. SUFFICES ASSUME OwedInARow, BackupOwed, [Next]_vars PROVE BackupOwed'
  OBVIOUS
<1>1. CASE backup' = backup
  BY <1>1 DEF BackupOwed
<1>2. ASSUME NEW s \in Subs, Export(s)
      PROVE  BackupOwed'
  <2>1. backup'.node = node[s] /\ backup'.streak = streak[s]
    BY <1>2 DEF Export
  <2>. QED BY <2>1 DEF OwedInARow, BackupOwed
<1>. QED BY <1>1, <1>2, BackupSteps

\* What a write-back removes has failed as often in a row as the threshold says.
LEMMA RemovalsAreDeserved ==
  ASSUME NoEngine, TypeOK, OwedInARow, NEW r \in Runs, WriteBack(r),
         NEW s \in Subs, NEW n \in members[s] \ members'[s]
  PROVE  threshold > 0 /\ FailedInARow(r, s, n) >= threshold
<1>1. n \in Nodes
  BY DEF TypeOK
<1>2. members'[s] = Survivors(r, s)
  BY DEF WriteBack
<1>3. WornOut(Judged(r, s, n))
  BY <1>2 DEF Survivors
<1>4. Judged(r, s, n).fails <= FailedInARow(r, s, n)
  BY <1>1, JudgedOwed
<1>5. /\ Judged(r, s, n) \in Records /\ threshold \in Nat
      /\ FailedInARow(r, s, n) \in 0 .. MaxFails
  <2>1. streak[s][n] \in 0 .. MaxFails
    BY <1>1 DEF TypeOK
  <2>. QED BY <1>1, <2>1, JudgedType, OneMoreType DEF TypeOK, FailedInARow
<1>6. Judged(r, s, n).fails \in 0 .. MaxFails
  BY <1>5 DEF Records
<1>. QED BY <1>3, <1>4, <1>5, <1>6 DEF WornOut

\* Without an engine no interleaving of tests, checks, fetches, restores and
\* changes of the threshold removes a node that has not failed often enough in a row.
THEOREM RemovalsFollowFailures == NoEngine /\ Spec => RemovedAfterRunOfFailures
<1>. DEFINE Step == \A r \in Runs : WriteBack(r) =>
              \A s \in Subs : \A n \in members[s] \ members'[s] :
                 threshold > 0 /\ FailedInARow(r, s, n) >= threshold
<1>1. Init => OwedInARow /\ BackupOwed
  BY DEF Init, OwedInARow, BackupOwed, EmptyEntry, Untested
<1>2. NoEngine /\ TypeOK /\ OwedInARow /\ [Next]_vars => [Step]_vars
  BY RemovalsAreDeserved
<1>3. ASSUME NoEngine
      PROVE  TypeOK /\ OwedInARow /\ BackupOwed /\ [Next]_vars
                => OwedInARow' /\ BackupOwed' /\ [Step]_vars
  BY <1>2, <1>3, OwedStep, BackupOwedStep
<1>. HIDE DEF Step
<1>4. ASSUME NoEngine PROVE Spec => [][Step]_vars
  BY <1>1, <1>3, <1>4, InitType, NextType, PTL DEF Spec
<1>. QED BY <1>4 DEF RemovedAfterRunOfFailures, Step

=============================================================================

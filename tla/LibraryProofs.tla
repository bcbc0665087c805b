--------------------------- MODULE LibraryProofs ----------------------------
(***************************************************************************)
(* Identities in the library: for any URLs, pasted lists, backups and      *)
(* fetches under way.                                                      *)
(***************************************************************************)
EXTENDS Library, ListTheorems, FiniteSetTheorems, TLAPS

-----------------------------------------------------------------------------
(* Types of what happens to the list. *)

Libs == [store : [Ids -> Subscriptions \cup {None}], next : Nat \ {0}]

LEMMA Bounds == MaxIds \in Nat /\ MaxDay \in Nat \ {0} /\ Ids \in SUBSET Nat /\ 0 \in Days
  BY LibraryAssumption DEF Ids, Days

LEMMA NoneIsNone == None \notin Subscriptions
<1>1. ASSUME None \in Subscriptions PROVE FALSE
  <2>1. DOMAIN None = {"source"}
    BY DEF None
  <2>2. "uid" \in DOMAIN None
    BY <1>1 DEF Subscriptions
  <2>. QED BY <2>1, <2>2
<1>. QED BY <1>1

\* Of some ids one is the least and one the greatest.
LEMMA MinMax ==
  ASSUME NEW S \in SUBSET Ids, S # {}
  PROVE  Min(S) \in S /\ Max(S) \in S
<1>. DEFINE R == {MaxIds - i : i \in S}
<1>1. S \in SUBSET Nat /\ R \in SUBSET Nat /\ R # {}
  <2>1. \A i \in S : i \in Nat /\ MaxIds - i \in Nat
    BY Bounds DEF Ids
  <2>2. S \in SUBSET Nat
    BY <2>1
  <2>3. R \in SUBSET Nat
    BY <2>1
  <2>. QED BY <2>2, <2>3
<1>2. PICK m \in S : \A k \in S : m <= k
  BY <1>1, Least
<1>3. PICK r \in R : \A q \in R : r <= q
  <2>. HIDE DEF R
  <2>. QED BY <1>1, Least
<1>4. PICK g \in S : r = MaxIds - g
  OBVIOUS
<1>5. \A k \in S : g >= k
  <2>. SUFFICES ASSUME NEW k \in S PROVE g >= k
    OBVIOUS
  <2>1. r <= MaxIds - k
    BY <1>3
  <2>2. k \in Int /\ g \in Int /\ MaxIds \in Int
    BY Bounds
  <2>. QED BY <1>4, <2>1, <2>2
<1>6. Min(S) \in S
  BY <1>2 DEF Min
<1>7. Max(S) \in S
  BY <1>5 DEF Max
<1>. QED BY <1>6, <1>7

LEMMA PutType ==
  ASSUME NEW l \in Libs, NEW i \in Ids, NEW sub \in Subscriptions
  PROVE  /\ Put(l, i, sub) \in Libs /\ Put(l, i, sub).next = l.next
         /\ \A k \in Ids : Put(l, i, sub).store[k] = IF k = i THEN sub ELSE l.store[k]
  BY DEF Put, Libs

LEMMA GrownType ==
  ASSUME NEW l \in Libs, NEW sub, l.next \in Ids => sub \in Subscriptions
  PROVE  /\ Grown(l, sub) \in Libs /\ Grown(l, sub).next = l.next + 1
         /\ \A k \in Ids : Grown(l, sub).store[k] = IF k = l.next THEN sub ELSE l.store[k]
  BY DEF Grown, Libs

LEMMA UntestedType == \A S : Untested(S) \in [Nodes -> Verdicts]
  BY DEF Untested, Verdicts

LEMMA MergedType ==
  \A old \in [Nodes -> Verdicts] : \A S : Merged(old, S) \in [Nodes -> Verdicts]
  BY DEF Merged, Verdicts

\* What an add appends, and what it makes of a subscription that is there.
LEMMA AddedType ==
  ASSUME NEW url \in Urls \cup {Pasted}, NEW uid \in 0 .. MaxIds, NEW name \in Names,
         NEW v \in [Nodes -> Verdicts], NEW e \in BOOLEAN, NEW c \in Days, NEW u \in Days
  PROVE  [source |-> url, uid |-> uid, name |-> name, verdict |-> v, error |-> e,
          checked |-> c, updated |-> u, healthy |-> 0] \in Subscriptions
  BY Bounds DEF Subscriptions

LEMMA FieldTypes ==
  ASSUME NEW s \in Subscriptions
  PROVE  /\ s.source \in Urls \cup {Pasted} /\ s.uid \in 0 .. MaxIds /\ s.name \in Names
         /\ s.verdict \in [Nodes -> Verdicts] /\ s.error \in BOOLEAN
         /\ s.checked \in Days /\ s.updated \in Days /\ s.healthy \in Days
  BY DEF Subscriptions

LEMMA EditedType ==
  ASSUME NEW s \in Subscriptions, NEW v \in [Nodes -> Verdicts], NEW e \in BOOLEAN,
         NEW c \in Days, NEW u \in Days, NEW uid \in 0 .. MaxIds
  PROVE  /\ [s EXCEPT !.error = e, !.checked = c] \in Subscriptions
         /\ [s EXCEPT !.error = e, !.checked = c, !.updated = u, !.verdict = v] \in Subscriptions
         /\ [s EXCEPT !.checked = c, !.updated = u] \in Subscriptions
         /\ [s EXCEPT !.uid = uid] \in Subscriptions
         /\ [s EXCEPT !.verdict = v] \in Subscriptions
         /\ [s EXCEPT !.healthy = c] \in Subscriptions
  BY DEF Subscriptions

-----------------------------------------------------------------------------
(* One URL of an add, one entry of a backup. *)

\* An add updates the subscription that has the URL, or appends one.
LEMMA MergeStep ==
  ASSUME NEW l \in Libs, NEW url \in Urls, NEW S, NEW now \in Days
  PROVE  LET r == MergeBySource(l, url, S, now)
         IN  \/ \E i \in Present(l.store), sub \in Subscriptions :
                   /\ r = Put(l, i, sub) /\ l.store[i].source = url
                   /\ sub.source = url /\ sub.uid = l.store[i].uid
                   /\ sub.verdict = IF S = {} THEN l.store[i].verdict
                                    ELSE Merged(l.store[i].verdict, S)
                   /\ sub.healthy = l.store[i].healthy /\ sub.checked = now
             \/ \E sub :
                   /\ r = Grown(l, sub) /\ \A i \in Present(l.store) : l.store[i].source # url
                   /\ l.next \in Ids => sub \in Subscriptions
                   /\ sub.source = url /\ sub.uid = l.next
                   /\ sub.healthy = 0 /\ sub.checked = now
<1>. DEFINE same == Where(l, LAMBDA s : s.source = url)
            new == [source |-> url, uid |-> l.next, name |-> CHOOSE m \in Names : TRUE,
                    verdict |-> Untested(S), error |-> S = {}, checked |-> now,
                    updated |-> IF S = {} THEN 0 ELSE now, healthy |-> 0]
            renewed(old) == IF S = {} THEN [old EXCEPT !.error = TRUE, !.checked = now]
                            ELSE [old EXCEPT !.error = FALSE, !.checked = now, !.updated = now,
                                             !.verdict = Merged(@, S)]
<1>1. same = {i \in Present(l.store) : l.store[i].source = url}
  BY DEF Where
<1>2. CASE same = {}
  <2>1. MergeBySource(l, url, S, now) = Grown(l, new)
    BY <1>2 DEF MergeBySource
  <2>2. l.next \in Ids => new \in Subscriptions
    <3>1. (CHOOSE m \in Names : TRUE) \in Names
      BY LibraryAssumption
    <3>2. l.next \in Ids => l.next \in 0 .. MaxIds
      BY Bounds DEF Ids
    <3>3. (S = {}) \in BOOLEAN /\ (IF S = {} THEN 0 ELSE now) \in Days
      BY Bounds
    <3>. QED BY <3>1, <3>2, <3>3, UntestedType, AddedType
  <2>3. new.source = url /\ new.uid = l.next /\ new.healthy = 0 /\ new.checked = now
    OBVIOUS
  <2>4. \A i \in Present(l.store) : l.store[i].source # url
    BY <1>1, <1>2
  <2>. HIDE DEF new
  <2>. QED BY <2>1, <2>2, <2>3, <2>4
<1>3. CASE same # {}
  <2>. DEFINE i == Min(same)
  <2>1. i \in Present(l.store) /\ l.store[i].source = url
    BY <1>1, <1>3, MinMax DEF Present
  <2>2. MergeBySource(l, url, S, now) = Put(l, i, renewed(l.store[i]))
    BY <1>3 DEF MergeBySource
  <2>3. l.store[i] \in Subscriptions
    BY <2>1 DEF Libs, Present
  <2>. DEFINE old == l.store[i]
  <2>4. renewed(old) \in Subscriptions
    <3>0. old \in Subscriptions
      BY <2>3
    <3>. HIDE DEF i, old
    <3>1. Merged(old.verdict, S) \in [Nodes -> Verdicts]
      BY <3>0, FieldTypes, MergedType
    <3>2. now \in Days /\ TRUE \in BOOLEAN /\ FALSE \in BOOLEAN /\ 0 \in 0 .. MaxIds
      BY Bounds
    <3>3. [old EXCEPT !.error = TRUE, !.checked = now] \in Subscriptions
      BY <3>0 DEF Subscriptions
    <3>4. [old EXCEPT !.error = FALSE, !.checked = now, !.updated = now,
                      !.verdict = Merged(@, S)] \in Subscriptions
      BY <3>0, <3>1 DEF Subscriptions
    <3>. QED BY <3>3, <3>4
  <2>5. /\ renewed(old).source = old.source /\ renewed(old).uid = old.uid
        /\ renewed(old).verdict = IF S = {} THEN old.verdict ELSE Merged(old.verdict, S)
        /\ renewed(old).healthy = old.healthy /\ renewed(old).checked = now
    BY <2>3 DEF Subscriptions
  <2>. HIDE DEF i, renewed
  <2>. QED BY <2>1, <2>2, <2>4, <2>5
<1>. QED BY <1>2, <1>3

\* A restore replaces what the entry names, or appends it.
LEMMA RestoreStep ==
  ASSUME NEW l \in Libs, NEW item \in Subscriptions, NEW now \in Days
  PROVE  LET r == RestoreItem(l, item, now)
         IN  \/ \E i \in Present(l.store), sub \in Subscriptions :
                   /\ r = Put(l, i, sub) /\ l.store[i].source = item.source
                   /\ item.uid # 0 /\ ~Remote(item) => l.store[i].uid = item.uid
                   /\ sub.source = item.source /\ sub.uid = l.store[i].uid
                   /\ sub.verdict = item.verdict
             \/ \E sub :
                   /\ r = Grown(l, sub)
                   /\ \A i \in Present(l.store) :
                         Remote(item) => l.store[i].source # item.source
                   /\ \A i \in Present(l.store) :
                         item.uid # 0 /\ ~Remote(item) /\ l.store[i].uid = item.uid
                           => Remote(l.store[i])
                   /\ l.next \in Ids => sub \in Subscriptions
                   /\ sub.source = item.source /\ sub.verdict = item.verdict
                   /\ sub.uid = IF Remote(item) \/ item.uid = 0 THEN l.next ELSE item.uid
<1>. DEFINE T == Target(l, item)
            st == Stamped(item, now)
<1>1. st \in Subscriptions /\ st.source = item.source /\ st.uid = item.uid
      /\ st.verdict = item.verdict
  BY DEF Stamped, Subscriptions
<1>2. T \in SUBSET Ids /\ \A i \in T : i \in Present(l.store)
  BY DEF Target, SameName, Where, Present
<1>3. \A i \in T : l.store[i].source = item.source
  <2>1. \A i \in T : Remote(item) => l.store[i].source = item.source
    BY DEF Target, Where
  <2>2. \A i \in T : ~Remote(item) => ~Remote(l.store[i])
    BY DEF Target, SameName, Where
  <2>. QED BY <2>1, <2>2 DEF Remote
<1>4. item.uid # 0 /\ ~Remote(item) =>
        T = {i \in Present(l.store) : ~Remote(l.store[i]) /\ l.store[i].uid = item.uid}
  BY DEF Target, Where
<1>5. Remote(item) => T = {i \in Present(l.store) : l.store[i].source = item.source}
  BY DEF Target, Where
<1>6. CASE T # {}
  <2>. DEFINE i == IF Remote(item) THEN Max(T) ELSE Min(T)
              sub == [st EXCEPT !.uid = l.store[i].uid]
  <2>1. i \in T
    BY <1>2, <1>6, MinMax
  <2>2. RestoreItem(l, item, now) = Put(l, i, sub)
    BY <1>6 DEF RestoreItem
  <2>3. l.store[i] \in Subscriptions /\ i \in Present(l.store)
    BY <1>2, <2>1 DEF Libs, Present
  <2>4. sub \in Subscriptions
    BY <1>1, <2>3, EditedType, FieldTypes
  <2>5. sub.source = item.source /\ sub.uid = l.store[i].uid /\ sub.verdict = item.verdict
    BY <1>1 DEF Subscriptions
  <2>. HIDE DEF i, sub, T
  <2>. QED BY <1>3, <1>4, <2>1, <2>2, <2>3, <2>4, <2>5
<1>7. CASE T = {}
  <2>. DEFINE uid == IF Remote(item) \/ item.uid = 0 THEN l.next ELSE item.uid
              sub == [st EXCEPT !.uid = uid]
  <2>1. RestoreItem(l, item, now) = Grown(l, sub)
    BY <1>7 DEF RestoreItem
  <2>2. l.next \in Ids => uid \in 0 .. MaxIds
    BY FieldTypes DEF Ids
  <2>3. l.next \in Ids => sub \in Subscriptions
    <3>. HIDE DEF uid, st
    <3>. QED BY <1>1, <2>2 DEF Subscriptions
  <2>4. sub.source = item.source /\ sub.uid = uid /\ sub.verdict = item.verdict
    BY <1>1 DEF Subscriptions
  <2>. HIDE DEF sub, T
  <2>. QED BY <1>4, <1>5, <1>7, <2>1, <2>3, <2>4
<1>. QED BY <1>6, <1>7

LEMMA MergeType ==
  ASSUME NEW l \in Libs, NEW url \in Urls, NEW S, NEW now \in Days
  PROVE  MergeBySource(l, url, S, now) \in Libs
<1>. DEFINE r == MergeBySource(l, url, S, now)
<1>1. CASE \E i \in Present(l.store), sub \in Subscriptions : r = Put(l, i, sub)
  BY <1>1, PutType DEF Present
<1>2. CASE \E sub : r = Grown(l, sub) /\ (l.next \in Ids => sub \in Subscriptions)
  BY <1>2, GrownType
<1>. HIDE DEF r
<1>3. \/ \E i \in Present(l.store), sub \in Subscriptions : r = Put(l, i, sub)
      \/ \E sub : r = Grown(l, sub) /\ (l.next \in Ids => sub \in Subscriptions)
  BY MergeStep DEF r
<1>. QED BY <1>1, <1>2, <1>3 DEF r

LEMMA RestoreType ==
  ASSUME NEW l \in Libs, NEW item \in Subscriptions, NEW now \in Days
  PROVE  RestoreItem(l, item, now) \in Libs
<1>. DEFINE r == RestoreItem(l, item, now)
<1>1. CASE \E i \in Present(l.store), sub \in Subscriptions : r = Put(l, i, sub)
  BY <1>1, PutType DEF Present
<1>2. CASE \E sub : r = Grown(l, sub) /\ (l.next \in Ids => sub \in Subscriptions)
  BY <1>2, GrownType
<1>. HIDE DEF r
<1>3. \/ \E i \in Present(l.store), sub \in Subscriptions : r = Put(l, i, sub)
      \/ \E sub : r = Grown(l, sub) /\ (l.next \in Ids => sub \in Subscriptions)
  BY RestoreStep DEF r
<1>. QED BY <1>1, <1>2, <1>3 DEF r

\* What every entry of a backup hands on to the next holds of the restore.
LEMMA RestoreChain ==
  ASSUME NEW lib \in Libs, NEW file \in [Ids -> Subscriptions \cup {None}], NEW now \in Days,
         NEW G, lib \in G[0],
         \A b \in Ids : \A l \in Libs :
            l \in G[b - 1] => (IF file[b] = None THEN l ELSE RestoreItem(l, file[b], now)) \in G[b]
  PROVE  RestoreAll(lib, file, now) \in Libs /\ RestoreAll(lib, file, now) \in G[MaxIds]
<1>. DEFINE Link(b, l) == IF file[b] = None THEN l ELSE RestoreItem(l, file[b], now)
            F == [x \in (1 .. MaxIds) \X Libs |-> Link(x[1], x[2])]
<1>1. \A b \in 1 .. MaxIds, l \in Libs : Link(b, l) \in Libs
  BY RestoreType DEF Ids
<1>2. \A b \in 1 .. MaxIds, l \in Libs : F[<<b, l>>] \in Libs
  BY <1>1
<1>3. \A b \in 1 .. MaxIds, l \in Libs : F[<<b, l>>] = Link(b, l)
  OBVIOUS
<1>4. PICK g \in [0 .. MaxIds -> Libs] :
             g[0] = lib /\ \A b \in 1 .. MaxIds : g[b] = F[<<b, g[b - 1]>>]
  <2>. HIDE DEF F
  <2>1. Chains(MaxIds, Libs, lib, F) # {}
    BY <1>2, Bounds, ChainExists
  <2>. QED BY <2>1 DEF Chains
<1>5. ASSUME NEW b \in 1 .. MaxIds PROVE g[b] = Link(b, g[b - 1]) /\ g[b - 1] \in Libs
  <2>1. b - 1 \in 0 .. MaxIds
    BY Bounds
  <2>2. g[b - 1] \in Libs
    BY <2>1
  <2>. HIDE DEF F, Link
  <2>. QED BY <1>3, <1>4, <2>2
<1>6. PICK after :
         /\ RestoreAll(lib, file, now) = after[MaxIds]
         /\ after = [b \in 0 .. MaxIds |->
                       IF b = 0 THEN lib
                       ELSE IF file[b] = None THEN after[b - 1]
                       ELSE RestoreItem(after[b - 1], file[b], now)]
  <2>1. \E after : after = [b \in 0 .. MaxIds |->
                              IF b = 0 THEN lib
                              ELSE IF file[b] = None THEN after[b - 1]
                              ELSE RestoreItem(after[b - 1], file[b], now)]
    <3>1. g = [b \in 0 .. MaxIds |->
                 IF b = 0 THEN lib
                 ELSE IF file[b] = None THEN g[b - 1]
                 ELSE RestoreItem(g[b - 1], file[b], now)]
      <4>1. \A b \in 0 .. MaxIds : b # 0 => b \in 1 .. MaxIds
        BY Bounds
      <4>. HIDE DEF F
      <4>. QED BY <1>4, <1>5, <4>1
    <3>. QED BY <3>1
  <2>. QED BY <2>1 DEF RestoreAll
<1>. DEFINE H == [b \in 0 .. MaxIds |-> {l \in Libs : l \in G[b]}]
<1>7. after[0] \in H[0]
  BY <1>6, Bounds
<1>8. ASSUME NEW b \in 1 .. MaxIds, after[b - 1] \in H[b - 1] PROVE after[b] \in H[b]
  <2>1. b - 1 \in 0 .. MaxIds /\ b \in 0 .. MaxIds /\ b # 0 /\ b \in Ids
    BY Bounds DEF Ids
  <2>2. after[b] = Link(b, after[b - 1])
    BY <1>6, <2>1
  <2>3. after[b - 1] \in Libs /\ after[b - 1] \in G[b - 1]
    BY <1>8, <2>1
  <2>4. after[b] \in Libs
    BY <1>1, <2>2, <2>3
  <2>5. after[b] \in G[b]
    BY <2>1, <2>2, <2>3
  <2>. QED BY <2>1, <2>4, <2>5
<1>9. after[MaxIds] \in H[MaxIds]
  <2>. HIDE DEF H
  <2>1. \A b \in 0 .. MaxIds : after[b] \in H[b]
    BY <1>7, <1>8, Bounds, ChainEnds
  <2>. QED BY <2>1, Bounds
<1>. QED BY <1>6, <1>9, Bounds

\* The same for the URLs of an add.
LEMMA AddChain ==
  ASSUME NEW lib \in Libs, NEW urls \in Seq(Urls), NEW fetched, NEW now \in Days,
         NEW G, lib \in G[0],
         \A k \in 1 .. Len(urls) : \A l \in Libs :
            l \in G[k - 1] => MergeBySource(l, urls[k], fetched[k], now) \in G[k]
  PROVE  AddAll(lib, urls, fetched, now) \in Libs /\ AddAll(lib, urls, fetched, now) \in G[Len(urls)]
<1>. DEFINE N == Len(urls)
            Link(k, l) == MergeBySource(l, urls[k], fetched[k], now)
            F == [x \in (1 .. N) \X Libs |-> Link(x[1], x[2])]
<1>0. N \in Nat /\ \A k \in 1 .. N : urls[k] \in Urls
  OBVIOUS
<1>. HIDE DEF N
<1>1. \A k \in 1 .. N, l \in Libs : Link(k, l) \in Libs
  BY <1>0, MergeType
<1>2. \A k \in 1 .. N, l \in Libs : F[<<k, l>>] \in Libs
  BY <1>1
<1>3. \A k \in 1 .. N, l \in Libs : F[<<k, l>>] = Link(k, l)
  OBVIOUS
<1>4. PICK g \in [0 .. N -> Libs] :
             g[0] = lib /\ \A k \in 1 .. N : g[k] = F[<<k, g[k - 1]>>]
  <2>. HIDE DEF F
  <2>1. Chains(N, Libs, lib, F) # {}
    BY <1>0, <1>2, ChainExists
  <2>. QED BY <2>1 DEF Chains
<1>5. ASSUME NEW k \in 1 .. N PROVE g[k] = Link(k, g[k - 1]) /\ g[k - 1] \in Libs
  <2>1. k - 1 \in 0 .. N
    BY <1>0
  <2>2. g[k - 1] \in Libs
    BY <2>1
  <2>. HIDE DEF F, Link
  <2>. QED BY <1>3, <1>4, <2>2
<1>6. PICK after :
         /\ AddAll(lib, urls, fetched, now) = after[N]
         /\ after = [k \in 0 .. N |->
                       IF k = 0 THEN lib
                       ELSE MergeBySource(after[k - 1], urls[k], fetched[k], now)]
  <2>1. \E after : after = [k \in 0 .. N |->
                              IF k = 0 THEN lib
                              ELSE MergeBySource(after[k - 1], urls[k], fetched[k], now)]
    <3>1. g = [k \in 0 .. N |-> IF k = 0 THEN lib
                                ELSE MergeBySource(g[k - 1], urls[k], fetched[k], now)]
      <4>1. \A k \in 0 .. N : k # 0 => k \in 1 .. N
        BY <1>0
      <4>. HIDE DEF F
      <4>. QED BY <1>4, <1>5, <4>1
    <3>. QED BY <3>1
  <2>. QED BY <2>1 DEF AddAll, N
<1>. DEFINE H == [k \in 0 .. N |-> {l \in Libs : l \in G[k]}]
<1>7. after[0] \in H[0]
  BY <1>0, <1>6
<1>8. ASSUME NEW k \in 1 .. N, after[k - 1] \in H[k - 1] PROVE after[k] \in H[k]
  <2>1. k - 1 \in 0 .. N /\ k \in 0 .. N /\ k # 0
    BY <1>0
  <2>2. after[k] = Link(k, after[k - 1])
    BY <1>6, <2>1
  <2>3. after[k - 1] \in Libs /\ after[k - 1] \in G[k - 1]
    BY <1>8, <2>1
  <2>4. after[k] \in Libs
    BY <1>1, <2>2, <2>3
  <2>5. after[k] \in G[k]
    BY <2>2, <2>3 DEF N
  <2>. QED BY <2>1, <2>4, <2>5
<1>9. after[N] \in H[N]
  <2>. HIDE DEF H
  <2>1. \A k \in 0 .. N : after[k] \in H[k]
    BY <1>0, <1>7, <1>8, ChainEnds
  <2>. QED BY <1>0, <2>1
<1>. QED BY <1>0, <1>6, <1>9 DEF N

-----------------------------------------------------------------------------
(* Identities. *)

\* The identities in the list and in the backup are in order: below what the
\* next subscription gets, no two of the list alike, and an entry of the
\* backup has no uid that the list gives to another source.
Sound(l, file) ==
  /\ \A i \in Present(l.store) : i < l.next /\ l.store[i].uid \in 1 .. l.next - 1
  /\ \A i, j \in Present(l.store) :
        \/ Remote(l.store[i]) /\ l.store[i].source = l.store[j].source
        \/ l.store[i].uid = l.store[j].uid
        => i = j
  /\ \A b \in Present(file) : file[b].uid < l.next
  /\ \A b \in Present(file), i \in Present(l.store) :
        file[b].uid = l.store[i].uid => file[b].source = l.store[i].source
  /\ \A b, c \in Present(file) :
        \/ Remote(file[b]) /\ file[b].source = file[c].source
        \/ file[b].uid = file[c].uid /\ file[b].uid # 0
        => b = c

\* Every subscription of l is one of m, with its identity, and no id that l
\* is done with is in use.
Grew(m, l) ==
  /\ l.next <= m.next
  /\ \A i \in Ids :
        /\ l.store[i] = None /\ i < l.next => m.store[i] = None
        /\ l.store[i] # None => /\ m.store[i] # None
                                /\ m.store[i].source = l.store[i].source
                                /\ m.store[i].uid = l.store[i].uid

\* What the subscriptions are told apart by stays when the rest of them
\* changes and when some go.
LEMMA EditSound ==
  ASSUME NEW l \in Libs, NEW m \in Libs, NEW file, m.next = l.next, Sound(l, file),
         \A i \in Ids : m.store[i] # None => /\ l.store[i] # None
                                             /\ m.store[i].source = l.store[i].source
                                             /\ m.store[i].uid = l.store[i].uid
  PROVE  Sound(m, file)
<1>1. \A i \in Present(m.store) : i \in Present(l.store)
  BY DEF Present
<1>. QED BY <1>1 DEF Sound, Remote, Present

\* So it does when a subscription comes that is not like another.
LEMMA GrownSound ==
  ASSUME NEW l \in Libs, NEW file \in [Ids -> Subscriptions \cup {None}], NEW sub,
         l.next \in Ids => sub \in Subscriptions,
         Sound(l, file), sub.uid \in 1 .. l.next,
         \A i \in Present(l.store) : Remote(sub) => l.store[i].source # sub.source,
         \A i \in Present(l.store) : l.store[i].uid # sub.uid,
         \A b \in Present(file) : file[b].uid = sub.uid => file[b].source = sub.source
  PROVE  Sound(Grown(l, sub), file)
<1>. DEFINE r == Grown(l, sub)
<1>1. /\ r \in Libs /\ r.next = l.next + 1
      /\ \A k \in Ids : r.store[k] = IF k = l.next THEN sub ELSE l.store[k]
  BY GrownType
<1>2. l.next \in Nat \ {0} /\ \A i \in Ids : i \in Nat
  BY Bounds DEF Libs
<1>. HIDE DEF r
<1>3. \A i \in Present(r.store) :
        \/ i = l.next /\ r.store[i] = sub
        \/ i # l.next /\ i \in Present(l.store) /\ r.store[i] = l.store[i]
  BY <1>1 DEF Present
<1>4. \A i \in Present(r.store) : i < r.next /\ r.store[i].uid \in 1 .. r.next - 1
  BY <1>1, <1>2, <1>3 DEF Sound, Present
<1>5. \A i, j \in Present(r.store) :
        \/ Remote(r.store[i]) /\ r.store[i].source = r.store[j].source
        \/ r.store[i].uid = r.store[j].uid
        => i = j
  <2>. SUFFICES ASSUME NEW i \in Present(r.store), NEW j \in Present(r.store), i # j
                PROVE  /\ Remote(r.store[i]) => r.store[i].source # r.store[j].source
                       /\ r.store[i].uid # r.store[j].uid
    OBVIOUS
  <2>1. CASE i = l.next
    BY <1>3, <2>1
  <2>2. CASE j = l.next
    BY <1>3, <2>2 DEF Remote
  <2>3. CASE i # l.next /\ j # l.next
    BY <1>3, <2>3 DEF Sound
  <2>. QED BY <2>1, <2>2, <2>3
<1>6. \A b \in Present(file) : file[b].uid < r.next
  <2>1. \A b \in Present(file) : file[b].uid \in Nat
    BY FieldTypes, Bounds DEF Present
  <2>. QED BY <1>1, <1>2, <2>1 DEF Sound
<1>7. \A b \in Present(file), i \in Present(r.store) :
        file[b].uid = r.store[i].uid => file[b].source = r.store[i].source
  BY <1>3 DEF Sound
<1>. QED BY <1>4, <1>5, <1>6, <1>7 DEF Sound, r

\* The list after some entries is sound, and is the one before them grown;
\* unless the request makes more subscriptions than the bound.
Good(l, file, l0) == Fits(l) => Sound(l, file) /\ Grew(l, l0)

LEMMA PutGood ==
  ASSUME NEW l \in Libs, NEW l0 \in Libs, NEW file, NEW i \in Present(l.store),
         NEW sub \in Subscriptions,
         sub.source = l.store[i].source, sub.uid = l.store[i].uid, Good(l, file, l0)
  PROVE  Good(Put(l, i, sub), file, l0)
<1>. DEFINE r == Put(l, i, sub)
<1>1. /\ r \in Libs /\ r.next = l.next
      /\ \A k \in Ids : r.store[k] = IF k = i THEN sub ELSE l.store[k]
  BY PutType DEF Present
<1>2. sub # None
  BY NoneIsNone
<1>. HIDE DEF r
<1>3. SUFFICES ASSUME Fits(l), Sound(l, file), Grew(l, l0)
               PROVE  Sound(r, file) /\ Grew(r, l0)
  BY <1>1 DEF Good, Fits, r
<1>4. Sound(r, file)
  BY <1>1, <1>3, EditSound DEF Present
<1>5. Grew(r, l0)
  BY <1>1, <1>2, <1>3 DEF Grew, Present
<1>. QED BY <1>4, <1>5

LEMMA GrownGood ==
  ASSUME NEW l \in Libs, NEW l0 \in Libs, NEW file, NEW sub,
         l.next \in Ids => sub \in Subscriptions,
         Sound(l0, file), Good(l, file, l0),
         l.next \in Ids /\ Sound(l, file) => Sound(Grown(l, sub), file)
  PROVE  Good(Grown(l, sub), file, l0)
<1>. DEFINE r == Grown(l, sub)
<1>1. /\ r \in Libs /\ r.next = l.next + 1
      /\ \A k \in Ids : r.store[k] = IF k = l.next THEN sub ELSE l.store[k]
  BY GrownType
<1>2. l.next \in Nat \ {0} /\ l0.next \in Nat \ {0} /\ (\A i \in Ids : i \in Nat) /\ MaxIds \in Nat
  BY Bounds DEF Libs
<1>. HIDE DEF r
<1>3. SUFFICES ASSUME Fits(r) PROVE Sound(r, file) /\ Grew(r, l0)
  BY DEF Good, r
<1>4. Fits(l) /\ l.next \in Ids
  BY <1>1, <1>2, <1>3 DEF Fits, Ids
<1>5. Sound(l, file) /\ Grew(l, l0)
  BY <1>4 DEF Good
<1>6. \A i \in Ids : l0.store[i] # None => i < l0.next
  BY DEF Sound, Present
<1>7. Grew(r, l0)
  BY <1>1, <1>2, <1>5, <1>6 DEF Grew
<1>. QED BY <1>4, <1>5, <1>7 DEF r

\* A uid that is as fresh as the id is that of nobody.
LEMMA FreshUid ==
  ASSUME NEW l \in Libs, NEW file, Sound(l, file)
  PROVE  /\ l.next \in 1 .. l.next
         /\ \A i \in Present(l.store) : l.store[i].uid # l.next
         /\ \A b \in Present(file) : file[b].uid # l.next
<1>1. l.next \in Nat \ {0}
  BY DEF Libs
<1>. QED BY <1>1 DEF Sound

LEMMA MergeGood ==
  ASSUME NEW l \in Libs, NEW l0 \in Libs, NEW file \in [Ids -> Subscriptions \cup {None}],
         NEW url \in Urls, NEW S, NEW now \in Days, Sound(l0, file), Good(l, file, l0)
  PROVE  Good(MergeBySource(l, url, S, now), file, l0)
<1>. DEFINE r == MergeBySource(l, url, S, now)
<1>1. CASE \E i \in Present(l.store), sub \in Subscriptions :
              r = Put(l, i, sub) /\ l.store[i].source = sub.source /\ sub.uid = l.store[i].uid
  BY <1>1, PutGood
<1>2. CASE \E sub : /\ r = Grown(l, sub)
                    /\ \A i \in Present(l.store) : l.store[i].source # sub.source
                    /\ l.next \in Ids => sub \in Subscriptions
                    /\ sub.uid = l.next
  <2>1. PICK sub : /\ r = Grown(l, sub)
                   /\ \A i \in Present(l.store) : l.store[i].source # sub.source
                   /\ l.next \in Ids => sub \in Subscriptions
                   /\ sub.uid = l.next
    BY <1>2
  <2>2. Sound(l, file) => Sound(Grown(l, sub), file)
    BY <2>1, FreshUid, GrownSound
  <2>. QED BY <2>1, <2>2, GrownGood
<1>3. \/ \E i \in Present(l.store), sub \in Subscriptions :
            r = Put(l, i, sub) /\ l.store[i].source = sub.source /\ sub.uid = l.store[i].uid
      \/ \E sub : /\ r = Grown(l, sub)
                  /\ \A i \in Present(l.store) : l.store[i].source # sub.source
                  /\ l.next \in Ids => sub \in Subscriptions
                  /\ sub.uid = l.next
  <2>. HIDE DEF r
  <2>1. \/ \E i \in Present(l.store), sub \in Subscriptions :
             /\ r = Put(l, i, sub) /\ l.store[i].source = url
             /\ sub.source = url /\ sub.uid = l.store[i].uid
        \/ \E sub :
             /\ r = Grown(l, sub) /\ \A i \in Present(l.store) : l.store[i].source # url
             /\ l.next \in Ids => sub \in Subscriptions
             /\ sub.source = url /\ sub.uid = l.next
    BY MergeStep DEF r
  <2>. QED BY <2>1
<1>. QED BY <1>1, <1>2, <1>3

LEMMA RestoreGood ==
  ASSUME NEW l \in Libs, NEW l0 \in Libs, NEW file \in [Ids -> Subscriptions \cup {None}],
         NEW b \in Present(file), NEW now \in Days, Sound(l0, file), Good(l, file, l0)
  PROVE  Good(RestoreItem(l, file[b], now), file, l0)
<1>. DEFINE item == file[b]
            r == RestoreItem(l, item, now)
<1>0. item \in Subscriptions
  BY DEF Present
<1>. HIDE DEF r, item
<1>1. CASE \E i \in Present(l.store), sub \in Subscriptions :
              r = Put(l, i, sub) /\ l.store[i].source = sub.source /\ sub.uid = l.store[i].uid
  BY <1>1, PutGood DEF r, item
<1>2. ASSUME NEW sub, r = Grown(l, sub),
             \A i \in Present(l.store) : Remote(item) => l.store[i].source # item.source,
             \A i \in Present(l.store) :
                item.uid # 0 /\ ~Remote(item) /\ l.store[i].uid = item.uid => Remote(l.store[i]),
             l.next \in Ids => sub \in Subscriptions, sub.source = item.source,
             sub.uid = IF Remote(item) \/ item.uid = 0 THEN l.next ELSE item.uid
      PROVE  Good(r, file, l0)
  <2>1. ASSUME Sound(l, file) PROVE Sound(Grown(l, sub), file)
    <3>1. \A i \in Present(l.store) : Remote(sub) => l.store[i].source # sub.source
      BY <1>2 DEF Remote
    <3>2. CASE Remote(item) \/ item.uid = 0
      BY <1>2, <2>1, <3>1, <3>2, FreshUid, GrownSound
    <3>3. CASE ~Remote(item) /\ item.uid # 0
      <4>1. sub.uid = item.uid /\ item.uid \in 1 .. l.next
        <5>1. item.uid \in Nat /\ item.uid < l.next /\ l.next \in Nat
          BY <1>0, <2>1, FieldTypes, Bounds DEF Sound, item, Libs
        <5>. QED BY <1>2, <3>3, <5>1
      <4>2. \A i \in Present(l.store) : l.store[i].uid # sub.uid
        <5>. SUFFICES ASSUME NEW i \in Present(l.store), l.store[i].uid = item.uid PROVE FALSE
          BY <4>1
        <5>1. item.source = l.store[i].source
          BY <2>1 DEF Sound, item
        <5>2. Remote(l.store[i])
          BY <1>2, <3>3
        <5>. QED BY <3>3, <5>1, <5>2 DEF Remote
      <4>3. \A c \in Present(file) : file[c].uid = sub.uid => file[c].source = sub.source
        BY <1>2, <2>1, <3>3, <4>1 DEF Sound, item
      <4>. QED BY <1>2, <2>1, <3>1, <4>1, <4>2, <4>3, GrownSound
    <3>. QED BY <3>2, <3>3
  <2>. QED BY <1>2, <2>1, GrownGood
<1>3. \/ \E i \in Present(l.store), sub \in Subscriptions :
            r = Put(l, i, sub) /\ l.store[i].source = sub.source /\ sub.uid = l.store[i].uid
      \/ \E sub :
            /\ r = Grown(l, sub)
            /\ \A i \in Present(l.store) : Remote(item) => l.store[i].source # item.source
            /\ \A i \in Present(l.store) :
                  item.uid # 0 /\ ~Remote(item) /\ l.store[i].uid = item.uid => Remote(l.store[i])
            /\ l.next \in Ids => sub \in Subscriptions
            /\ sub.source = item.source
            /\ sub.uid = IF Remote(item) \/ item.uid = 0 THEN l.next ELSE item.uid
  <2>1. \/ \E i \in Present(l.store), sub \in Subscriptions :
             /\ r = Put(l, i, sub) /\ l.store[i].source = item.source
             /\ sub.source = item.source /\ sub.uid = l.store[i].uid
        \/ \E sub :
            /\ r = Grown(l, sub)
            /\ \A i \in Present(l.store) : Remote(item) => l.store[i].source # item.source
            /\ \A i \in Present(l.store) :
                  item.uid # 0 /\ ~Remote(item) /\ l.store[i].uid = item.uid => Remote(l.store[i])
            /\ l.next \in Ids => sub \in Subscriptions
            /\ sub.source = item.source
            /\ sub.uid = IF Remote(item) \/ item.uid = 0 THEN l.next ELSE item.uid
    BY <1>0, RestoreStep DEF r
  <2>. QED BY <2>1
<1>4. ASSUME NEW sub,
            /\ r = Grown(l, sub)
            /\ \A i \in Present(l.store) : Remote(item) => l.store[i].source # item.source
            /\ \A i \in Present(l.store) :
                  item.uid # 0 /\ ~Remote(item) /\ l.store[i].uid = item.uid => Remote(l.store[i])
            /\ l.next \in Ids => sub \in Subscriptions
            /\ sub.source = item.source
            /\ sub.uid = IF Remote(item) \/ item.uid = 0 THEN l.next ELSE item.uid
      PROVE  Good(RestoreItem(l, file[b], now), file, l0)
  <2>1. Good(r, file, l0)
    BY <1>2, <1>4
  <2>. QED BY <2>1 DEF r, item
<1>. QED BY <1>1, <1>3, <1>4

LEMMA AddAllGood ==
  ASSUME NEW l0 \in Libs, NEW file \in [Ids -> Subscriptions \cup {None}],
         NEW urls \in Seq(Urls), NEW fetched, NEW now \in Days, Sound(l0, file)
  PROVE  /\ AddAll(l0, urls, fetched, now) \in Libs
         /\ Good(AddAll(l0, urls, fetched, now), file, l0)
<1>. DEFINE G == [k \in Nat |-> {l \in Libs : Good(l, file, l0)}]
<1>1. \A k \in Nat : G[k] = {l \in Libs : Good(l, file, l0)}
  OBVIOUS
<1>2. Good(l0, file, l0)
  <2>1. l0.next \in Nat
    BY DEF Libs
  <2>. QED BY <2>1 DEF Good, Grew
<1>3. Len(urls) \in Nat /\ \A k \in 1 .. Len(urls) : k \in Nat /\ k - 1 \in Nat /\ urls[k] \in Urls
  OBVIOUS
<1>. HIDE DEF G
<1>4. \A k \in 1 .. Len(urls) : \A l \in Libs :
        l \in G[k - 1] => MergeBySource(l, urls[k], fetched[k], now) \in G[k]
  BY <1>1, <1>3, MergeGood, MergeType
<1>5. l0 \in G[0]
  BY <1>1, <1>2
<1>6. /\ AddAll(l0, urls, fetched, now) \in Libs
      /\ AddAll(l0, urls, fetched, now) \in G[Len(urls)]
  BY <1>4, <1>5, AddChain
<1>. QED BY <1>1, <1>3, <1>6

LEMMA RestoreAllGood ==
  ASSUME NEW l0 \in Libs, NEW file \in [Ids -> Subscriptions \cup {None}], NEW now \in Days,
         Sound(l0, file)
  PROVE  /\ RestoreAll(l0, file, now) \in Libs
         /\ Good(RestoreAll(l0, file, now), file, l0)
<1>. DEFINE G == [k \in Nat |-> {l \in Libs : Good(l, file, l0)}]
<1>1. \A k \in Nat : G[k] = {l \in Libs : Good(l, file, l0)}
  OBVIOUS
<1>2. Good(l0, file, l0)
  <2>1. l0.next \in Nat
    BY DEF Libs
  <2>. QED BY <2>1 DEF Good, Grew
<1>3. \A b \in Ids : b \in Nat /\ b - 1 \in Nat
  BY Bounds DEF Ids
<1>. HIDE DEF G
<1>4. ASSUME NEW b \in Ids, NEW l \in Libs, l \in G[b - 1]
      PROVE  (IF file[b] = None THEN l ELSE RestoreItem(l, file[b], now)) \in G[b]
  <2>1. Good(l, file, l0)
    BY <1>1, <1>3, <1>4
  <2>2. CASE file[b] = None
    BY <1>1, <1>3, <2>1, <2>2
  <2>3. CASE file[b] # None
    <3>1. b \in Present(file) /\ file[b] \in Subscriptions
      BY <2>3 DEF Present
    <3>. QED BY <1>1, <1>3, <2>1, <2>3, <3>1, RestoreGood, RestoreType
  <2>. QED BY <2>2, <2>3
<1>5. l0 \in G[0]
  BY <1>1, <1>2
<1>6. /\ RestoreAll(l0, file, now) \in Libs
      /\ RestoreAll(l0, file, now) \in G[MaxIds]
  BY <1>4, <1>5, RestoreChain
<1>. QED BY <1>1, <1>6, Bounds

-----------------------------------------------------------------------------
(* What each action does to the list. *)

\* Becomes, with what is known to be good as a function.
Changes(lib, good) ==
  /\ Fits(lib)
  /\ store' = lib.store
  /\ nextId' = lib.next
  /\ grace' = [i \in Ids |-> IF lib.store[i] = None THEN 0
                             ELSE Max({good[i], IF store[i] = None THEN 0 ELSE grace[i]})]

Never == [i \in Ids |-> 0]
Fresh == [i \in Ids |-> IF store[i] = None THEN today ELSE 0]

Judged(s, T, U) ==
  [s EXCEPT !.verdict = [n \in Nodes |->
      IF s.verdict[n] = "absent" \/ n \notin T THEN s.verdict[n]
      ELSE IF n \in U THEN "up" ELSE "down"]]

Tested(s, T, U) ==
  IF HasUp(Judged(s, T, U)) THEN [Judged(s, T, U) EXCEPT !.healthy = today] ELSE Judged(s, T, U)

Edited(f) == [Here EXCEPT !.store = [i \in Ids |-> IF store[i] = None THEN None ELSE f[i]]]

UpIn(T, U) == [i \in Ids |-> IF store[i] # None /\ HasUp(Judged(store[i], T, U)) THEN today ELSE 0]

Cleaned(s) ==
  [s EXCEPT !.verdict = [n \in Nodes |-> IF @[n] = "down" THEN "absent" ELSE @[n]]]

Pasting(name, S) ==
  [source |-> Pasted, uid |-> nextId, name |-> name, verdict |-> Untested(S), error |-> FALSE,
   checked |-> today, updated |-> today, healthy |-> 0]

LEMMA AddShape ==
  ASSUME NEW w \in Workers, FinishAdd(w)
  PROVE  \E fetched \in [DOMAIN job[w].urls -> SUBSET Nodes] :
            Changes(AddAll(Here, job[w].urls, fetched, today), Fresh)
<1>1. PICK fetched \in [DOMAIN job[w].urls -> SUBSET Nodes] :
             Becomes(AddAll(Here, job[w].urls, fetched, today),
                     LAMBDA i : IF store[i] = None THEN today ELSE 0)
  BY DEF FinishAdd
<1>2. Changes(AddAll(Here, job[w].urls, fetched, today), Fresh)
  BY <1>1 DEF Becomes, Changes, Fresh
<1>. QED BY <1>2

LEMMA PasteShape ==
  ASSUME NEW name \in Names, NEW S \in SUBSET Nodes, Paste(name, S)
  PROVE  Changes(Grown(Here, Pasting(name, S)), Fresh)
  BY DEF Paste, Becomes, Changes, Fresh, Pasting

LEMMA RefreshShape ==
  ASSUME NEW w \in Workers, FinishRefresh(w), store[job[w].id] # None
  PROVE  \E S \in SUBSET Nodes :
            Changes(Put(Here, job[w].id, Refreshed(store[job[w].id], job[w].remote, S, today)), Never)
  BY DEF FinishRefresh, Becomes, Changes, Never

LEMMA WriteShape ==
  ASSUME NEW T \in SUBSET Nodes, NEW U \in SUBSET T, WriteBack(T, U)
  PROVE  Changes(Edited([i \in Ids |-> Tested(store[i], T, U)]), UpIn(T, U))
  BY DEF WriteBack, Becomes, Changes, Edited, Tested, Judged, UpIn

LEMMA CleanShape ==
  ASSUME CleanupBad
  PROVE  Changes(Edited([i \in Ids |-> Cleaned(store[i])]), Never)
  BY DEF CleanupBad, Becomes, Changes, Edited, Cleaned, Never

LEMMA NodeShape ==
  ASSUME NEW i \in Ids, NEW n \in Nodes, DeleteNode(i, n)
  PROVE  Changes(Put(Here, i, [store[i] EXCEPT !.verdict[n] = "absent"]), Never)
  BY DEF DeleteNode, Becomes, Changes, Never

LEMMA GoneShape ==
  /\ \A i \in Ids : Delete(i) => Changes(Without({i}), Never)
  /\ Prune => Changes(Without({i \in Present(store) : Dead(store[i])}), Never)
  BY DEF Delete, Prune, Becomes, Changes, Never

LEMMA MaxDays ==
  ASSUME NEW a \in Days, NEW b \in Days
  PROVE  Max({a, b}) \in {a, b} /\ Max({a, b}) \in Days /\ Max({a, b}) >= a /\ Max({a, b}) >= b
<1>1. a \in Int /\ b \in Int
  BY Bounds DEF Days
<1>2. \E m \in {a, b} : \A k \in {a, b} : m >= k
  BY <1>1
<1>3. Max({a, b}) \in {a, b} /\ \A k \in {a, b} : Max({a, b}) >= k
  BY <1>2 DEF Max
<1>. QED BY <1>3

LEMMA HereType ==
  ASSUME TypeOK PROVE Here \in Libs /\ Here.store = store /\ Here.next = nextId
  BY Bounds DEF TypeOK, Here, Libs

LEMMA ChangesType ==
  ASSUME TypeOK, NEW lib \in Libs, NEW good \in [Ids -> Days], Changes(lib, good)
  PROVE  /\ Here' = lib
         /\ store' \in [Ids -> Subscriptions \cup {None}]
         /\ nextId' \in 1 .. MaxIds + 1
         /\ grace' \in [Ids -> Days]
<1>1. Here' = lib
  BY DEF Here, Changes, Libs
<1>2. store' \in [Ids -> Subscriptions \cup {None}] /\ nextId' \in 1 .. MaxIds + 1
  BY Bounds DEF Changes, Libs, Fits
<1>3. \A i \in Ids : grace[i] \in Days /\ good[i] \in Days /\ 0 \in Days
  BY Bounds DEF TypeOK
<1>4. \A i \in Ids : grace'[i] \in Days
  <2>1. \A i \in Ids : Max({good[i], IF store[i] = None THEN 0 ELSE grace[i]}) \in Days
    BY <1>3, MaxDays
  <2>. QED BY <1>3, <2>1 DEF Changes
<1>5. grace' \in [Ids -> Days]
  BY <1>4 DEF Changes
<1>. QED BY <1>1, <1>2, <1>5

LEMMA GoodType ==
  ASSUME TypeOK
  PROVE  /\ Never \in [Ids -> Days] /\ Fresh \in [Ids -> Days]
         /\ \A T, U : UpIn(T, U) \in [Ids -> Days]
         /\ today \in Days
<1>1. today \in Days /\ 0 \in Days
  BY Bounds DEF TypeOK, Days
<1>. QED BY <1>1 DEF Never, Fresh, UpIn

\* A subscription stays what it is when its nodes are tested, cleaned up or
\* fetched.
Same(t, s) == t \in Subscriptions /\ t.source = s.source /\ t.uid = s.uid

LEMMA JudgedType ==
  ASSUME NEW s \in Subscriptions, NEW T, NEW U
  PROVE  /\ Same(Judged(s, T, U), s)
         /\ Judged(s, T, U).healthy = s.healthy /\ Judged(s, T, U).checked = s.checked
         /\ Judged(s, T, U).updated = s.updated
<1>. DEFINE v == [n \in Nodes |->
                    IF s.verdict[n] = "absent" \/ n \notin T THEN s.verdict[n]
                    ELSE IF n \in U THEN "up" ELSE "down"]
<1>1. v \in [Nodes -> Verdicts]
  BY FieldTypes DEF Verdicts
<1>2. Judged(s, T, U) = [s EXCEPT !.verdict = v]
  BY DEF Judged
<1>. HIDE DEF v
<1>. QED BY <1>1, <1>2 DEF Same, Subscriptions

LEMMA TestedType ==
  ASSUME TypeOK, NEW s \in Subscriptions, NEW T, NEW U
  PROVE  /\ Same(Tested(s, T, U), s)
         /\ Tested(s, T, U).healthy = IF HasUp(Judged(s, T, U)) THEN today ELSE s.healthy
         /\ Tested(s, T, U).checked = s.checked /\ Tested(s, T, U).updated = s.updated
<1>. DEFINE j == Judged(s, T, U)
<1>1. /\ j \in Subscriptions /\ j.source = s.source /\ j.uid = s.uid
      /\ j.healthy = s.healthy /\ j.checked = s.checked /\ j.updated = s.updated
  BY JudgedType DEF Same
<1>2. Tested(s, T, U) = IF HasUp(j) THEN [j EXCEPT !.healthy = today] ELSE j
  BY DEF Tested
<1>3. today \in Days
  BY GoodType
<1>. HIDE DEF j
<1>4. [j EXCEPT !.healthy = today] \in Subscriptions
  BY <1>1, <1>3 DEF Subscriptions
<1>. QED BY <1>1, <1>2, <1>4 DEF Same, Subscriptions, j

LEMMA CleanedType ==
  ASSUME NEW s \in Subscriptions
  PROVE  /\ Same(Cleaned(s), s)
         /\ Cleaned(s).healthy = s.healthy /\ Cleaned(s).checked = s.checked
         /\ Cleaned(s).updated = s.updated
<1>. DEFINE v == [n \in Nodes |-> IF s.verdict[n] = "down" THEN "absent" ELSE s.verdict[n]]
<1>1. v \in [Nodes -> Verdicts]
  BY FieldTypes DEF Verdicts
<1>2. Cleaned(s) = [s EXCEPT !.verdict = v]
  BY DEF Cleaned, Subscriptions
<1>. HIDE DEF v
<1>. QED BY <1>1, <1>2 DEF Same, Subscriptions

LEMMA LessType ==
  ASSUME NEW s \in Subscriptions, NEW n \in Nodes
  PROVE  LET t == [s EXCEPT !.verdict[n] = "absent"]
         IN  /\ Same(t, s) /\ t.healthy = s.healthy /\ t.checked = s.checked
             /\ t.updated = s.updated
<1>. DEFINE v == [s.verdict EXCEPT ![n] = "absent"]
<1>1. v \in [Nodes -> Verdicts]
  BY FieldTypes DEF Verdicts
<1>2. [s EXCEPT !.verdict[n] = "absent"] = [s EXCEPT !.verdict = v]
  BY DEF Subscriptions
<1>. HIDE DEF v
<1>. QED BY <1>1, <1>2 DEF Same, Subscriptions

LEMMA RefreshedType ==
  ASSUME NEW s \in Subscriptions, NEW remote \in BOOLEAN, NEW S, NEW now \in Days
  PROVE  LET t == Refreshed(s, remote, S, now)
         IN  /\ Same(t, s) /\ t.healthy = s.healthy /\ t.checked = now
             /\ t.verdict = IF remote /\ S # {} THEN Merged(s.verdict, S) ELSE s.verdict
<1>. DEFINE v == Merged(s.verdict, S)
<1>1. v \in [Nodes -> Verdicts]
  BY FieldTypes, MergedType
<1>2. CASE ~remote
  BY <1>2 DEF Refreshed, Same, Subscriptions
<1>3. CASE remote /\ S = {}
  BY <1>3 DEF Refreshed, Same, Subscriptions
<1>4. CASE remote /\ S # {}
  <2>1. Refreshed(s, remote, S, now)
          = [s EXCEPT !.checked = now, !.updated = now, !.error = FALSE, !.verdict = v]
    BY <1>4 DEF Refreshed, Subscriptions
  <2>. HIDE DEF v
  <2>2. /\ Same(Refreshed(s, remote, S, now), s)
        /\ Refreshed(s, remote, S, now).healthy = s.healthy
        /\ Refreshed(s, remote, S, now).checked = now
        /\ Refreshed(s, remote, S, now).verdict = v
    BY <1>1, <2>1 DEF Same, Subscriptions
  <2>. QED BY <1>4, <2>2 DEF v
<1>. QED BY <1>2, <1>3, <1>4

LEMMA PastingType ==
  ASSUME TypeOK, NEW name \in Names, NEW S
  PROVE  /\ Pasting(name, S).source = Pasted /\ Pasting(name, S).uid = nextId
         /\ Pasting(name, S).healthy = 0 /\ Pasting(name, S).checked = today
         /\ nextId \in Ids => Pasting(name, S) \in Subscriptions
<1>1. nextId \in Ids => nextId \in 0 .. MaxIds
  BY Bounds DEF Ids
<1>2. today \in Days
  BY GoodType
<1>3. nextId \in Ids => Pasting(name, S) \in Subscriptions
  BY <1>1, <1>2, UntestedType, AddedType DEF Pasting
<1>. QED BY <1>3 DEF Pasting

-----------------------------------------------------------------------------
(* Every step keeps types and identities. *)

Keeps(m, l) ==
  /\ m.next = l.next
  /\ \A i \in Ids : m.store[i] # None => /\ l.store[i] # None
                                         /\ m.store[i].source = l.store[i].source
                                         /\ m.store[i].uid = l.store[i].uid

\* No id means another subscription than it did.
Stays(m, l) ==
  \A i \in Ids :
    /\ l.store[i] = None /\ i < l.next => m.store[i] = None
    /\ l.store[i] # None /\ m.store[i] # None => /\ m.store[i].source = l.store[i].source
                                                 /\ m.store[i].uid = l.store[i].uid

LEMMA EditedKeeps ==
  ASSUME TypeOK, NEW f, \A i \in Present(store) : Same(f[i], store[i])
  PROVE  /\ Edited(f) \in Libs /\ Keeps(Edited(f), Here)
         /\ \A i \in Ids : Edited(f).store[i] = IF store[i] = None THEN None ELSE f[i]
<1>1. Here \in Libs /\ Here.store = store
  BY HereType
<1>2. /\ Edited(f).next = Here.next
      /\ Edited(f).store = [i \in Ids |-> IF store[i] = None THEN None ELSE f[i]]
  BY <1>1 DEF Edited, Libs
<1>3. \A i \in Ids : store[i] # None => Same(f[i], store[i])
  BY DEF Present
<1>4. Edited(f).store \in [Ids -> Subscriptions \cup {None}]
  BY <1>2, <1>3 DEF Same
<1>5. Edited(f) \in Libs
  BY <1>1, <1>4 DEF Edited, Libs
<1>. QED BY <1>1, <1>2, <1>3, <1>5 DEF Keeps, Same

LEMMA PutKeeps ==
  ASSUME TypeOK, NEW i \in Present(store), NEW sub, Same(sub, store[i])
  PROVE  /\ Put(Here, i, sub) \in Libs /\ Keeps(Put(Here, i, sub), Here)
         /\ \A k \in Ids : Put(Here, i, sub).store[k] = IF k = i THEN sub ELSE store[k]
<1>1. Here \in Libs /\ Here.store = store /\ i \in Ids /\ store[i] # None /\ sub \in Subscriptions
  BY HereType DEF Present, Same
<1>2. /\ Put(Here, i, sub) \in Libs /\ Put(Here, i, sub).next = Here.next
      /\ \A k \in Ids : Put(Here, i, sub).store[k] = IF k = i THEN sub ELSE store[k]
  BY <1>1, PutType
<1>. QED BY <1>1, <1>2 DEF Keeps, Same

LEMMA WithoutKeeps ==
  ASSUME TypeOK, NEW D
  PROVE  /\ Without(D) \in Libs /\ Keeps(Without(D), Here)
         /\ \A i \in Ids : Without(D).store[i] = IF i \in D THEN None ELSE store[i]
<1>1. Here \in Libs /\ Here.store = store
  BY HereType
<1>2. /\ Without(D) \in Libs /\ Without(D).next = Here.next
      /\ Without(D).store = [i \in Ids |-> IF i \in D THEN None ELSE store[i]]
  BY <1>1 DEF Without, Libs
<1>. QED BY <1>1, <1>2 DEF Keeps

LEMMA KeepsStays ==
  ASSUME NEW l \in Libs, NEW m \in Libs, NEW file, Keeps(m, l), Sound(l, file)
  PROVE  Sound(m, file) /\ Stays(m, l)
<1>1. Sound(m, file)
  BY EditSound DEF Keeps
<1>. QED BY <1>1 DEF Keeps, Stays

LEMMA GoodStays ==
  ASSUME NEW l \in Libs, NEW m \in Libs, NEW file, Good(m, file, l), Fits(m)
  PROVE  Sound(m, file) /\ Stays(m, l)
  BY DEF Good, Grew, Stays

\* An edit of the list, which leaves the rest alone but for whoever awaits.
LEMMA EditStep ==
  ASSUME TypeOK, NEW lib \in Libs, NEW good \in [Ids -> Days], Changes(lib, good),
         Sound(Here, backup), Keeps(lib, Here) \/ Good(lib, backup, Here),
         UNCHANGED <<backup, days, today>>, job' \in [Workers -> Jobs]
  PROVE  TypeOK' /\ Sound(Here', backup') /\ Stays(Here', Here)
<1>1. /\ Here' = lib
      /\ store' \in [Ids -> Subscriptions \cup {None}]
      /\ nextId' \in 1 .. MaxIds + 1
      /\ grace' \in [Ids -> Days]
  BY ChangesType
<1>2. TypeOK'
  BY <1>1 DEF TypeOK
<1>3. Here \in Libs
  BY HereType
<1>4. Sound(lib, backup) /\ Stays(lib, Here)
  <2>1. CASE Keeps(lib, Here)
    BY <1>3, <2>1, KeepsStays
  <2>2. CASE Good(lib, backup, Here)
    BY <1>3, <2>2, GoodStays DEF Changes
  <2>. QED BY <2>1, <2>2
<1>. QED BY <1>1, <1>2, <1>4

\* A step that leaves the list and the backup alone.
LEMMA QuietStep ==
  ASSUME TypeOK, Sound(Here, backup), UNCHANGED <<store, nextId, backup>>
  PROVE  Sound(Here', backup') /\ Stays(Here', Here)
<1>1. Here' = Here
  BY DEF Here
<1>. QED BY <1>1 DEF Stays

LEMMA ActionStep ==
  ASSUME TypeOK, Sound(Here, backup), Next
  PROVE  TypeOK' /\ Sound(Here', backup') /\ Stays(Here', Here)
<1>. DEFINE Goal == TypeOK' /\ Sound(Here', backup') /\ Stays(Here', Here)
<1>. HIDE DEF Goal
<1>0. /\ today \in Days /\ backup \in [Ids -> Subscriptions \cup {None}]
      /\ Never \in [Ids -> Days] /\ Fresh \in [Ids -> Days]
      /\ \A T, U : UpIn(T, U) \in [Ids -> Days]
      /\ Here \in Libs /\ Here.store = store /\ Here.next = nextId
  BY GoodType, HereType DEF TypeOK
<1>1. ASSUME NEW w \in Workers, NEW urls \in Batches, StartAdd(w, urls) PROVE Goal
  <2>1. job' \in [Workers -> Jobs]
    BY <1>1 DEF StartAdd, TypeOK, Jobs
  <2>2. TypeOK'
    BY <1>1, <2>1 DEF StartAdd, TypeOK
  <2>. QED BY <1>1, <2>2, QuietStep DEF StartAdd, Goal
<1>2. ASSUME NEW w \in Workers, NEW i \in Ids, StartRefresh(w, i) PROVE Goal
  <2>1. [kind |-> "refresh", id |-> i, remote |-> Remote(store[i])] \in Jobs
    BY DEF Jobs, Remote
  <2>2. job' \in [Workers -> Jobs]
    BY <1>2, <2>1 DEF StartRefresh, TypeOK
  <2>3. TypeOK'
    BY <1>2, <2>2 DEF StartRefresh, TypeOK
  <2>. QED BY <1>2, <2>3, QuietStep DEF StartRefresh, Goal
<1>3. ASSUME NEW w \in Workers, FinishAdd(w) PROVE Goal
  <2>1. PICK fetched : Changes(AddAll(Here, job[w].urls, fetched, today), Fresh)
    BY <1>3, AddShape
  <2>2. job' \in [Workers -> Jobs] /\ UNCHANGED <<backup, days, today>>
    BY <1>3 DEF FinishAdd, TypeOK, Jobs
  <2>3. job[w].urls \in Seq(Urls)
    <3>1. job[w] \in Jobs /\ job[w].kind = "add"
      BY <1>3 DEF FinishAdd, TypeOK
    <3>2. job[w].urls \in Batches
      BY <3>1 DEF Jobs, Idle
    <3>. QED BY <3>2, LibraryAssumption
  <2>4. /\ AddAll(Here, job[w].urls, fetched, today) \in Libs
        /\ Good(AddAll(Here, job[w].urls, fetched, today), backup, Here)
    BY <1>0, <2>3, AddAllGood
  <2>. QED BY <1>0, <2>1, <2>2, <2>4, EditStep DEF Goal
<1>4. ASSUME NEW w \in Workers, FinishRefresh(w) PROVE Goal
  <2>1. job' \in [Workers -> Jobs] /\ UNCHANGED <<backup, days, today>>
    BY <1>4 DEF FinishRefresh, TypeOK, Jobs
  <2>2. CASE store[job[w].id] = None
    <3>1. UNCHANGED <<store, nextId, grace>>
      BY <1>4, <2>2 DEF FinishRefresh
    <3>2. TypeOK'
      BY <2>1, <3>1 DEF TypeOK
    <3>. QED BY <2>1, <3>1, <3>2, QuietStep DEF Goal
  <2>3. CASE store[job[w].id] # None
    <3>. DEFINE i == job[w].id
                old == store[i]
    <3>1. job[w] \in Jobs /\ job[w].kind = "refresh"
      BY <1>4 DEF FinishRefresh, TypeOK
    <3>2. i \in Ids /\ job[w].remote \in BOOLEAN
      BY <3>1 DEF Jobs, Idle
    <3>3. i \in Present(store) /\ old \in Subscriptions
      BY <2>3, <3>2 DEF Present, TypeOK
    <3>4. PICK S : Changes(Put(Here, i, Refreshed(old, job[w].remote, S, today)), Never)
      BY <1>4, <2>3, RefreshShape
    <3>5. Same(Refreshed(old, job[w].remote, S, today), old)
      BY <1>0, <3>2, <3>3, RefreshedType
    <3>6. /\ Put(Here, i, Refreshed(old, job[w].remote, S, today)) \in Libs
          /\ Keeps(Put(Here, i, Refreshed(old, job[w].remote, S, today)), Here)
      BY <3>3, <3>5, PutKeeps
    <3>. QED BY <1>0, <2>1, <3>4, <3>6, EditStep DEF Goal
  <2>. QED BY <2>2, <2>3
<1>5. ASSUME NEW w \in Workers, Disconnect(w) PROVE Goal
  <2>1. TypeOK'
    BY <1>5 DEF Disconnect, TypeOK, Jobs
  <2>. QED BY <1>5, <2>1, QuietStep DEF Disconnect, Goal
<1>6. ASSUME NEW name \in Names, NEW S \in SUBSET Nodes, Paste(name, S) PROVE Goal
  <2>. DEFINE sub == Pasting(name, S)
  <2>1. Changes(Grown(Here, sub), Fresh)
    BY <1>6, PasteShape
  <2>2. sub.source = Pasted /\ sub.uid = nextId /\ (nextId \in Ids => sub \in Subscriptions)
    BY PastingType
  <2>3. Grown(Here, sub) \in Libs /\ Grown(Here, sub).next = nextId + 1
    <3>. HIDE DEF sub
    <3>. QED BY <1>0, <2>2, GrownType
  <2>4. nextId \in Ids
    BY <2>1, <2>3, Bounds DEF Changes, Fits, Ids, TypeOK
  <2>5. Sound(Grown(Here, sub), backup)
    <3>. HIDE DEF sub
    <3>1. ~Remote(sub)
      BY <2>2 DEF Remote
    <3>. QED BY <1>0, <2>2, <3>1, FreshUid, GrownSound
  <2>6. Good(Here, backup, Here)
    BY <1>0 DEF Good, Grew, Libs
  <2>7. Good(Grown(Here, sub), backup, Here)
    <3>. HIDE DEF sub
    <3>. QED BY <1>0, <2>2, <2>5, <2>6, GrownGood
  <2>8. UNCHANGED <<backup, days, today>> /\ job' \in [Workers -> Jobs]
    BY <1>6 DEF Paste, TypeOK
  <2>. HIDE DEF sub
  <2>. QED BY <1>0, <2>1, <2>3, <2>7, <2>8, EditStep DEF Goal
<1>7. ASSUME NEW T \in SUBSET Nodes, NEW U \in SUBSET T, WriteBack(T, U) PROVE Goal
  <2>. DEFINE f == [i \in Ids |-> Tested(store[i], T, U)]
  <2>1. Changes(Edited(f), UpIn(T, U))
    BY <1>7, WriteShape
  <2>2. \A i \in Present(store) : Same(f[i], store[i])
    <3>1. \A i \in Present(store) : i \in Ids /\ store[i] \in Subscriptions
      BY DEF TypeOK, Present
    <3>. QED BY <3>1, TestedType
  <2>. HIDE DEF f
  <2>3. Edited(f) \in Libs /\ Keeps(Edited(f), Here)
    BY <2>2, EditedKeeps
  <2>4. UNCHANGED <<backup, days, today>> /\ job' \in [Workers -> Jobs]
    BY <1>7 DEF WriteBack, TypeOK
  <2>. QED BY <1>0, <2>1, <2>3, <2>4, EditStep DEF Goal
<1>8. ASSUME CleanupBad PROVE Goal
  <2>. DEFINE f == [i \in Ids |-> Cleaned(store[i])]
  <2>1. Changes(Edited(f), Never)
    BY <1>8, CleanShape
  <2>2. \A i \in Present(store) : Same(f[i], store[i])
    <3>1. \A i \in Present(store) : i \in Ids /\ store[i] \in Subscriptions
      BY DEF TypeOK, Present
    <3>. QED BY <3>1, CleanedType
  <2>. HIDE DEF f
  <2>3. Edited(f) \in Libs /\ Keeps(Edited(f), Here)
    BY <2>2, EditedKeeps
  <2>4. UNCHANGED <<backup, days, today>> /\ job' \in [Workers -> Jobs]
    BY <1>8 DEF CleanupBad, TypeOK
  <2>. QED BY <1>0, <2>1, <2>3, <2>4, EditStep DEF Goal
<1>9. ASSUME NEW i \in Ids, NEW n \in Nodes, DeleteNode(i, n) PROVE Goal
  <2>. DEFINE sub == [store[i] EXCEPT !.verdict[n] = "absent"]
  <2>1. Changes(Put(Here, i, sub), Never)
    BY <1>9, NodeShape
  <2>2. i \in Present(store) /\ store[i] \in Subscriptions
    BY <1>9 DEF DeleteNode, TypeOK, Present
  <2>3. Same(sub, store[i])
    BY <2>2, LessType
  <2>. HIDE DEF sub
  <2>4. Put(Here, i, sub) \in Libs /\ Keeps(Put(Here, i, sub), Here)
    BY <2>2, <2>3, PutKeeps
  <2>5. UNCHANGED <<backup, days, today>> /\ job' \in [Workers -> Jobs]
    BY <1>9 DEF DeleteNode, TypeOK
  <2>. QED BY <1>0, <2>1, <2>4, <2>5, EditStep DEF Goal
<1>10. ASSUME NEW D, Changes(Without(D), Never), UNCHANGED <<backup, days, today, job>>
       PROVE  Goal
  <2>1. Without(D) \in Libs /\ Keeps(Without(D), Here)
    BY WithoutKeeps
  <2>2. job' \in [Workers -> Jobs]
    BY <1>10 DEF TypeOK
  <2>. QED BY <1>0, <1>10, <2>1, <2>2, EditStep DEF Goal
<1>11. ASSUME NEW i \in Ids, Delete(i) PROVE Goal
  <2>1. UNCHANGED <<backup, days, today, job>>
    BY <1>11 DEF Delete
  <2>. QED BY <1>10, <1>11, <2>1, GoneShape
<1>12. ASSUME Prune PROVE Goal
  <2>1. UNCHANGED <<backup, days, today, job>>
    BY <1>12 DEF Prune
  <2>. QED BY <1>10, <1>12, <2>1, GoneShape
<1>13. ASSUME Export PROVE Goal
  <2>1. PICK version \in Backups :
            backup' = [i \in Ids |-> IF store[i] # None /\ version = "old"
                                     THEN [store[i] EXCEPT !.uid = 0] ELSE store[i]]
    BY <1>13 DEF Export
  <2>2. UNCHANGED <<store, nextId, days, today, job, grace>>
    BY <1>13 DEF Export
  <2>3. \A i \in Ids : store[i] # None =>
          LET t == [store[i] EXCEPT !.uid = 0]
          IN  t \in Subscriptions /\ t.source = store[i].source /\ t.uid = 0
    <3>1. \A i \in Ids : store[i] # None => store[i] \in Subscriptions
      BY DEF TypeOK
    <3>2. 0 \in 0 .. MaxIds
      BY Bounds
    <3>3. ASSUME NEW s \in Subscriptions
          PROVE  LET t == [s EXCEPT !.uid = 0]
                 IN  t \in Subscriptions /\ t.source = s.source /\ t.uid = 0
      BY <3>2 DEF Subscriptions
    <3>. QED BY <3>1, <3>3
  <2>4. \A i \in Ids :
          \/ store[i] = None /\ backup'[i] = None
          \/ /\ store[i] # None /\ backup'[i] \in Subscriptions
             /\ backup'[i].source = store[i].source
             /\ backup'[i].uid = store[i].uid \/ backup'[i].uid = 0
    BY <2>1, <2>3 DEF TypeOK
  <2>5. TypeOK'
    <3>1. backup' \in [Ids -> Subscriptions \cup {None}]
      BY <2>1, <2>4
    <3>. QED BY <2>2, <3>1 DEF TypeOK
  <2>6. Here' = Here
    BY <2>2 DEF Here
  <2>7. \A b \in Present(backup') : b \in Present(store) /\ backup'[b].source = store[b].source
                                    /\ (backup'[b].uid = store[b].uid \/ backup'[b].uid = 0)
    BY <2>4, NoneIsNone DEF Present
  <2>8. Sound(Here, backup')
    <3>1. nextId \in Nat \ {0} /\ \A i \in Present(store) : store[i].uid \in Nat \ {0}
      BY <1>0, FieldTypes, Bounds DEF Sound, Libs
    <3>2. \A b \in Present(backup') : backup'[b].uid < nextId
      BY <1>0, <2>7, <3>1 DEF Sound
    <3>3. \A b \in Present(backup'), i \in Present(store) :
            backup'[b].uid = store[i].uid => backup'[b].source = store[i].source
      BY <1>0, <2>7, <3>1 DEF Sound
    <3>4. \A b, c \in Present(backup') :
            \/ Remote(backup'[b]) /\ backup'[b].source = backup'[c].source
            \/ backup'[b].uid = backup'[c].uid /\ backup'[b].uid # 0
            => b = c
      BY <1>0, <2>7, <3>1 DEF Sound, Remote
    <3>. QED BY <1>0, <3>2, <3>3, <3>4 DEF Sound
  <2>. QED BY <2>5, <2>6, <2>8 DEF Stays, Goal
<1>14. ASSUME Restore PROVE Goal
  <2>. DEFINE lib == RestoreAll(Here, backup, today)
  <2>1. lib \in Libs /\ Good(lib, backup, Here)
    BY <1>0, RestoreAllGood
  <2>2. /\ Fits(lib) /\ store' = lib.store /\ nextId' = lib.next
        /\ grace' = [i \in Ids |-> IF lib.store[i] = store[i] THEN grace[i] ELSE 0]
        /\ UNCHANGED <<backup, days, today, job>>
    BY <1>14 DEF Restore
  <2>. HIDE DEF lib
  <2>3. Here' = lib
    BY <2>1, <2>2 DEF Here, Libs
  <2>4. TypeOK'
    <3>1. grace' \in [Ids -> Days]
      BY <2>2, Bounds DEF TypeOK
    <3>2. store' \in [Ids -> Subscriptions \cup {None}] /\ nextId' \in 1 .. MaxIds + 1
      BY <2>1, <2>2, Bounds DEF Libs, Fits
    <3>. QED BY <2>2, <3>1, <3>2 DEF TypeOK
  <2>. QED BY <1>0, <2>1, <2>2, <2>3, <2>4, GoodStays DEF Goal
<1>15. ASSUME SetDays PROVE Goal
  <2>1. TypeOK'
    BY <1>15 DEF SetDays, TypeOK
  <2>. QED BY <1>15, <2>1, QuietStep DEF SetDays, Goal
<1>16. ASSUME NextDay PROVE Goal
  <2>1. today' \in 1 .. MaxDay
    BY <1>16, Bounds DEF NextDay, TypeOK
  <2>2. TypeOK'
    BY <1>16, <2>1 DEF NextDay, TypeOK
  <2>. QED BY <1>16, <2>2, QuietStep DEF NextDay, Goal
<1>17. Goal
  BY <1>1, <1>2, <1>3, <1>4, <1>5, <1>6, <1>7, <1>8, <1>9, <1>11, <1>12, <1>13, <1>14, <1>15,
     <1>16 DEF Next
<1>. QED BY <1>17 DEF Goal

LibraryInv == TypeOK /\ Sound(Here, backup)

LEMMA InvInit == Init => LibraryInv
<1>. SUFFICES ASSUME Init PROVE LibraryInv
  OBVIOUS
<1>1. TypeOK
  <2>1. Idle \in Jobs
    BY DEF Jobs
  <2>2. 1 \in 1 .. MaxIds + 1 /\ 1 \in 1 .. MaxDay /\ 0 \in Days
    BY Bounds
  <2>. QED BY <2>1, <2>2 DEF Init, TypeOK
<1>2. Present(store) = {} /\ Present(backup) = {}
  BY DEF Init, Present
<1>3. Here.store = store
  BY DEF Here
<1>. QED BY <1>1, <1>2, <1>3 DEF LibraryInv, Sound

LEMMA InvStep == LibraryInv /\ [Next]_vars => LibraryInv' /\ Stays(Here', Here)
<1>1. ASSUME LibraryInv, Next PROVE LibraryInv' /\ Stays(Here', Here)
  BY <1>1, ActionStep DEF LibraryInv
<1>2. ASSUME LibraryInv, UNCHANGED vars PROVE LibraryInv' /\ Stays(Here', Here)
  <2>1. TypeOK'
    BY <1>2 DEF LibraryInv, TypeOK, vars
  <2>. QED BY <1>2, <2>1, QuietStep DEF LibraryInv, vars
<1>. QED BY <1>1, <1>2

-----------------------------------------------------------------------------
(* The properties. *)

\* Every variable of the library has its type.
THEOREM TypeCorrect == Spec => []TypeOK
<1>1. LibraryInv => TypeOK
  BY DEF LibraryInv
<1>. QED BY <1>1, InvInit, InvStep, PTL DEF Spec

\* A URL has one subscription, and so has a uid, whatever adds, restores and
\* deletions come between.
THEOREM UniqueIdentities == Spec => []IdentitiesUnique
<1>1. LibraryInv => IdentitiesUnique
  BY HereType DEF LibraryInv, Sound, IdentitiesUnique
<1>. QED BY <1>1, InvInit, InvStep, PTL DEF Spec

\* An id keeps its source and its uid as long as it lives.
THEOREM IdsKeepIdentity == Spec => IdKeepsIdentity
<1>. DEFINE Step == \A i \in Present(store) : store'[i] # None =>
                      /\ store'[i].source = store[i].source
                      /\ store'[i].uid = store[i].uid
<1>1. LibraryInv /\ [Next]_vars => Step
  <2>. SUFFICES ASSUME LibraryInv, [Next]_vars PROVE Step
    OBVIOUS
  <2>1. Stays(Here', Here) /\ Here.store = store /\ Here'.store = store'
    BY InvStep DEF Here
  <2>. QED BY <2>1 DEF Stays, Present
<1>2. IdKeepsIdentity <=> [][Step]_vars
  BY DEF IdKeepsIdentity
<1>. HIDE DEF Step
<1>. QED BY <1>1, <1>2, InvInit, InvStep, PTL DEF Spec

\* A deleted subscription is not brought back under its id.
THEOREM DeletedStay == Spec => DeletedStaysDeleted
<1>. DEFINE Step == \A i \in Ids : i < nextId /\ store[i] = None => store'[i] = None
<1>1. LibraryInv /\ [Next]_vars => Step
  <2>. SUFFICES ASSUME LibraryInv, [Next]_vars PROVE Step
    OBVIOUS
  <2>1. Stays(Here', Here) /\ Here.store = store /\ Here'.store = store' /\ Here.next = nextId
    BY InvStep DEF Here
  <2>. QED BY <2>1 DEF Stays
<1>2. DeletedStaysDeleted <=> [][Step]_vars
  BY DEF DeletedStaysDeleted
<1>. HIDE DEF Step
<1>. QED BY <1>1, <1>2, InvInit, InvStep, PTL DEF Spec

-----------------------------------------------------------------------------
(* A restore brings everything back. *)

Back(l, item) ==
  \E i \in Ids : /\ l.store[i] # None
                 /\ l.store[i].source = item.source
                 /\ item.uid # 0 /\ ~Remote(item) => l.store[i].uid = item.uid
                 /\ l.store[i].verdict = item.verdict

\* The entry that is restored is there, and what was restored before it stays.
LEMMA BackStep ==
  ASSUME NEW l \in Libs, NEW file \in [Ids -> Subscriptions \cup {None}],
         NEW k \in Present(file), NEW now \in Days, Sound(l, file),
         \A b \in Present(file) : file[b].uid # 0,
         Fits(RestoreItem(l, file[k], now))
  PROVE  /\ Back(RestoreItem(l, file[k], now), file[k])
         /\ \A b \in Present(file) :
               b # k /\ Back(l, file[b]) => Back(RestoreItem(l, file[k], now), file[b])
<1>. DEFINE item == file[k]
            r == RestoreItem(l, item, now)
            Goal == /\ Back(r, item)
                    /\ \A b \in Present(file) : b # k /\ Back(l, file[b]) => Back(r, file[b])
<1>0. item \in Subscriptions /\ item.uid # 0
  BY DEF Present
<1>1. SUFFICES Goal
  OBVIOUS
<1>2. r \in Libs
  BY <1>0, RestoreType
<1>. HIDE DEF r
<1>3. ASSUME NEW i \in Ids, NEW sub, r.store[i] = sub, sub # None,
             \A j \in Ids : j # i => r.store[j] = l.store[j],
             sub.source = item.source, sub.verdict = item.verdict,
             ~Remote(item) => sub.uid = item.uid,
             l.store[i] # None => l.store[i].source = item.source
                                  /\ (~Remote(item) => l.store[i].uid = item.uid)
      PROVE  Goal
  <2>1. Back(r, item)
    BY <1>3 DEF Back
  <2>2. ASSUME NEW b \in Present(file), b # k, Back(l, file[b]) PROVE Back(r, file[b])
    <3>1. PICK j \in Ids : /\ l.store[j] # None
                           /\ l.store[j].source = file[b].source
                           /\ file[b].uid # 0 /\ ~Remote(file[b]) => l.store[j].uid = file[b].uid
                           /\ l.store[j].verdict = file[b].verdict
      BY <2>2 DEF Back
    <3>2. j # i
      <4>. SUFFICES ASSUME j = i PROVE FALSE
        OBVIOUS
      <4>1. file[b].source = item.source
        BY <1>3, <3>1
      <4>2. ~Remote(item) => file[b].uid = item.uid
        BY <1>3, <3>1, <4>1 DEF Remote
      <4>. QED BY <1>0, <2>2, <4>1, <4>2 DEF Sound
    <3>. QED BY <1>3, <3>1, <3>2 DEF Back
  <2>. QED BY <2>1, <2>2
<1>4. CASE \E i \in Present(l.store), sub \in Subscriptions :
              /\ r = Put(l, i, sub) /\ l.store[i].source = item.source
              /\ item.uid # 0 /\ ~Remote(item) => l.store[i].uid = item.uid
              /\ sub.source = item.source /\ sub.uid = l.store[i].uid
              /\ sub.verdict = item.verdict
  <2>1. PICK i \in Present(l.store), sub \in Subscriptions :
              /\ r = Put(l, i, sub) /\ l.store[i].source = item.source
              /\ item.uid # 0 /\ ~Remote(item) => l.store[i].uid = item.uid
              /\ sub.source = item.source /\ sub.uid = l.store[i].uid
              /\ sub.verdict = item.verdict
    BY <1>4
  <2>2. i \in Ids /\ sub # None /\ \A j \in Ids : r.store[j] = IF j = i THEN sub ELSE l.store[j]
    BY <2>1, PutType, NoneIsNone DEF Present
  <2>. HIDE DEF item, Goal
  <2>. QED BY <1>0, <1>3, <2>1, <2>2
<1>5. CASE \E sub :
              /\ r = Grown(l, sub)
              /\ l.next \in Ids => sub \in Subscriptions
              /\ sub.source = item.source /\ sub.verdict = item.verdict
              /\ sub.uid = IF Remote(item) \/ item.uid = 0 THEN l.next ELSE item.uid
  <2>1. PICK sub :
              /\ r = Grown(l, sub)
              /\ l.next \in Ids => sub \in Subscriptions
              /\ sub.source = item.source /\ sub.verdict = item.verdict
              /\ sub.uid = IF Remote(item) \/ item.uid = 0 THEN l.next ELSE item.uid
    BY <1>5
  <2>2. /\ r.next = l.next + 1
        /\ \A j \in Ids : r.store[j] = IF j = l.next THEN sub ELSE l.store[j]
    BY <2>1, GrownType
  <2>3. l.next \in Ids
    BY <2>2, Bounds DEF Fits, Libs, Ids, r, item
  <2>4. l.store[l.next] = None
    BY <2>3 DEF Sound, Present, Libs
  <2>5. sub # None
    BY <2>1, <2>3, NoneIsNone
  <2>6. ~Remote(item) => sub.uid = item.uid
    BY <1>0, <2>1
  <2>. HIDE DEF item, Goal
  <2>. QED BY <1>3, <2>1, <2>2, <2>3, <2>4, <2>5, <2>6
<1>6. \/ \E i \in Present(l.store), sub \in Subscriptions :
              /\ r = Put(l, i, sub) /\ l.store[i].source = item.source
              /\ item.uid # 0 /\ ~Remote(item) => l.store[i].uid = item.uid
              /\ sub.source = item.source /\ sub.uid = l.store[i].uid
              /\ sub.verdict = item.verdict
      \/ \E sub :
              /\ r = Grown(l, sub)
              /\ l.next \in Ids => sub \in Subscriptions
              /\ sub.source = item.source /\ sub.verdict = item.verdict
              /\ sub.uid = IF Remote(item) \/ item.uid = 0 THEN l.next ELSE item.uid
  <2>. HIDE DEF item
  <2>1. LET x == RestoreItem(l, item, now)
        IN  \/ \E i \in Present(l.store), sub \in Subscriptions :
                   /\ x = Put(l, i, sub) /\ l.store[i].source = item.source
                   /\ item.uid # 0 /\ ~Remote(item) => l.store[i].uid = item.uid
                   /\ sub.source = item.source /\ sub.uid = l.store[i].uid
                   /\ sub.verdict = item.verdict
            \/ \E sub :
                   /\ x = Grown(l, sub)
                   /\ l.next \in Ids => sub \in Subscriptions
                   /\ sub.source = item.source /\ sub.verdict = item.verdict
                   /\ sub.uid = IF Remote(item) \/ item.uid = 0 THEN l.next ELSE item.uid
    BY <1>0, RestoreStep
  <2>. QED BY <2>1 DEF r
<1>. HIDE DEF item, Goal
<1>. QED BY <1>4, <1>5, <1>6

LEMMA BackAll ==
  ASSUME NEW l0 \in Libs, NEW file \in [Ids -> Subscriptions \cup {None}], NEW now \in Days,
         Sound(l0, file), \A b \in Present(file) : file[b].uid # 0,
         Fits(RestoreAll(l0, file, now))
  PROVE  \A b \in Present(file) : Back(RestoreAll(l0, file, now), file[b])
<1>. DEFINE So(l, k) == /\ Good(l, file, l0)
                        /\ Fits(l) => \A b \in Present(file) : b <= k => Back(l, file[b])
            G == [k \in Nat |-> {l \in Libs : So(l, k)}]
<1>1. \A k \in Nat : G[k] = {l \in Libs : So(l, k)}
  OBVIOUS
<1>2. So(l0, 0)
  <2>1. l0.next \in Nat
    BY DEF Libs
  <2>2. \A b \in Present(file) : ~(b <= 0)
    BY Bounds DEF Present, Ids
  <2>. QED BY <2>1, <2>2 DEF Good, Grew
<1>3. \A b \in Ids : b \in Nat /\ b - 1 \in Nat
  BY Bounds DEF Ids
<1>. HIDE DEF G
<1>4. ASSUME NEW k \in Ids, NEW l \in Libs, l \in G[k - 1]
      PROVE  (IF file[k] = None THEN l ELSE RestoreItem(l, file[k], now)) \in G[k]
  <2>1. So(l, k - 1)
    BY <1>1, <1>3, <1>4
  <2>2. \A b \in Present(file) : b \in Ids /\ (b <= k => b <= k - 1 \/ b = k)
    BY <1>3 DEF Present
  <2>3. CASE file[k] = None
    <3>1. \A b \in Present(file) : b # k
      BY <2>3 DEF Present
    <3>2. So(l, k)
      BY <2>1, <2>2, <3>1
    <3>. HIDE DEF So
    <3>. QED BY <1>1, <1>3, <2>3, <3>2
  <2>4. CASE file[k] # None
    <3>. DEFINE r == RestoreItem(l, file[k], now)
    <3>1. k \in Present(file) /\ file[k] \in Subscriptions
      BY <2>4 DEF Present
    <3>2. r \in Libs
      BY <3>1, RestoreType
    <3>3. Good(r, file, l0)
      BY <2>1, <3>1, RestoreGood
    <3>4. ASSUME Fits(r) PROVE \A b \in Present(file) : b <= k => Back(r, file[b])
      <4>1. Fits(l)
        <5>1. l.next <= r.next
          <6>1. CASE \E i \in Present(l.store), sub \in Subscriptions : r = Put(l, i, sub)
            <7>. HIDE DEF r
            <7>1. r.next = l.next /\ l.next \in Nat
              BY <6>1, PutType DEF Present, Libs
            <7>. QED BY <7>1
          <6>2. CASE \E sub : r = Grown(l, sub) /\ (l.next \in Ids => sub \in Subscriptions)
            <7>. HIDE DEF r
            <7>1. r.next = l.next + 1 /\ l.next \in Nat
              BY <6>2, GrownType DEF Libs
            <7>. QED BY <7>1
          <6>. QED BY <3>1, <6>1, <6>2, RestoreStep
        <5>. HIDE DEF r
        <5>2. l.next \in Nat /\ r.next \in Nat /\ MaxIds \in Nat
          BY <3>2, Bounds DEF Libs
        <5>. QED BY <3>4, <5>1, <5>2 DEF Fits
      <4>2. Sound(l, file)
        BY <2>1, <4>1 DEF Good
      <4>3. \A b \in Present(file) : b <= k - 1 => Back(l, file[b])
        BY <2>1, <4>1
      <4>4. /\ Back(r, file[k])
            /\ \A b \in Present(file) : b # k /\ Back(l, file[b]) => Back(r, file[b])
        BY <3>1, <3>4, <4>2, BackStep
      <4>. HIDE DEF r
      <4>. QED BY <2>2, <4>3, <4>4
    <3>5. So(r, k)
      BY <3>3, <3>4
    <3>. HIDE DEF So, r
    <3>6. r \in G[k]
      BY <1>1, <1>3, <3>2, <3>5
    <3>. QED BY <2>4, <3>6 DEF r
  <2>. QED BY <2>3, <2>4
<1>5. l0 \in G[0]
  BY <1>1, <1>2
<1>6. RestoreAll(l0, file, now) \in G[MaxIds]
  BY <1>4, <1>5, RestoreChain
<1>7. So(RestoreAll(l0, file, now), MaxIds)
  <2>. HIDE DEF So
  <2>. QED BY <1>1, <1>6, Bounds
<1>8. \A b \in Present(file) : b <= MaxIds
  BY Bounds DEF Present, Ids
<1>. QED BY <1>7, <1>8

\* After a restore every entry of the backup is there, with its nodes; when
\* backups carry uids, as those the program writes do.
THEOREM RestoresAreComplete ==
  ASSUME "old" \notin Backups
  PROVE  Spec => RestoreBringsBackEverything
<1>. DEFINE WithUids == \A b \in Present(backup) : backup[b].uid # 0
            Inv == LibraryInv /\ WithUids
            Step == Restore =>
                      \A b \in Present(backup) : \E i \in Ids :
                         /\ store'[i] # None
                         /\ store'[i].source = backup[b].source
                         /\ backup[b].uid # 0 /\ ~Remote(backup[b]) => store'[i].uid = backup[b].uid
                         /\ store'[i].verdict = backup[b].verdict
<1>1. Init => Inv
  BY InvInit DEF Init, Present
<1>2. LibraryInv /\ WithUids /\ [Next]_vars => WithUids'
  <2>. SUFFICES ASSUME LibraryInv, WithUids, [Next]_vars PROVE WithUids'
    OBVIOUS
  <2>1. CASE Export
    <3>1. backup' = [i \in Ids |-> store[i]]
      BY <2>1, LibraryAssumption DEF Export
    <3>2. \A i \in Present(store) : store[i].uid # 0
      BY HereType, FieldTypes, Bounds DEF LibraryInv, Sound
    <3>. QED BY <3>1, <3>2 DEF Present
  <2>2. CASE UNCHANGED backup
    BY <2>2
  <2>3. Export \/ UNCHANGED backup
    BY DEF Next, vars, StartAdd, StartRefresh, FinishAdd, FinishRefresh, Disconnect, Paste,
           WriteBack, Delete, DeleteNode, Restore, CleanupBad, Prune, SetDays, NextDay
  <2>. QED BY <2>1, <2>2, <2>3
<1>3. LibraryInv /\ WithUids => Step
  <2>. SUFFICES ASSUME LibraryInv, WithUids, Restore PROVE Step
    OBVIOUS
  <2>. DEFINE lib == RestoreAll(Here, backup, today)
  <2>1. Fits(lib) /\ store' = lib.store
    BY DEF Restore
  <2>2. Here \in Libs /\ backup \in [Ids -> Subscriptions \cup {None}] /\ today \in Days
        /\ Sound(Here, backup)
    BY HereType, GoodType DEF LibraryInv, TypeOK
  <2>3. \A b \in Present(backup) : Back(lib, backup[b])
    BY <2>1, <2>2, BackAll
  <2>. HIDE DEF lib
  <2>. QED BY <2>1, <2>3 DEF Back
<1>4. RestoreBringsBackEverything <=> [][Step]_vars
  BY DEF RestoreBringsBackEverything
<1>. HIDE DEF Step, WithUids
<1>. QED BY <1>1, <1>2, <1>3, <1>4, InvStep, PTL DEF Spec

-----------------------------------------------------------------------------
(* What fetches leave: the subscriptions there were, with their verdicts and *)
(* the times that count for the prune. *)

AskedTwice(urls, k, url) == \E p, q \in 1 .. k : p # q /\ urls[p] = url /\ urls[q] = url

\* The subscription was `old`; k URLs of an add have been merged.
Kept(new, old, urls, k) ==
  /\ new # None /\ new.source = old.source
  /\ NodesOf(old) # {} => NodesOf(new) # {}
  /\ (\A q \in 1 .. k : urls[q] # old.source) => new.verdict = old.verdict
  /\ \A n \in NodesOf(old) \cap NodesOf(new) :
        \/ new.verdict[n] = old.verdict[n]
        \/ AskedTwice(urls, k, old.source) /\ new.verdict[n] = "untested"

\* What a fetch makes of the verdicts: some node there is, and those that
\* stay keep theirs.
LEMMA MergedKeeps ==
  ASSUME NEW old \in [Nodes -> Verdicts], NEW S \in SUBSET Nodes, S # {}
  PROVE  /\ \E n \in Nodes : Merged(old, S)[n] # "absent"
         /\ \A n \in Nodes : Merged(old, S)[n] # "absent" /\ old[n] # "absent"
                               => Merged(old, S)[n] = old[n]
         /\ \A n \in Nodes : Merged(old, S)[n] # "absent" /\ old[n] = "absent"
                               => Merged(old, S)[n] = "untested"
  BY DEF Merged

\* One URL more.
LEMMA KeptStep ==
  ASSUME NEW old \in Subscriptions, NEW new \in Subscriptions, NEW sub \in Subscriptions,
         NEW urls, NEW k \in Nat \ {0}, NEW S \in SUBSET Nodes,
         Kept(new, old, urls, k - 1), new.source = urls[k], sub.source = urls[k],
         sub.verdict = IF S = {} THEN new.verdict ELSE Merged(new.verdict, S)
  PROVE  Kept(sub, old, urls, k)
<1>1. sub # None /\ old.source = urls[k] /\ k \in 1 .. k
  BY NoneIsNone DEF Kept
<1>2. \A p \in 1 .. k - 1 : p \in 1 .. k /\ p # k
  OBVIOUS
<1>3. NodesOf(old) # {} => NodesOf(sub) # {}
  <2>1. CASE S = {}
    BY <2>1 DEF Kept, NodesOf
  <2>2. CASE S # {}
    BY <2>2, FieldTypes, MergedKeeps DEF NodesOf
  <2>. QED BY <2>1, <2>2
<1>4. ASSUME NEW n \in NodesOf(old) \cap NodesOf(sub)
      PROVE  \/ sub.verdict[n] = old.verdict[n]
             \/ AskedTwice(urls, k, old.source) /\ sub.verdict[n] = "untested"
  <2>0. n \in Nodes /\ old.verdict[n] # "absent" /\ sub.verdict[n] # "absent"
    BY DEF NodesOf
  <2>1. AskedTwice(urls, k - 1, old.source) => AskedTwice(urls, k, old.source)
    BY <1>2 DEF AskedTwice
  <2>2. CASE new.verdict[n] = "absent"
    <3>1. S # {} /\ sub.verdict[n] = "untested"
      BY <2>0, <2>2, FieldTypes, MergedKeeps
    <3>2. new.verdict # old.verdict
      BY <2>0, <2>2
    <3>3. PICK q \in 1 .. k - 1 : urls[q] = old.source
      BY <3>2 DEF Kept
    <3>4. AskedTwice(urls, k, old.source)
      BY <1>1, <1>2, <3>3 DEF AskedTwice
    <3>. QED BY <3>1, <3>4
  <2>3. CASE new.verdict[n] # "absent"
    <3>1. sub.verdict[n] = new.verdict[n]
      BY <2>0, <2>3, FieldTypes, MergedKeeps
    <3>2. n \in NodesOf(old) \cap NodesOf(new)
      BY <2>0, <2>3 DEF NodesOf
    <3>. QED BY <2>1, <3>1, <3>2 DEF Kept
  <2>. QED BY <2>2, <2>3
<1>. QED BY <1>1, <1>3, <1>4 DEF Kept

\* URLs of others change nothing.
LEMMA KeptMore ==
  ASSUME NEW old, NEW new, NEW urls, NEW k \in Nat \ {0}, Kept(new, old, urls, k - 1)
  PROVE  Kept(new, old, urls, k)
<1>1. \A p \in 1 .. k - 1 : p \in 1 .. k
  OBVIOUS
<1>. QED BY <1>1 DEF Kept, AskedTwice

\* The times of a subscription that an add found, or made.
Dated(new, old, now) ==
  IF old # None THEN new.healthy = old.healthy /\ new.checked \in {old.checked, now}
  ELSE new.healthy = 0 /\ new.checked = now

LEMMA AddAllKeeps ==
  ASSUME NEW l0 \in Libs, NEW urls \in Seq(Urls),
         NEW fetched \in [DOMAIN urls -> SUBSET Nodes], NEW now \in Days,
         \A i \in Present(l0.store) : i < l0.next
  PROVE  LET r == AddAll(l0, urls, fetched, now)
         IN  /\ \A i \in Present(l0.store) : Kept(r.store[i], l0.store[i], urls, Len(urls))
             /\ \A i \in Present(r.store) : Dated(r.store[i], l0.store[i], now)
<1>. DEFINE So(l, k) == /\ l0.next <= l.next
                        /\ \A i \in Present(l0.store) : Kept(l.store[i], l0.store[i], urls, k)
                        /\ \A i \in Present(l.store) : Dated(l.store[i], l0.store[i], now)
            G == [k \in Nat |-> {l \in Libs : So(l, k)}]
<1>1. \A k \in Nat : G[k] = {l \in Libs : So(l, k)}
  OBVIOUS
<1>2. So(l0, 0)
  <2>1. l0.next \in Nat
    BY DEF Libs
  <2>. QED BY <2>1 DEF Kept, Present, Dated
<1>3. Len(urls) \in Nat /\ DOMAIN urls = 1 .. Len(urls)
  OBVIOUS
<1>. HIDE DEF G
<1>4. ASSUME NEW k \in 1 .. Len(urls), NEW l \in Libs, l \in G[k - 1]
      PROVE  MergeBySource(l, urls[k], fetched[k], now) \in G[k]
  <2>. DEFINE r == MergeBySource(l, urls[k], fetched[k], now)
              S == fetched[k]
  <2>0. k \in Nat \ {0} /\ k - 1 \in Nat /\ urls[k] \in Urls /\ S \in SUBSET Nodes
    BY <1>3
  <2>1. So(l, k - 1)
    BY <1>1, <1>4, <2>0
  <2>2. r \in Libs
    BY <2>0, MergeType
  <2>3. \A i \in Present(l0.store) : i \in Ids /\ l0.store[i] \in Subscriptions
    BY DEF Libs, Present
  <2>4. CASE \E i \in Present(l.store), sub \in Subscriptions :
                /\ r = Put(l, i, sub) /\ l.store[i].source = urls[k]
                /\ sub.source = urls[k]
                /\ sub.verdict = IF S = {} THEN l.store[i].verdict
                                 ELSE Merged(l.store[i].verdict, S)
                /\ sub.healthy = l.store[i].healthy /\ sub.checked = now
    <3>. HIDE DEF r, S
    <3>1. PICK i \in Present(l.store), sub \in Subscriptions :
                /\ r = Put(l, i, sub) /\ l.store[i].source = urls[k]
                /\ sub.source = urls[k]
                /\ sub.verdict = IF S = {} THEN l.store[i].verdict
                                 ELSE Merged(l.store[i].verdict, S)
                /\ sub.healthy = l.store[i].healthy /\ sub.checked = now
      BY <2>4
    <3>2. /\ r.next = l.next /\ i \in Ids /\ l.store[i] \in Subscriptions
          /\ \A j \in Ids : r.store[j] = IF j = i THEN sub ELSE l.store[j]
      BY <3>1, PutType DEF Present, Libs
    <3>3. ASSUME NEW j \in Present(l0.store) PROVE Kept(r.store[j], l0.store[j], urls, k)
      <4>1. Kept(l.store[j], l0.store[j], urls, k - 1)
        BY <2>1
      <4>2. CASE j = i
        BY <2>0, <2>3, <3>1, <3>2, <4>1, <4>2, KeptStep
      <4>3. CASE j # i
        BY <2>0, <2>3, <3>2, <4>1, <4>3, KeptMore
      <4>. QED BY <4>2, <4>3
    <3>4. ASSUME NEW j \in Present(r.store) PROVE Dated(r.store[j], l0.store[j], now)
      <4>1. j \in Ids /\ j \in Present(l.store)
        BY <3>1, <3>2 DEF Present
      <4>. QED BY <2>1, <3>1, <3>2, <4>1 DEF Dated
    <3>5. So(r, k)
      BY <2>1, <3>2, <3>3, <3>4
    <3>. HIDE DEF So
    <3>. QED BY <1>1, <2>0, <2>2, <3>5 DEF r, S
  <2>5. CASE \E sub : /\ r = Grown(l, sub)
                      /\ l.next \in Ids => sub \in Subscriptions
                      /\ sub.healthy = 0 /\ sub.checked = now
    <3>. HIDE DEF r, S
    <3>1. PICK sub : /\ r = Grown(l, sub)
                     /\ l.next \in Ids => sub \in Subscriptions
                     /\ sub.healthy = 0 /\ sub.checked = now
      BY <2>5
    <3>2. /\ r.next = l.next + 1
          /\ \A j \in Ids : r.store[j] = IF j = l.next THEN sub ELSE l.store[j]
      BY <3>1, GrownType
    <3>3. l.next \in Nat /\ l0.next \in Nat /\ \A j \in Ids : j \in Nat
      BY Bounds DEF Libs
    <3>4. \A j \in Present(l0.store) : j \in Ids /\ j # l.next
      BY <2>1, <3>3 DEF Present
    <3>5. ASSUME NEW j \in Present(l0.store) PROVE Kept(r.store[j], l0.store[j], urls, k)
      <4>1. Kept(l.store[j], l0.store[j], urls, k - 1) /\ r.store[j] = l.store[j]
        BY <2>1, <3>2, <3>4
      <4>. QED BY <2>0, <4>1, KeptMore
    <3>6. ASSUME NEW j \in Present(r.store) PROVE Dated(r.store[j], l0.store[j], now)
      <4>1. CASE j = l.next
        <5>1. l0.store[j] = None /\ r.store[j] = sub
          BY <3>2, <3>4, <4>1 DEF Present
        <5>. QED BY <3>1, <5>1 DEF Dated
      <4>2. CASE j # l.next
        BY <2>1, <3>2, <4>2 DEF Present
      <4>. QED BY <4>1, <4>2
    <3>7. So(r, k)
      BY <2>1, <3>2, <3>3, <3>5, <3>6
    <3>. HIDE DEF So
    <3>. QED BY <1>1, <2>0, <2>2, <3>7 DEF r, S
  <2>6. \/ \E i \in Present(l.store), sub \in Subscriptions :
                /\ r = Put(l, i, sub) /\ l.store[i].source = urls[k]
                /\ sub.source = urls[k]
                /\ sub.verdict = IF S = {} THEN l.store[i].verdict
                                 ELSE Merged(l.store[i].verdict, S)
                /\ sub.healthy = l.store[i].healthy /\ sub.checked = now
        \/ \E sub : /\ r = Grown(l, sub)
                    /\ l.next \in Ids => sub \in Subscriptions
                    /\ sub.healthy = 0 /\ sub.checked = now
    BY <2>0, MergeStep
  <2>. QED BY <2>4, <2>5, <2>6
<1>5. l0 \in G[0]
  BY <1>1, <1>2
<1>6. AddAll(l0, urls, fetched, now) \in G[Len(urls)]
  BY <1>4, <1>5, AddChain
<1>7. So(AddAll(l0, urls, fetched, now), Len(urls))
  <2>. HIDE DEF So
  <2>. QED BY <1>1, <1>3, <1>6
<1>. QED BY <1>7

\* A worker's URLs and subscription are what it was asked for.
LEMMA JobType ==
  ASSUME TypeOK, NEW w \in Workers
  PROVE  /\ job[w].kind = "add" => job[w].urls \in Seq(Urls)
         /\ job[w].kind = "refresh" => job[w].id \in Ids /\ job[w].remote \in BOOLEAN
<1>1. job[w] \in Jobs
  BY DEF TypeOK
<1>. QED BY <1>1, LibraryAssumption DEF Jobs, Idle

\* What a refresh leaves of the subscription it is of, and of the others.
LEMMA RefreshLeaves ==
  ASSUME TypeOK, NEW w \in Workers, FinishRefresh(w), store[job[w].id] # None
  PROVE  \E S \in SUBSET Nodes :
           LET i == job[w].id
               t == Refreshed(store[i], job[w].remote, S, today)
           IN  /\ i \in Present(store) /\ store[i] \in Subscriptions
               /\ job[w].remote \in BOOLEAN
               /\ Changes(Put(Here, i, t), Never) /\ Same(t, store[i])
               /\ Put(Here, i, t) \in Libs
               /\ \A k \in Ids : Put(Here, i, t).store[k] = IF k = i THEN t ELSE store[k]
<1>. DEFINE i == job[w].id
<1>1. job[w].kind = "refresh"
  BY DEF FinishRefresh
<1>2. i \in Ids /\ job[w].remote \in BOOLEAN
  BY <1>1, JobType
<1>3. i \in Present(store) /\ store[i] \in Subscriptions
  BY <1>2 DEF Present, TypeOK
<1>4. PICK S \in SUBSET Nodes :
             Changes(Put(Here, i, Refreshed(store[i], job[w].remote, S, today)), Never)
  BY RefreshShape
<1>. DEFINE t == Refreshed(store[i], job[w].remote, S, today)
<1>5. Same(t, store[i])
  BY <1>2, <1>3, GoodType, RefreshedType
<1>. HIDE DEF t
<1>6. /\ Put(Here, i, t) \in Libs
      /\ \A k \in Ids : Put(Here, i, t).store[k] = IF k = i THEN t ELSE store[k]
  BY <1>3, <1>5, PutKeeps
<1>. QED BY <1>2, <1>3, <1>4, <1>5, <1>6 DEF t

\* A node that survives a fetch keeps its verdict, and no fetch empties a
\* subscription.
THEOREM FetchesForgetNothing == Spec => FetchForgetsNothing
<1>. DEFINE Keep(w) == \A i \in Present(store) :
                /\ NodesOf(store[i]) # {} => NodesOf(store'[i]) # {}
                /\ \A n \in NodesOf(store[i]) \cap NodesOf(store'[i]) :
                      \/ store'[i].verdict[n] = store[i].verdict[n]
                      \/ Repeated(job[w], store[i].source) /\ store'[i].verdict[n] = "untested"
            Step == \A w \in Workers : FinishAdd(w) \/ FinishRefresh(w) => Keep(w)
<1>1. ASSUME LibraryInv, NEW w \in Workers, FinishAdd(w) PROVE Keep(w)
  <2>1. PICK fetched \in [DOMAIN job[w].urls -> SUBSET Nodes] :
               Changes(AddAll(Here, job[w].urls, fetched, today), Fresh)
    BY <1>1, AddShape
  <2>2. job[w].kind = "add" /\ job[w].urls \in Seq(Urls)
    BY <1>1, JobType DEF LibraryInv, FinishAdd
  <2>3. /\ Here \in Libs /\ Here.store = store /\ today \in Days
        /\ \A i \in Present(Here.store) : i < Here.next
    BY <1>1, HereType, GoodType DEF LibraryInv, Sound
  <2>4. \A i \in Present(store) :
          Kept(AddAll(Here, job[w].urls, fetched, today).store[i], store[i], job[w].urls,
               Len(job[w].urls))
    BY <2>2, <2>3, AddAllKeeps
  <2>5. \A url : AskedTwice(job[w].urls, Len(job[w].urls), url) => Repeated(job[w], url)
    <3>1. DOMAIN job[w].urls = 1 .. Len(job[w].urls)
      BY <2>2
    <3>. QED BY <2>2, <3>1 DEF AskedTwice, Repeated
  <2>6. store' = AddAll(Here, job[w].urls, fetched, today).store
    BY <2>1 DEF Changes
  <2>. QED BY <2>4, <2>5, <2>6 DEF Kept
<1>2. ASSUME LibraryInv, NEW w \in Workers, FinishRefresh(w) PROVE Keep(w)
  <2>1. CASE store[job[w].id] = None
    BY <1>2, <2>1 DEF FinishRefresh
  <2>2. CASE store[job[w].id] # None
    <3>. DEFINE i == job[w].id
    <3>1. PICK S \in SUBSET Nodes :
           /\ i \in Present(store) /\ store[i] \in Subscriptions
           /\ job[w].remote \in BOOLEAN
           /\ Changes(Put(Here, i, Refreshed(store[i], job[w].remote, S, today)), Never)
           /\ \A k \in Ids :
                Put(Here, i, Refreshed(store[i], job[w].remote, S, today)).store[k]
                  = IF k = i THEN Refreshed(store[i], job[w].remote, S, today) ELSE store[k]
      BY <1>2, <2>2, RefreshLeaves DEF LibraryInv
    <3>. DEFINE t == Refreshed(store[i], job[w].remote, S, today)
    <3>2. t.verdict = IF job[w].remote /\ S # {} THEN Merged(store[i].verdict, S)
                      ELSE store[i].verdict
      BY <1>2, <3>1, GoodType, RefreshedType DEF LibraryInv
    <3>3. \A k \in Ids : store'[k] = IF k = i THEN t ELSE store[k]
      BY <3>1 DEF Changes
    <3>. HIDE DEF t, i
    <3>4. /\ NodesOf(store[i]) # {} => NodesOf(t) # {}
          /\ \A n \in NodesOf(store[i]) \cap NodesOf(t) : t.verdict[n] = store[i].verdict[n]
      <4>1. CASE job[w].remote /\ S # {}
        BY <3>1, <3>2, <4>1, FieldTypes, MergedKeeps DEF NodesOf
      <4>2. CASE ~(job[w].remote /\ S # {})
        BY <3>2, <4>2 DEF NodesOf
      <4>. QED BY <4>1, <4>2
    <3>. QED BY <3>3, <3>4 DEF Present
  <2>. QED BY <2>1, <2>2
<1>3. LibraryInv => Step
  BY <1>1, <1>2
<1>4. FetchForgetsNothing <=> [][Step]_vars
  BY DEF FetchForgetsNothing
<1>. HIDE DEF Step
<1>. QED BY <1>3, <1>4, InvInit, InvStep, PTL DEF Spec

-----------------------------------------------------------------------------
(* The prune is patient. *)

\* A subscription is known to have been good on day g: the prune counts from
\* that day or from a later one.
Counted(s, g) ==
  \/ g = 0
  \/ s.healthy # 0 /\ g <= s.healthy
  \/ s.healthy = 0 /\ s.checked # 0 /\ g <= s.checked

GraceInv ==
  \A i \in Present(store) : grace[i] <= today /\ Counted(store[i], grace[i])

\* A change of the list that lets no time for the prune slip back.
LEMMA GraceChange ==
  ASSUME TypeOK, GraceInv, NEW lib \in Libs, NEW good \in [Ids -> Days], Changes(lib, good),
         \A i \in Present(lib.store) : good[i] \in {0, today},
         \A i \in Present(lib.store) : store[i] = None =>
            Counted(lib.store[i], today),
         \A i \in Present(lib.store) : store[i] # None =>
            IF good[i] # 0 THEN lib.store[i].healthy = today
            ELSE /\ lib.store[i].healthy = store[i].healthy
                 /\ lib.store[i].checked \in {store[i].checked, today},
         UNCHANGED today
  PROVE  GraceInv'
<1>1. today \in Nat \ {0} /\ today \in Days /\ 0 \in Days
  BY GoodType, Bounds DEF TypeOK
<1>2. SUFFICES ASSUME NEW i \in Ids, lib.store[i] # None
               PROVE  grace'[i] <= today /\ Counted(lib.store[i], grace'[i])
  BY DEF GraceInv, Present, Changes
<1>. DEFINE was == IF store[i] = None THEN 0 ELSE grace[i]
<1>3. i \in Present(lib.store) /\ was \in Days /\ good[i] \in Days
  BY <1>1, <1>2 DEF Present, TypeOK
<1>4. grace'[i] = Max({good[i], was})
  BY <1>2 DEF Changes
<1>5. was <= today /\ was \in Nat
  BY <1>1, <1>3 DEF GraceInv, Present, Days
<1>6. /\ Max({good[i], was}) \in {good[i], was}
      /\ Max({good[i], was}) >= good[i] /\ Max({good[i], was}) >= was
  BY <1>3, MaxDays
<1>7. CASE store[i] = None
  <2>1. was = 0 /\ (grace'[i] = 0 \/ grace'[i] = today)
    BY <1>3, <1>4, <1>6, <1>7
  <2>. QED BY <1>1, <1>3, <1>7, <2>1 DEF Counted
<1>8. CASE store[i] # None /\ good[i] # 0
  <2>1. good[i] = today /\ lib.store[i].healthy = today
    BY <1>3, <1>8
  <2>2. grace'[i] = today
    <3>. HIDE DEF was
    <3>. QED BY <1>1, <1>4, <1>5, <1>6, <2>1
  <2>. QED BY <1>1, <2>1, <2>2 DEF Counted
<1>9. CASE store[i] # None /\ good[i] = 0
  <2>1. /\ lib.store[i].healthy = store[i].healthy
        /\ lib.store[i].checked \in {store[i].checked, today}
    BY <1>3, <1>9
  <2>2. grace'[i] = was
    <3>. HIDE DEF was
    <3>. QED BY <1>4, <1>5, <1>6, <1>9
  <2>3. was = grace[i] /\ Counted(store[i], was)
    BY <1>9 DEF GraceInv, Present
  <2>. HIDE DEF was
  <2>. QED BY <1>1, <1>5, <2>1, <2>2, <2>3 DEF Counted
<1>. QED BY <1>7, <1>8, <1>9

LEMMA GraceStep ==
  ASSUME LibraryInv, GraceInv, Next PROVE GraceInv'
<1>0. /\ TypeOK /\ today \in Days /\ today \in Nat \ {0}
      /\ Never \in [Ids -> Days] /\ Fresh \in [Ids -> Days]
      /\ \A T, U : UpIn(T, U) \in [Ids -> Days]
      /\ Here \in Libs /\ Here.store = store /\ Here.next = nextId
      /\ \A i \in Present(store) : i \in Ids /\ store[i] \in Subscriptions /\ i < nextId
      /\ \A i \in Ids : Never[i] = 0
  BY GoodType, HereType DEF LibraryInv, Sound, TypeOK, Present, Never
<1>1. ASSUME NEW w \in Workers, FinishAdd(w) PROVE GraceInv'
  <2>1. PICK fetched \in [DOMAIN job[w].urls -> SUBSET Nodes] :
               Changes(AddAll(Here, job[w].urls, fetched, today), Fresh)
    BY <1>1, AddShape
  <2>. DEFINE lib == AddAll(Here, job[w].urls, fetched, today)
  <2>2. job[w].urls \in Seq(Urls)
    BY <1>0, <1>1, JobType DEF FinishAdd
  <2>3. lib \in Libs
    BY <1>0, <2>2, AddAllGood DEF LibraryInv, TypeOK
  <2>4. /\ \A i \in Present(store) : Kept(lib.store[i], store[i], job[w].urls, Len(job[w].urls))
        /\ \A i \in Present(lib.store) : Dated(lib.store[i], store[i], today)
    BY <1>0, <2>2, AddAllKeeps
  <2>. HIDE DEF lib
  <2>5. \A i \in Present(lib.store) : Fresh[i] = IF store[i] = None THEN today ELSE 0
    BY DEF Fresh, Present
  <2>6. UNCHANGED today
    BY <1>1 DEF FinishAdd
  <2>7. \A i \in Present(lib.store) : store[i] = None => Counted(lib.store[i], today)
    BY <1>0, <2>4 DEF Dated, Counted
  <2>8. \A i \in Present(lib.store) : store[i] # None =>
            Fresh[i] = 0 /\ lib.store[i].healthy = store[i].healthy
                         /\ lib.store[i].checked \in {store[i].checked, today}
    BY <2>4, <2>5 DEF Dated
  <2>9. \A i \in Present(lib.store) : Fresh[i] \in {0, today}
    BY <2>5
  <2>. QED BY <1>0, <2>1, <2>3, <2>6, <2>7, <2>8, <2>9, GraceChange DEF lib
<1>2. ASSUME NEW w \in Workers, FinishRefresh(w) PROVE GraceInv'
  <2>0. UNCHANGED today
    BY <1>2 DEF FinishRefresh
  <2>1. CASE store[job[w].id] = None
    <3>1. UNCHANGED <<store, nextId, grace>>
      BY <1>2, <2>1 DEF FinishRefresh
    <3>. QED BY <2>0, <3>1 DEF GraceInv
  <2>2. CASE store[job[w].id] # None
    <3>. DEFINE i == job[w].id
    <3>1. PICK S \in SUBSET Nodes :
           /\ i \in Present(store) /\ store[i] \in Subscriptions
           /\ job[w].remote \in BOOLEAN
           /\ Changes(Put(Here, i, Refreshed(store[i], job[w].remote, S, today)), Never)
           /\ Put(Here, i, Refreshed(store[i], job[w].remote, S, today)) \in Libs
           /\ \A k \in Ids :
                Put(Here, i, Refreshed(store[i], job[w].remote, S, today)).store[k]
                  = IF k = i THEN Refreshed(store[i], job[w].remote, S, today) ELSE store[k]
      BY <1>0, <1>2, <2>2, RefreshLeaves
    <3>. DEFINE t == Refreshed(store[i], job[w].remote, S, today)
                lib == Put(Here, i, t)
    <3>2. t.healthy = store[i].healthy /\ t.checked = today
      BY <1>0, <3>1, RefreshedType
    <3>. HIDE DEF t, i
    <3>3. \A k \in Present(lib.store) :
             /\ store[k] # None /\ lib.store[k].healthy = store[k].healthy
             /\ lib.store[k].checked \in {store[k].checked, today} /\ Never[k] = 0
      BY <1>0, <3>1, <3>2 DEF Present, t
    <3>4. Changes(lib, Never) /\ lib \in Libs
      BY <3>1 DEF t
    <3>. HIDE DEF lib
    <3>. QED BY <1>0, <2>0, <3>3, <3>4, GraceChange
  <2>. QED BY <2>1, <2>2
<1>3. ASSUME NEW name \in Names, NEW S \in SUBSET Nodes, Paste(name, S) PROVE GraceInv'
  <2>. DEFINE sub == Pasting(name, S)
              lib == Grown(Here, sub)
  <2>1. Changes(lib, Fresh) /\ UNCHANGED today
    BY <1>3, PasteShape DEF Paste
  <2>2. sub.healthy = 0 /\ sub.checked = today /\ (nextId \in Ids => sub \in Subscriptions)
    BY <1>0, PastingType
  <2>. HIDE DEF sub
  <2>3. /\ lib \in Libs
        /\ \A k \in Ids : lib.store[k] = IF k = nextId THEN sub ELSE store[k]
    BY <1>0, <2>2, GrownType
  <2>. HIDE DEF lib
  <2>4. store[nextId] = None \/ nextId \notin Ids
    BY <1>0 DEF Present, TypeOK
  <2>5. \A k \in Present(lib.store) :
           \/ store[k] = None /\ lib.store[k] = sub /\ Fresh[k] = today
           \/ store[k] # None /\ lib.store[k] = store[k] /\ Fresh[k] = 0
    BY <2>3, <2>4 DEF Present, Fresh
  <2>6. Counted(sub, today)
    BY <1>0, <2>2 DEF Counted
  <2>. QED BY <1>0, <2>1, <2>3, <2>5, <2>6, GraceChange
<1>4. ASSUME NEW T \in SUBSET Nodes, NEW U \in SUBSET T, WriteBack(T, U) PROVE GraceInv'
  <2>. DEFINE f == [i \in Ids |-> Tested(store[i], T, U)]
              lib == Edited(f)
              good == UpIn(T, U)
  <2>1. Changes(lib, good) /\ UNCHANGED today
    BY <1>4, WriteShape DEF WriteBack
  <2>2. \A i \in Present(store) :
          /\ Same(f[i], store[i]) /\ f[i].checked = store[i].checked
          /\ f[i].healthy = IF HasUp(Judged(store[i], T, U)) THEN today ELSE store[i].healthy
    BY <1>0, TestedType
  <2>. HIDE DEF f
  <2>3. /\ lib \in Libs
        /\ \A i \in Ids : lib.store[i] = IF store[i] = None THEN None ELSE f[i]
    BY <1>0, <2>2, EditedKeeps
  <2>. HIDE DEF lib
  <2>4. \A i \in Present(lib.store) :
          /\ store[i] # None /\ i \in Present(store) /\ lib.store[i] = f[i]
          /\ good[i] = IF HasUp(Judged(store[i], T, U)) THEN today ELSE 0
    BY <2>3 DEF Present, UpIn
  <2>5. good \in [Ids -> Days]
    BY <1>0
  <2>. HIDE DEF good
  <2>. QED BY <1>0, <2>1, <2>2, <2>3, <2>4, <2>5, GraceChange
<1>5. ASSUME CleanupBad PROVE GraceInv'
  <2>. DEFINE f == [i \in Ids |-> Cleaned(store[i])]
              lib == Edited(f)
  <2>1. Changes(lib, Never) /\ UNCHANGED today
    BY <1>5, CleanShape DEF CleanupBad
  <2>2. \A i \in Present(store) : /\ Same(f[i], store[i]) /\ f[i].checked = store[i].checked
                                  /\ f[i].healthy = store[i].healthy
    BY <1>0, CleanedType
  <2>. HIDE DEF f
  <2>3. /\ lib \in Libs
        /\ \A i \in Ids : lib.store[i] = IF store[i] = None THEN None ELSE f[i]
    BY <1>0, <2>2, EditedKeeps
  <2>. HIDE DEF lib
  <2>4. \A i \in Present(lib.store) :
          store[i] # None /\ i \in Present(store) /\ lib.store[i] = f[i] /\ Never[i] = 0
    BY <1>0, <2>3 DEF Present
  <2>. QED BY <1>0, <2>1, <2>2, <2>3, <2>4, GraceChange
<1>6. ASSUME NEW i \in Ids, NEW n \in Nodes, DeleteNode(i, n) PROVE GraceInv'
  <2>. DEFINE sub == [store[i] EXCEPT !.verdict[n] = "absent"]
              lib == Put(Here, i, sub)
  <2>1. Changes(lib, Never) /\ UNCHANGED today
    BY <1>6, NodeShape DEF DeleteNode
  <2>2. i \in Present(store) /\ store[i] \in Subscriptions
    BY <1>0, <1>6 DEF DeleteNode
  <2>3. Same(sub, store[i]) /\ sub.healthy = store[i].healthy /\ sub.checked = store[i].checked
    BY <2>2, LessType
  <2>. HIDE DEF sub
  <2>4. lib \in Libs /\ \A k \in Ids : lib.store[k] = IF k = i THEN sub ELSE store[k]
    BY <1>0, <2>2, <2>3, PutKeeps
  <2>. HIDE DEF lib
  <2>5. \A k \in Present(lib.store) :
          /\ store[k] # None /\ Never[k] = 0
          /\ lib.store[k].healthy = store[k].healthy /\ lib.store[k].checked = store[k].checked
    BY <1>0, <2>2, <2>3, <2>4 DEF Present
  <2>. QED BY <1>0, <2>1, <2>4, <2>5, GraceChange
<1>7. ASSUME NEW D, Changes(Without(D), Never), UNCHANGED today PROVE GraceInv'
  <2>. DEFINE lib == Without(D)
  <2>1. lib \in Libs /\ \A i \in Ids : lib.store[i] = IF i \in D THEN None ELSE store[i]
    BY <1>0, WithoutKeeps
  <2>2. Changes(lib, Never)
    BY <1>7
  <2>. HIDE DEF lib
  <2>3. \A i \in Present(lib.store) :
          store[i] # None /\ lib.store[i] = store[i] /\ Never[i] = 0
    BY <1>0, <2>1 DEF Present
  <2>. QED BY <1>0, <1>7, <2>1, <2>2, <2>3, GraceChange
<1>8. ASSUME NEW i \in Ids, Delete(i) PROVE GraceInv'
  BY <1>7, <1>8, GoneShape DEF Delete
<1>9. ASSUME Prune PROVE GraceInv'
  BY <1>7, <1>9, GoneShape DEF Prune
<1>10. ASSUME Restore PROVE GraceInv'
  <2>1. /\ \A i \in Ids : IF store'[i] = store[i] THEN grace'[i] = grace[i] ELSE grace'[i] = 0
        /\ UNCHANGED today
    BY <1>10 DEF Restore
  <2>. QED BY <1>0, <2>1 DEF GraceInv, Present, Counted
<1>11. ASSUME NextDay PROVE GraceInv'
  <2>1. today' = today + 1 /\ UNCHANGED <<store, grace>>
    BY <1>11 DEF NextDay
  <2>2. \A i \in Ids : grace[i] \in Nat
    BY <1>0 DEF TypeOK, Days
  <2>. QED BY <1>0, <2>1, <2>2 DEF GraceInv, Present
<1>12. ASSUME UNCHANGED <<store, today, grace>> PROVE GraceInv'
  BY <1>12 DEF GraceInv
<1>13. ASSUME NEW w \in Workers, (\E urls \in Batches : StartAdd(w, urls)) \/
              (\E i \in Ids : StartRefresh(w, i)) \/ Disconnect(w)
       PROVE GraceInv'
  BY <1>12, <1>13 DEF StartAdd, StartRefresh, Disconnect
<1>14. ASSUME Export \/ SetDays PROVE GraceInv'
  BY <1>12, <1>14 DEF Export, SetDays
<1>. QED BY <1>1, <1>2, <1>3, <1>4, <1>5, <1>6, <1>8, <1>9, <1>10, <1>11, <1>13, <1>14 DEF Next

\* A subscription is not pruned before as many days have gone by as the
\* setting says, since it came and since a test left it with a node that is up.
THEOREM PruneIsPatient == Spec => PruneGivesGrace
<1>. DEFINE Step == \A i \in Present(store) : (Prune /\ store'[i] = None) =>
                      today >= grace[i] + days
            Inv == LibraryInv /\ GraceInv
<1>1. Init => Inv
  <2>1. Init => Present(store) = {}
    BY DEF Init, Present
  <2>. QED BY <2>1, InvInit DEF GraceInv
<1>2. Inv /\ [Next]_vars => Inv'
  <2>1. ASSUME Inv, UNCHANGED vars PROVE GraceInv'
    BY <2>1 DEF GraceInv, vars
  <2>. QED BY <2>1, InvStep, GraceStep
<1>3. Inv => Step
  <2>. SUFFICES ASSUME LibraryInv, GraceInv, Prune, NEW i \in Present(store), store'[i] = None
                PROVE  today >= grace[i] + days
    OBVIOUS
  <2>0. /\ TypeOK /\ i \in Ids /\ store[i] # None /\ store[i] \in Subscriptions
        /\ today \in Nat /\ days \in Nat /\ grace[i] \in Nat
    BY LibraryAssumption, Bounds DEF LibraryInv, TypeOK, Present, Days
  <2>1. store' = Without({k \in Present(store) : Dead(store[k])}).store
    BY GoneShape DEF Changes
  <2>2. i \in {k \in Present(store) : Dead(store[k])}
    BY <2>0, <2>1, WithoutKeeps
  <2>3. Since(store[i]) # 0 /\ today - Since(store[i]) >= days
    BY <2>2 DEF Dead
  <2>4. store[i].healthy \in Nat /\ store[i].checked \in Nat /\ store[i].updated \in Nat
    BY <2>0, FieldTypes, Bounds DEF Days
  <2>5. Since(store[i]) \in Nat
    BY <2>4 DEF Since
  <2>6. grace[i] <= Since(store[i])
    BY <2>0, <2>3, <2>4, <2>5 DEF GraceInv, Counted, Since
  <2>. QED BY <2>0, <2>3, <2>5, <2>6
<1>4. PruneGivesGrace <=> [][Step]_vars
  BY DEF PruneGivesGrace
<1>. HIDE DEF Step, Inv
<1>. QED BY <1>1, <1>2, <1>3, <1>4, PTL DEF Spec
=============================================================================

----------------------------- MODULE DialProofs -----------------------------
(***************************************************************************)
(* Proofs about Dial, for any list of nodes, any concurrency and any       *)
(* listener.                                                               *)
(***************************************************************************)
EXTENDS Dial, TLAPS

USE DialAssumption

LEMMA WorkerOne == 1 \in Workers /\ Workers \subseteq Nat
  BY DEF Workers, Clamped

LEMMA EndpointsAreKnown ==
  \A i \in Nodes : Endpoint[i] \in Addresses /\ Endpoint[i][1] \in Hosts
  BY DEF Addresses, Hosts

LEMMA OutcomesAreTyped ==
  /\ \A a \in Addresses \cup {Nowhere}, ok \in BOOLEAN : [addr |-> a, ok |-> ok] \in Outcomes
  /\ \A o \in Outcomes : o.addr \in Addresses \cup {Nowhere}
  /\ Unreached \in Outcomes
  BY DEF Outcomes, Unreached

-----------------------------------------------------------------------------
(* Every variable keeps its type. *)

LEMMA InitType == Init => TypeOK
<1>. SUFFICES ASSUME Init PROVE TypeOK
  OBVIOUS
<1>1. 1 \in 1 .. Count + 1 /\ 1 \in Nodes
  BY DEF Nodes
<1>2. /\ pc \in [Workers -> Labels]
      /\ results \in [Nodes -> [times : Nat, outcome : Outcomes]]
  BY OutcomesAreTyped DEF Init, Labels
<1>3. dials \in [Workers -> [Addresses -> Nat]]
  BY DEF Init
<1>. QED
  BY <1>1, <1>2, <1>3, OutcomesAreTyped DEF Init, TypeOK

LEMMA StepType ==
  ASSUME TypeOK, NEW w \in Workers, Step(w)
  PROVE  TypeOK'
<1>. USE DEF TypeOK, Labels, Goto, caches, local, progress, history
<1>0. job[w] \in Nodes /\ Target(w) \in Addresses /\ Host(w) \in Hosts
  BY EndpointsAreKnown DEF Target, Host
<1>1. CASE Check(w)
  BY <1>1 DEF Check
<1>2. CASE Take(w)
  <2>1. CASE next > Count
    BY <1>2, <2>1 DEF Take
  <2>2. CASE ~ (next > Count)
    <3>1. next \in Nodes /\ next + 1 \in 1 .. Count + 1
      BY <2>2 DEF Nodes
    <3>2. late' \in [Workers -> Nat]
      BY <1>2, <2>2 DEF Take
    <3>3. /\ next' = next + 1
          /\ job' = [job EXCEPT ![w] = next]
          /\ pc' = [pc EXCEPT ![w] = "lookup"]
      BY <1>2, <2>2 DEF Take
    <3>4. next' \in 1 .. Count + 1 /\ job' \in [Workers -> Nodes]
      BY <3>1, <3>3
    <3>5. pc' \in [Workers -> Labels]
      BY <3>3
    <3>6. UNCHANGED <<cancelled, done, dns, endpoints, addr, out, number,
                      listener, shown, results, dials>>
      BY <1>2 DEF Take
    <3>. QED BY <3>2, <3>3, <3>4, <3>5, <3>6
  <2>. QED BY <2>1, <2>2
<1>3. CASE Lookup(w)
  BY <1>0, <1>3 DEF Lookup, Reporting, Watched
<1>4. CASE Resolve(w)
  <2>1. /\ addr' \in [Workers -> Addresses \cup {Nowhere}]
        /\ pc' \in [Workers -> Labels]
    <3>1. CASE Host(w) \in Literals
      <4>1. /\ addr' = [addr EXCEPT ![w] = Target(w)]
            /\ pc' = [pc EXCEPT ![w] = "dial"]
        BY <1>4, <3>1 DEF Resolve
      <4>. QED BY <1>0, <4>1
    <3>2. CASE Host(w) \notin Literals /\ dns[Host(w)] # Unasked
      <4>1. dns[Host(w)] \in Addresses \cup {Nowhere}
        <5>1. dns \in [Hosts -> Addresses \cup {Nowhere, Unasked}]
          OBVIOUS
        <5>2. dns[Host(w)] \in Addresses \cup {Nowhere, Unasked}
          BY <1>0, <5>1, Zenon
        <5>. QED BY <3>2, <5>2, Zenon
      <4>2. /\ addr' = [addr EXCEPT ![w] = dns[Host(w)]]
            /\ pc' = [pc EXCEPT ![w] = "dial"]
        BY <1>4, <3>2 DEF Resolve
      <4>. QED BY <4>1, <4>2
    <3>3. CASE Host(w) \notin Literals /\ dns[Host(w)] = Unasked
      BY <1>4, <3>3 DEF Resolve
    <3>. QED BY <3>1, <3>2, <3>3
  <2>2. UNCHANGED <<next, dns, endpoints, job, out, number, cancelled, done,
                    listener, shown, results, late, dials>>
    BY <1>4 DEF Resolve
  <2>. QED BY <2>1, <2>2
<1>5. CASE Query(w)
  BY <1>0, <1>5 DEF Query
<1>6. CASE Dial(w)
  <2>1. PICK ok \in BOOLEAN :
          /\ out' = [out EXCEPT ![w] = [addr |-> addr[w], ok |-> ok]]
          /\ endpoints' = [endpoints EXCEPT ![Target(w)] = [addr |-> addr[w], ok |-> ok]]
    BY <1>6 DEF Dial
  <2>2. [addr |-> addr[w], ok |-> ok] \in Outcomes
    BY OutcomesAreTyped
  <2>3. dials' \in [Workers -> [Addresses -> Nat]]
    <3>1. dials' = [dials EXCEPT ![w] = [dials[w] EXCEPT ![Target(w)] = @ + 1]]
      BY <1>6 DEF Dial
    <3>2. [dials[w] EXCEPT ![Target(w)] = @ + 1] \in [Addresses -> Nat]
      BY <1>0
    <3>. QED BY <3>1, <3>2
  <2>. QED BY <1>0, <1>6, <2>1, <2>2, <2>3 DEF Dial, Reporting, Watched
<1>7. CASE Tally(w)
  BY <1>7 DEF Tally
<1>8. CASE Report(w)
  <2>1. CASE listener = "gone"
    BY <1>8, <2>1 DEF Report
  <2>2. CASE listener # "gone"
    <3>1. results' \in [Nodes -> [times : Nat, outcome : Outcomes]]
      <4>1. [times |-> results[job[w]].times + 1, outcome |-> out[w]]
               \in [times : Nat, outcome : Outcomes]
        BY <1>0
      <4>. QED BY <1>0, <1>8, <2>2, <4>1 DEF Report, Return
    <3>2. shown' \subseteq Nat \X Nodes
      BY <1>0, <1>8, <2>2 DEF Report
    <3>. QED BY <1>8, <2>2, <3>1, <3>2 DEF Report
  <2>. QED BY <2>1, <2>2
<1>. QED BY <1>1, <1>2, <1>3, <1>4, <1>5, <1>6, <1>7, <1>8 DEF Step

LEMMA NextType == TypeOK /\ [Next]_vars => TypeOK'
<1>. SUFFICES ASSUME TypeOK, [Next]_vars PROVE TypeOK'
  OBVIOUS
<1>1. CASE Leave
  BY <1>1 DEF Leave, TypeOK, caches, local, history
<1>2. ASSUME NEW w \in Workers, Step(w) PROVE TypeOK'
  BY <1>2, StepType
<1>3. CASE UNCHANGED vars
  BY <1>3 DEF vars, TypeOK
<1>. QED BY <1>1, <1>2, <1>3 DEF Next

\* Every variable has its type; no worker goes past the end of the list.
THEOREM TypeCorrect == Spec => []TypeOK
<1>. QED BY InitType, NextType, PTL DEF Spec

-----------------------------------------------------------------------------
(* The queue: a worker's node is its own, and has no result yet. *)

Queue ==
  /\ \A w \in Workers : pc[w] \in Busy => job[w] < next /\ results[job[w]].times = 0
  /\ \A v, w \in Workers :
        v # w /\ pc[v] \in Busy /\ pc[w] \in Busy => job[v] # job[w]
  /\ \A i \in Nodes : results[i].times <= 1 /\ (i >= next => results[i].times = 0)

\* Until somebody cancels, no node is lost between the queue and the results,
\* and no worker leaves before the queue is empty.
NoneLost ==
  ~cancelled =>
    /\ \A i \in Nodes : i < next =>
          results[i].times = 1 \/ \E w \in Workers : pc[w] \in Busy /\ job[w] = i
    /\ \A w \in Workers : pc[w] = "left" => next > Count

\* A step that takes no node and returns none leaves the queue as it was.
LEMMA QueueFrame ==
  ASSUME TypeOK, Queue, NoneLost, NEW w \in Workers,
         UNCHANGED <<next, job, cancelled, results>>,
         pc' \in [Workers -> Labels],
         \A v \in Workers : v # w => pc'[v] = pc[v],
         pc[w] \in Busy <=> pc'[w] \in Busy,
         pc'[w] = "left" => cancelled
  PROVE  Queue' /\ NoneLost'
<1>1. \A v \in Workers : pc'[v] \in Busy <=> pc[v] \in Busy
  OBVIOUS
<1>2. Queue'
  BY <1>1 DEF Queue
<1>3. NoneLost'
  BY <1>1 DEF NoneLost
<1>. QED BY <1>2, <1>3

LEMMA QueueStep ==
  ASSUME TypeOK, TypeOK', Queue, NoneLost, NEW w \in Workers, Step(w)
  PROVE  Queue' /\ NoneLost'
<1>0. /\ pc \in [Workers -> Labels] /\ pc' \in [Workers -> Labels]
      /\ job \in [Workers -> Nodes] /\ next \in 1 .. Count + 1
      /\ results \in [Nodes -> [times : Nat, outcome : Outcomes]]
  BY DEF TypeOK
<1>1. CASE Check(w)
  <2>1. /\ UNCHANGED <<next, job, cancelled, results>>
        /\ pc[w] = "check" /\ pc' = [pc EXCEPT ![w] = IF cancelled THEN "left" ELSE "take"]
    BY <1>1 DEF Check, Goto, local, progress
  <2>2. pc[w] \notin Busy /\ pc'[w] \notin Busy /\ (pc'[w] = "left" => cancelled)
    BY <1>0, <2>1 DEF Busy
  <2>. QED BY <1>0, <2>1, <2>2, QueueFrame
<1>2. CASE Lookup(w) \/ Resolve(w) \/ Query(w) \/ Dial(w) \/ Tally(w)
  <2>1. UNCHANGED <<next, job, cancelled, results>>
    BY <1>2 DEF Lookup, Resolve, Query, Dial, Tally, progress
  <2>2. pc[w] \in Busy /\ \E l \in Busy : pc' = [pc EXCEPT ![w] = l]
    BY <1>2 DEF Lookup, Resolve, Query, Dial, Tally, Goto, Reporting, Busy
  <2>3. pc'[w] \in Busy /\ pc'[w] # "left"
    BY <1>0, <2>2 DEF Busy
  <2>4. \A v \in Workers : v # w => pc'[v] = pc[v]
    BY <1>0, <2>2
  <2>. QED BY <1>0, <2>1, <2>2, <2>3, <2>4, QueueFrame
<1>3. CASE Take(w)
  <2>0. pc[w] = "take" /\ UNCHANGED <<cancelled, results>> /\ pc[w] \notin Busy
    BY <1>3 DEF Take, progress, Busy
  <2>1. CASE next > Count
    <3>1. pc' = [pc EXCEPT ![w] = "left"] /\ UNCHANGED <<next, job>>
      BY <1>3, <2>1 DEF Take, Goto
    <3>2. \A v \in Workers : pc'[v] \in Busy <=> pc[v] \in Busy
      BY <1>0, <2>0, <3>1 DEF Busy
    <3>3. Queue'
      BY <2>0, <3>1, <3>2 DEF Queue
    <3>4. NoneLost'
      BY <2>0, <2>1, <3>1, <3>2 DEF NoneLost
    <3>. QED BY <3>3, <3>4
  <2>2. CASE ~ (next > Count)
    <3>1. /\ pc' = [pc EXCEPT ![w] = "lookup"]
          /\ job' = [job EXCEPT ![w] = next] /\ next' = next + 1
      BY <1>3, <2>2 DEF Take, Goto
    <3>2. /\ pc'[w] \in Busy /\ job'[w] = next
          /\ \A v \in Workers : v # w => pc'[v] = pc[v] /\ job'[v] = job[v]
      BY <1>0, <3>1 DEF Busy
    <3>3. next \in Nodes
      BY <1>0, <2>2 DEF Nodes
    <3>4. Queue'
      <4>1. ASSUME NEW v \in Workers, pc'[v] \in Busy
            PROVE  job'[v] < next' /\ results'[job'[v]].times = 0
        <5>1. CASE v = w
          BY <1>0, <2>0, <3>1, <3>2, <3>3, <5>1 DEF Queue
        <5>2. CASE v # w
          <6>1. pc[v] \in Busy /\ job'[v] = job[v] /\ job[v] \in Nodes
            BY <1>0, <3>2, <4>1, <5>2
          <6>2. job[v] < next /\ results[job[v]].times = 0
            BY <6>1 DEF Queue
          <6>. QED BY <1>0, <2>0, <3>1, <6>1, <6>2 DEF Nodes
        <5>. QED BY <5>1, <5>2
      <4>2. ASSUME NEW v \in Workers, NEW u \in Workers, v # u,
                   pc'[v] \in Busy, pc'[u] \in Busy
            PROVE  job'[v] # job'[u]
        <5>1. \A x \in Workers : x # w /\ pc'[x] \in Busy => job'[x] < next
          BY <3>2 DEF Queue
        <5>. QED BY <1>0, <3>2, <4>2, <5>1 DEF Queue
      <4>3. \A i \in Nodes : results'[i].times <= 1 /\ (i >= next' => results'[i].times = 0)
        BY <1>0, <2>0, <3>1 DEF Queue, Nodes
      <4>. QED BY <4>1, <4>2, <4>3 DEF Queue
    <3>5. NoneLost'
      <4>1. ASSUME ~cancelled, NEW i \in Nodes, i < next'
            PROVE  results[i].times = 1 \/ \E v \in Workers : pc'[v] \in Busy /\ job'[v] = i
        <5>1. CASE i = next
          BY <3>2, <5>1
        <5>2. CASE i < next
          <6>1. results[i].times = 1 \/ \E v \in Workers : pc[v] \in Busy /\ job[v] = i
            BY <4>1, <5>2 DEF NoneLost
          <6>. QED BY <2>0, <3>2, <6>1
        <5>. QED BY <1>0, <3>1, <4>1, <5>1, <5>2 DEF Nodes
      <4>2. ASSUME ~cancelled, NEW v \in Workers, pc'[v] = "left" PROVE FALSE
        <5>1. v # w /\ pc[v] = "left"
          BY <3>2, <4>2 DEF Busy
        <5>. QED BY <2>2, <4>2, <5>1 DEF NoneLost
      <4>. QED BY <2>0, <4>1, <4>2 DEF NoneLost
    <3>. QED BY <3>4, <3>5
  <2>. QED BY <2>1, <2>2
<1>4. CASE Report(w)
  <2>0. pc[w] = "report" /\ pc[w] \in Busy /\ UNCHANGED <<next, job>> /\ job[w] \in Nodes
    BY <1>0, <1>4 DEF Report, Busy, local
  <2>1. CASE listener = "gone"
    <3>1. cancelled' /\ UNCHANGED results /\ pc' = [pc EXCEPT ![w] = "left"]
      BY <1>4, <2>1 DEF Report, Goto
    <3>2. \A v \in Workers : pc'[v] \in Busy => pc[v] \in Busy
      BY <1>0, <3>1 DEF Busy
    <3>3. Queue'
      BY <2>0, <3>1, <3>2 DEF Queue
    <3>. QED BY <3>1, <3>3 DEF NoneLost
  <2>2. CASE listener # "gone"
    <3>1. /\ pc' = [pc EXCEPT ![w] = "check"] /\ UNCHANGED cancelled
          /\ results' = [results EXCEPT ![job[w]] =
                            [times |-> results[job[w]].times + 1, outcome |-> out[w]]]
      BY <1>4, <2>2 DEF Report, Goto, Return
    <3>2. /\ pc'[w] \notin Busy /\ pc'[w] # "left"
          /\ \A v \in Workers : v # w => pc'[v] = pc[v]
      BY <1>0, <3>1 DEF Busy
    <3>3. /\ results'[job[w]].times = 1 /\ job[w] < next
          /\ \A i \in Nodes : i # job[w] => results'[i] = results[i]
      BY <1>0, <2>0, <3>1 DEF Queue
    <3>4. Queue'
      <4>1. \A v \in Workers : pc'[v] \in Busy => v # w /\ pc[v] \in Busy /\ job[v] # job[w]
        BY <2>0, <3>2 DEF Queue
      <4>2. \A v \in Workers : pc'[v] \in Busy => job'[v] < next' /\ results'[job'[v]].times = 0
        BY <1>0, <2>0, <3>3, <4>1 DEF Queue
      <4>3. \A v, u \in Workers : v # u /\ pc'[v] \in Busy /\ pc'[u] \in Busy => job'[v] # job'[u]
        BY <2>0, <4>1 DEF Queue
      <4>4. \A i \in Nodes : results'[i].times <= 1 /\ (i >= next' => results'[i].times = 0)
        <5>1. next \in Nat /\ job[w] \in Nat /\ ~(job[w] >= next)
          BY <1>0, <2>0, <3>3 DEF Nodes
        <5>2. \A i \in Nodes : results[i].times <= 1 /\ (i >= next => results[i].times = 0)
          BY DEF Queue
        <5>. QED BY <2>0, <3>3, <5>1, <5>2
      <4>. QED BY <4>2, <4>3, <4>4 DEF Queue
    <3>5. NoneLost'
      <4>1. ASSUME ~cancelled, NEW i \in Nodes, i < next
            PROVE  results'[i].times = 1 \/ \E v \in Workers : pc'[v] \in Busy /\ job[v] = i
        <5>1. CASE i = job[w]
          BY <3>3, <5>1
        <5>2. CASE i # job[w]
          <6>1. results[i].times = 1 \/ \E v \in Workers : pc[v] \in Busy /\ job[v] = i
            BY <4>1 DEF NoneLost
          <6>. QED BY <3>2, <3>3, <5>2, <6>1
        <5>. QED BY <5>1, <5>2
      <4>2. ASSUME ~cancelled, NEW v \in Workers, pc'[v] = "left" PROVE next > Count
        BY <3>2, <4>2 DEF NoneLost
      <4>. QED BY <2>0, <3>1, <4>1, <4>2 DEF NoneLost
    <3>. QED BY <3>4, <3>5
  <2>. QED BY <2>1, <2>2
<1>. QED BY <1>1, <1>2, <1>3, <1>4 DEF Step

LEMMA QueueInvariant == Spec => [](Queue /\ NoneLost)
<1>1. Init => Queue /\ NoneLost
  <2>1. ASSUME Init PROVE \A w \in Workers : pc[w] = "check" /\ pc[w] \notin Busy
    BY <2>1 DEF Init, Busy
  <2>2. ASSUME Init PROVE \A i \in Nodes : results[i].times = 0
    BY <2>2 DEF Init
  <2>3. Init => Queue
    BY <2>1, <2>2 DEF Queue
  <2>4. Init => NoneLost
    BY <2>1 DEF Init, NoneLost, Nodes
  <2>. QED BY <2>3, <2>4
<1>2. TypeOK /\ TypeOK' /\ Queue /\ NoneLost /\ [Next]_vars => Queue' /\ NoneLost'
  <2>1. CASE Leave
    BY <2>1 DEF Leave, local, Queue, NoneLost
  <2>2. CASE UNCHANGED vars
    BY <2>2 DEF vars, Queue, NoneLost
  <2>. QED BY <2>1, <2>2, QueueStep DEF Next
<1>. QED BY <1>1, <1>2, TypeCorrect, PTL DEF Spec

\* tcp_ping_all returns one result per node: none twice, and none missing from
\* a run that nobody cancelled.
THEOREM OneResultEach == Spec => []EachNodeOnce
<1>1. TypeOK /\ Queue /\ NoneLost => EachNodeOnce
  <2>. SUFFICES ASSUME TypeOK, Queue, NoneLost PROVE EachNodeOnce
    OBVIOUS
  <2>1. \A i \in Nodes : results[i].times <= 1
    BY DEF Queue
  <2>2. ASSUME Over, ~cancelled, NEW i \in Nodes PROVE results[i].times = 1
    <3>1. pc[1] = "left" /\ \A w \in Workers : pc[w] \notin Busy
      BY <2>2, WorkerOne DEF Over, Busy
    <3>2. next > Count /\ next \in Nat
      BY <2>2, <3>1, WorkerOne DEF NoneLost, TypeOK
    <3>3. i < next
      BY <3>2 DEF Nodes
    <3>. QED BY <2>2, <3>1, <3>3 DEF NoneLost
  <2>. QED BY <2>1, <2>2 DEF EachNodeOnce
<1>. QED BY <1>1, TypeCorrect, QueueInvariant, PTL

-----------------------------------------------------------------------------
(* How often an endpoint is dialled, and how much is done for nobody. *)

\* A worker that dialled an endpoint left its outcome in the cache, and one
\* that missed the cache has yet to dial.
DialledIsCached ==
  /\ \A w \in Workers, e \in Addresses :
        dials[w][e] <= 1 /\ (dials[w][e] = 1 => endpoints[e] # Unasked)
  /\ \A w \in Workers :
        pc[w] \in {"resolve", "query", "dial"} => dials[w][Target(w)] = 0


LEMMA DialStep ==
  ASSUME TypeOK, DialledIsCached, NEW w \in Workers, Step(w)
  PROVE  DialledIsCached'
<1>0. /\ pc \in [Workers -> Labels] /\ job \in [Workers -> Nodes]
      /\ dials \in [Workers -> [Addresses -> Nat]]
      /\ endpoints \in [Addresses -> Outcomes \cup {Unasked}]
      /\ Target(w) \in Addresses
      /\ addr[w] \in Addresses \cup {Nowhere}
  BY EndpointsAreKnown DEF TypeOK, Target
<1>1. CASE Take(w)
  <2>1. /\ UNCHANGED <<dials, endpoints>> /\ pc[w] = "take"
        /\ \A v \in Workers : v # w => pc'[v] = pc[v] /\ job'[v] = job[v]
        /\ pc'[w] \in {"left", "lookup"}
    BY <1>0, <1>1 DEF Take, Goto, caches
  <2>. QED BY <2>1 DEF DialledIsCached, Target
<1>2. CASE Check(w) \/ Tally(w) \/ Report(w)
  <2>1. /\ UNCHANGED <<dials, endpoints, job>>
        /\ \A v \in Workers : v # w => pc'[v] = pc[v]
        /\ pc'[w] \in {"left", "take", "report", "check"}
    BY <1>0, <1>2 DEF Check, Tally, Report, Goto, caches, local, history
  <2>. QED BY <2>1 DEF DialledIsCached, Target
<1>3. CASE Lookup(w)
  <2>1. /\ UNCHANGED <<dials, endpoints, job>>
        /\ \A v \in Workers : v # w => pc'[v] = pc[v]
        /\ pc'[w] \in {"count", "report"} \/ endpoints[Target(w)] = Unasked
    BY <1>0, <1>3 DEF Lookup, Goto, Reporting, caches, history
  <2>2. endpoints[Target(w)] = Unasked => dials[w][Target(w)] = 0
    <3>1. /\ dials[w][Target(w)] \in Nat /\ dials[w][Target(w)] <= 1
          /\ dials[w][Target(w)] = 1 => endpoints[Target(w)] # Unasked
      BY <1>0 DEF DialledIsCached
    <3>. QED BY <3>1
  <2>. QED BY <2>1, <2>2 DEF DialledIsCached, Target
<1>4. CASE Resolve(w) \/ Query(w)
  <2>1. /\ UNCHANGED <<dials, endpoints, job>>
        /\ \A v \in Workers : v # w => pc'[v] = pc[v]
        /\ pc[w] \in {"resolve", "query"}
    BY <1>0, <1>4 DEF Resolve, Query, Goto, caches, history
  <2>. QED BY <2>1 DEF DialledIsCached, Target
<1>5. CASE Dial(w)
  <2>1. /\ UNCHANGED job /\ pc[w] = "dial"
        /\ \A v \in Workers : v # w => pc'[v] = pc[v] /\ dials'[v] = dials[v]
        /\ pc'[w] \in {"count", "report"}
        /\ dials'[w] = [dials[w] EXCEPT ![Target(w)] = dials[w][Target(w)] + 1]
    BY <1>0, <1>5 DEF Dial, Goto, Reporting
  <2>2. PICK ok \in BOOLEAN :
          endpoints' = [endpoints EXCEPT ![Target(w)] = [addr |-> addr[w], ok |-> ok]]
    BY <1>5 DEF Dial
  <2>3. \A e \in Addresses : endpoints'[e] = Unasked => e # Target(w) /\ endpoints[e] = Unasked
      BY <1>0, <2>2, OutcomesAreTyped, DialAssumption DEF Outcomes
  <2>4. dials[w][Target(w)] = 0
    BY <2>1 DEF DialledIsCached
  <2>5. ASSUME NEW v \in Workers, NEW e \in Addresses
        PROVE  dials'[v][e] <= 1 /\ (dials'[v][e] = 1 => endpoints'[e] # Unasked)
    <3>1. dials[v][e] <= 1 /\ (dials[v][e] = 1 => endpoints[e] # Unasked)
      BY DEF DialledIsCached
    <3>2. CASE v = w /\ e = Target(w)
      <4>1. dials'[v][e] = 1 /\ endpoints'[e] # Unasked
        BY <1>0, <2>1, <2>3, <2>4, <3>2
      <4>. QED BY <4>1
    <3>3. CASE ~(v = w /\ e = Target(w))
      <4>1. dials'[v][e] = dials[v][e]
        BY <1>0, <2>1, <3>3
      <4>. QED BY <2>3, <3>1, <4>1
    <3>. QED BY <3>2, <3>3
  <2>6. ASSUME NEW v \in Workers, pc'[v] \in {"resolve", "query", "dial"}
        PROVE  dials'[v][Target(v)'] = 0
    BY <2>1, <2>6 DEF DialledIsCached, Target
  <2>. QED BY <2>5, <2>6 DEF DialledIsCached
<1>. QED BY <1>1, <1>2, <1>3, <1>4, <1>5 DEF Step

\* What a worker misses in the cache nobody has dialled.
LEMMA MissedIsNew ==
  ASSUME TypeOK, DialledIsCached, [Next]_vars, NEW w \in Workers,
         pc[w] = "lookup", pc'[w] = "resolve", NEW v \in Workers
  PROVE  dials[v][Target(w)] = 0
<1>0. /\ pc \in [Workers -> Labels] /\ Target(w) \in Addresses
      /\ dials[v][Target(w)] \in Nat
  BY EndpointsAreKnown DEF TypeOK, Target
<1>1. pc' # pc
  OBVIOUS
<1>2. PICK u \in Workers : Step(u)
  BY <1>1 DEF Next, vars, Leave
<1>3. \E l : pc' = [pc EXCEPT ![u] = l]
  BY <1>2 DEF Step, Check, Take, Lookup, Resolve, Query, Dial, Tally, Report, Goto
<1>4. u = w
  BY <1>0, <1>3
<1>5. Lookup(w)
  BY <1>2, <1>4 DEF Step, Check, Take, Resolve, Query, Dial, Tally, Report
<1>6. endpoints[Target(w)] = Unasked
  BY <1>0, <1>5 DEF Lookup, Goto, Reporting
<1>7. dials[v][Target(w)] <= 1 /\ dials[v][Target(w)] # 1
  BY <1>0, <1>6 DEF DialledIsCached
<1>. QED BY <1>0, <1>7

\* However many nodes share an endpoint, a worker dials it at most once, dead
\* or alive, and only when it looked for it before anybody had.
THEOREM DialledOnceEach == Spec => DialsBounded
<1>. DEFINE Once == \A w \in Workers, e \in Addresses : dials[w][e] <= 1
            First == \A w \in Workers : (pc[w] = "lookup" /\ pc'[w] = "resolve")
                                => \A v \in Workers : dials[v][Target(w)] = 0
<1>1. Init => DialledIsCached
  BY DEF Init, DialledIsCached
<1>2. TypeOK /\ DialledIsCached /\ [Next]_vars => DialledIsCached'
  <2>1. CASE Leave
    BY <2>1 DEF Leave, caches, local, history, DialledIsCached, Target
  <2>2. CASE UNCHANGED vars
    BY <2>2 DEF vars, DialledIsCached, Target
  <2>. QED BY <2>1, <2>2, DialStep DEF Next
<1>3. DialledIsCached => Once
  BY DEF DialledIsCached
<1>4. TypeOK /\ DialledIsCached /\ [Next]_vars => [First]_vars
  BY MissedIsNew
<1>. HIDE DEF Once, First
<1>5. Spec => []Once /\ [][First]_vars
  BY <1>1, <1>2, <1>3, <1>4, TypeCorrect, PTL DEF Spec
<1>. QED BY <1>5 DEF DialsBounded, Once, First

\* A worker that took a node for nobody will not take another.
LateIsLast ==
  \A w \in Workers :
     /\ late[w] <= 1
     /\ late[w] = 1 => listener = "gone" /\ pc[w] \in Busy \cup {"left"}

LEMMA LateStep ==
  ASSUME TypeOK, LateIsLast, NEW w \in Workers, Step(w)
  PROVE  LateIsLast'
<1>0. /\ pc \in [Workers -> Labels] /\ late \in [Workers -> Nat]
      /\ UNCHANGED listener
  BY DEF TypeOK, Step, Check, Take, Lookup, Resolve, Query, Dial, Tally, Report, progress
<1>1. CASE Take(w)
  <2>1. /\ pc[w] = "take" /\ pc'[w] \in {"left", "lookup"}
        /\ \A v \in Workers : v # w => pc'[v] = pc[v] /\ late'[v] = late[v]
        /\ late'[w] = late[w] \/ (late'[w] = late[w] + 1 /\ listener = "gone")
    BY <1>0, <1>1 DEF Take, Goto
  <2>2. late[w] = 0
    BY <1>0, <2>1 DEF LateIsLast, Busy
  <2>. QED BY <1>0, <2>1, <2>2 DEF LateIsLast, Busy
<1>2. CASE Check(w) \/ Lookup(w) \/ Resolve(w) \/ Query(w) \/ Dial(w) \/ Tally(w)
  <2>1. /\ UNCHANGED late
        /\ \A v \in Workers : v # w => pc'[v] = pc[v]
        /\ pc[w] = "check" \/ pc'[w] \in Busy
    BY <1>0, <1>2
    DEF Check, Lookup, Resolve, Query, Dial, Tally, Goto, Reporting, Busy, history
  <2>2. pc[w] = "check" => late[w] = 0
    BY <1>0 DEF LateIsLast, Busy
  <2>. QED BY <1>0, <2>1, <2>2 DEF LateIsLast
<1>3. CASE Report(w)
  <2>1. /\ UNCHANGED late
        /\ \A v \in Workers : v # w => pc'[v] = pc[v]
        /\ listener = "gone" => pc'[w] = "left"
    BY <1>0, <1>3 DEF Report, Goto, history
  <2>. QED BY <1>0, <2>1 DEF LateIsLast
<1>. QED BY <1>1, <1>2, <1>3 DEF Step

\* Once the page is closed a worker takes at most one more node.
THEOREM LittleAfterLeave == Spec => []FewAfterLeave
<1>1. Init => LateIsLast
  BY DEF Init, LateIsLast
<1>2. TypeOK /\ LateIsLast /\ [Next]_vars => LateIsLast'
  <2>1. CASE Leave
    BY <2>1 DEF Leave, history, LateIsLast
  <2>2. CASE UNCHANGED vars
    BY <2>2 DEF vars, LateIsLast
  <2>. QED BY <2>1, <2>2, LateStep DEF Next
<1>3. LateIsLast => FewAfterLeave
  BY DEF LateIsLast, FewAfterLeave
<1>. QED BY <1>1, <1>2, <1>3, TypeCorrect, PTL DEF Spec

-----------------------------------------------------------------------------
(* The outcome reported of a node is that of its own host.                 *)

\* Every copy of an address is that of the key or the node it is kept under,
\* as far as names let it.
OwnAddresses ==
  /\ \A h \in Hosts : dns[h] \in Addresses => dns[h][1] = h
  /\ \A e \in Addresses : endpoints[e] # Unasked => endpoints[e].addr \in Kin(e) \cup {Nowhere}
  /\ \A w \in Workers : pc[w] = "dial" => addr[w] \in Kin(Target(w)) \cup {Nowhere}
  /\ \A w \in Workers :
        pc[w] \in {"count", "report"} => out[w].addr \in Kin(Target(w)) \cup {Nowhere}
  /\ \A i \in Nodes : results[i].outcome.addr \in Kin(Endpoint[i]) \cup {Nowhere}

LEMMA OwnStep ==
  ASSUME TypeOK, OwnAddresses, NEW w \in Workers, Step(w)
  PROVE  OwnAddresses'
<1>0. /\ pc \in [Workers -> Labels] /\ job \in [Workers -> Nodes]
      /\ dns \in [Hosts -> Addresses \cup {Nowhere, Unasked}]
      /\ endpoints \in [Addresses -> Outcomes \cup {Unasked}]
      /\ addr \in [Workers -> Addresses \cup {Nowhere}] /\ out \in [Workers -> Outcomes]
      /\ results \in [Nodes -> [times : Nat, outcome : Outcomes]]
      /\ Target(w) \in Addresses /\ Host(w) \in Hosts /\ job[w] \in Nodes
      /\ Target(w)[1] = Host(w)
  BY EndpointsAreKnown DEF TypeOK, Target, Host
<1>1. CASE Check(w) \/ Tally(w)
  <2>1. /\ UNCHANGED <<dns, endpoints, job, addr, out, results>>
        /\ \A v \in Workers : v # w => pc'[v] = pc[v]
        /\ pc'[w] \in {"left", "take"} \/ (pc[w] = "count" /\ pc'[w] = "report")
    BY <1>0, <1>1 DEF Check, Tally, Goto, caches, local, progress
  <2>. QED BY <2>1 DEF OwnAddresses, Target
<1>2. CASE Take(w)
  <2>1. /\ UNCHANGED <<dns, endpoints, addr, out, results>>
        /\ \A v \in Workers : v # w => pc'[v] = pc[v] /\ job'[v] = job[v]
        /\ pc'[w] \in {"left", "lookup"}
    BY <1>0, <1>2 DEF Take, Goto, caches, progress
  <2>. QED BY <2>1 DEF OwnAddresses, Target
<1>3. CASE Lookup(w)
  <2>1. /\ UNCHANGED <<dns, endpoints, job, addr, results>>
        /\ \A v \in Workers : v # w => pc'[v] = pc[v] /\ out'[v] = out[v]
        /\ \/ pc'[w] = "resolve"
           \/ endpoints[Target(w)] # Unasked /\ out'[w] = endpoints[Target(w)]
        /\ pc'[w] # "dial"
    BY <1>0, <1>3 DEF Lookup, Goto, Reporting, caches, progress
  <2>. QED BY <1>0, <2>1 DEF OwnAddresses, Target
<1>4. CASE Resolve(w)
  <2>1. /\ UNCHANGED <<dns, endpoints, job, out, results>>
        /\ \A v \in Workers : v # w => pc'[v] = pc[v] /\ addr'[v] = addr[v]
    BY <1>0, <1>4 DEF Resolve, Goto, caches, progress
  <2>2. pc'[w] \in {"dial", "query"}
    BY <1>0, <1>4 DEF Resolve, Goto
  <2>3. pc'[w] = "dial" => addr'[w] \in Kin(Target(w)) \cup {Nowhere}
    <3>1. CASE Host(w) \in Literals
      BY <1>0, <1>4, <3>1 DEF Resolve, Kin
    <3>2. CASE Host(w) \notin Literals /\ dns[Host(w)] = Unasked
      BY <1>0, <1>4, <3>2 DEF Resolve, Goto
    <3>3. CASE Host(w) \notin Literals /\ dns[Host(w)] # Unasked
      <4>1. addr'[w] = dns[Host(w)]
        BY <1>0, <1>4, <3>3 DEF Resolve
      <4>2. CASE dns[Host(w)] \in Addresses
        <5>1. dns[Host(w)][1] = Target(w)[1]
          BY <1>0, <4>2 DEF OwnAddresses
        <5>. QED BY <1>0, <3>3, <4>1, <4>2, <5>1 DEF Kin
      <4>3. CASE dns[Host(w)] \notin Addresses
        BY <1>0, <3>3, <4>1, <4>3
      <4>. QED BY <4>2, <4>3
    <3>. QED BY <3>1, <3>2, <3>3
  <2>. QED BY <2>1, <2>2, <2>3 DEF OwnAddresses, Target
<1>5. CASE Query(w)
  <2>1. PICK a \in {Nowhere, Target(w)} :
          addr' = [addr EXCEPT ![w] = a] /\ dns' = [dns EXCEPT ![Host(w)] = a]
    BY <1>5 DEF Query
  <2>2. /\ UNCHANGED <<endpoints, job, out, results>>
        /\ pc' = [pc EXCEPT ![w] = "dial"]
    BY <1>5 DEF Query, Goto, progress
  <2>3. \A h \in Hosts : dns'[h] \in Addresses => dns'[h][1] = h
    <3>. SUFFICES ASSUME NEW h \in Hosts, dns'[h] \in Addresses PROVE dns'[h][1] = h
      OBVIOUS
    <3>1. CASE h = Host(w)
      BY <1>0, <2>1, <3>1
    <3>2. CASE h # Host(w)
      BY <1>0, <2>1, <3>2 DEF OwnAddresses
    <3>. QED BY <3>1, <3>2
  <2>4. \A v \in Workers : pc'[v] = "dial" => addr'[v] \in Kin(Target(v)') \cup {Nowhere}
    <3>1. Target(w) \in Kin(Target(w))
      BY DEF Kin
    <3>. QED BY <1>0, <2>1, <2>2, <3>1 DEF OwnAddresses, Target
  <2>5. \A v \in Workers : pc'[v] \in {"count", "report"} => v # w /\ pc[v] = pc'[v]
    BY <1>0, <2>2
  <2>. QED BY <2>2, <2>3, <2>4, <2>5 DEF OwnAddresses, Target
<1>6. CASE Dial(w)
  <2>1. PICK ok \in BOOLEAN :
          /\ out' = [out EXCEPT ![w] = [addr |-> addr[w], ok |-> ok]]
          /\ endpoints' = [endpoints EXCEPT ![Target(w)] = [addr |-> addr[w], ok |-> ok]]
    BY <1>6 DEF Dial
  <2>2. /\ UNCHANGED <<dns, job, addr, results>> /\ pc[w] = "dial"
        /\ \A v \in Workers : v # w => pc'[v] = pc[v]
        /\ pc'[w] \in {"count", "report"}
    BY <1>0, <1>6 DEF Dial, Goto, Reporting, progress
  <2>3. addr[w] \in Kin(Target(w)) \cup {Nowhere}
    BY <2>2 DEF OwnAddresses
  <2>4. \A e \in Addresses : endpoints'[e] # Unasked => endpoints'[e].addr \in Kin(e) \cup {Nowhere}
    BY <1>0, <2>1, <2>3 DEF OwnAddresses
  <2>5. \A v \in Workers : pc'[v] \in {"count", "report"} => out'[v].addr \in Kin(Target(v)') \cup {Nowhere}
    <3>. SUFFICES ASSUME NEW v \in Workers, pc'[v] \in {"count", "report"}
                  PROVE  out'[v].addr \in Kin(Target(v)') \cup {Nowhere}
      OBVIOUS
    <3>1. CASE v = w
      BY <1>0, <2>1, <2>2, <2>3, <3>1 DEF Target
    <3>2. CASE v # w
      BY <1>0, <2>1, <2>2, <3>2 DEF OwnAddresses, Target
    <3>. QED BY <3>1, <3>2
  <2>. QED BY <2>2, <2>4, <2>5 DEF OwnAddresses, Target
<1>7. CASE Report(w)
  <2>1. /\ UNCHANGED <<dns, endpoints, job, addr, out>> /\ pc[w] = "report"
        /\ \A v \in Workers : v # w => pc'[v] = pc[v]
        /\ pc'[w] \in {"left", "check"}
    BY <1>0, <1>7 DEF Report, Goto, caches, local
  <2>2. \/ UNCHANGED results
        \/ results' = [results EXCEPT ![job[w]] =
                         [times |-> results[job[w]].times + 1, outcome |-> out[w]]]
    BY <1>7 DEF Report, Return
  <2>3. out[w].addr \in Kin(Endpoint[job[w]]) \cup {Nowhere}
    BY <2>1 DEF OwnAddresses, Target
  <2>4. \A i \in Nodes : results'[i].outcome.addr \in Kin(Endpoint[i]) \cup {Nowhere}
    BY <1>0, <2>2, <2>3 DEF OwnAddresses
  <2>. QED BY <2>1, <2>4 DEF OwnAddresses, Target
<1>. QED BY <1>1, <1>2, <1>3, <1>4, <1>5, <1>6, <1>7 DEF Step

\* The outcome of a node is that of its own host, on its own port or, if the
\* host is a name, on one the list has for that name.
THEOREM OwnVerdicts == Spec => []VerdictIsOwn
<1>1. Init => OwnAddresses
  BY DEF Init, OwnAddresses, Unreached
<1>2. TypeOK /\ OwnAddresses /\ [Next]_vars => OwnAddresses'
  <2>1. CASE Leave
    BY <2>1 DEF Leave, caches, local, OwnAddresses, Target
  <2>2. CASE UNCHANGED vars
    BY <2>2 DEF vars, OwnAddresses, Target
  <2>. QED BY <2>1, <2>2, OwnStep DEF Next
<1>3. OwnAddresses => VerdictIsOwn
  BY DEF OwnAddresses, VerdictIsOwn
<1>. QED BY <1>1, <1>2, <1>3, TypeCorrect, PTL DEF Spec

-----------------------------------------------------------------------------
(* What a watched run returns is what it has shown. *)

LEMMA ShownStep ==
  ASSUME TypeOK, ReturnedIsShown, NEW w \in Workers, Step(w)
  PROVE  ReturnedIsShown'
<1>1. UNCHANGED Watched
  BY DEF Step, Check, Take, Lookup, Resolve, Query, Dial, Tally, Report, progress, Watched
<1>2. CASE UNCHANGED <<shown, results>>
  BY <1>1, <1>2 DEF ReturnedIsShown
<1>3. CASE Report(w) /\ listener # "gone"
  <2>. SUFFICES ASSUME Watched, NEW i \in Nodes
                PROVE  results'[i].times > 0 <=> \E a \in shown' : a[2] = i
    BY <1>1 DEF ReturnedIsShown
  <2>1. /\ shown' = shown \cup {<<number[w], job[w]>>}
        /\ results' = [results EXCEPT ![job[w]] =
                         [times |-> results[job[w]].times + 1, outcome |-> out[w]]]
    BY <1>3 DEF Report, Return
  <2>2. results[i].times > 0 <=> \E a \in shown : a[2] = i
    BY DEF ReturnedIsShown
  <2>3. CASE i = job[w]
    <3>1. results[i].times \in Nat /\ results'[i].times = results[i].times + 1
      BY <2>1, <2>3 DEF TypeOK
    <3>2. <<number[w], job[w]>> \in shown' /\ <<number[w], job[w]>>[2] = i
      BY <2>1, <2>3
    <3>. QED BY <3>1, <3>2
  <2>4. CASE i # job[w]
    <3>1. results'[i] = results[i]
      BY <2>1, <2>4 DEF TypeOK
    <3>2. (\E a \in shown' : a[2] = i) <=> \E a \in shown : a[2] = i
      BY <2>1, <2>4
    <3>. QED BY <2>2, <3>1, <3>2
  <2>. QED BY <2>3, <2>4
<1>. QED
  BY <1>2, <1>3
  DEF Step, Check, Take, Lookup, Resolve, Query, Dial, Tally, Report, progress

\* A node has a result exactly when its report was delivered.
THEOREM WatchedRunsReturnWhatTheyShow == Spec => []ReturnedIsShown
<1>1. Init => ReturnedIsShown
  BY DEF Init, ReturnedIsShown
<1>2. TypeOK /\ ReturnedIsShown /\ [Next]_vars => ReturnedIsShown'
  <2>1. CASE Leave
    BY <2>1 DEF Leave, ReturnedIsShown, Watched
  <2>2. CASE UNCHANGED vars
    BY <2>2 DEF vars, ReturnedIsShown, Watched
  <2>. QED BY <2>1, <2>2, ShownStep DEF Next
<1>. QED BY <1>1, <1>2, TypeCorrect, PTL DEF Spec
=============================================================================

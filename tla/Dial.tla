-------------------------------- MODULE Dial --------------------------------
(***************************************************************************)
(* One run of tcp_ping_all: worker threads share a queue of nodes, a cache *)
(* of resolved hosts and a cache of dialled endpoints, and report every    *)
(* node to a listener that may go away.                                    *)
(*                                                                         *)
(* Nodes are their places in the list.  What a probe measured is its       *)
(* outcome: the address it dialled, `Nowhere` when the name did not        *)
(* resolve, and whether somebody answered.  Latency and throughput are     *)
(* left out: they are figures of that one outcome.                         *)
(***************************************************************************)
EXTENDS Naturals, FiniteSets

CONSTANTS
    Count,          \* number of nodes of the run
    Endpoint,       \* the host and port of each node
    Literals,       \* hosts that are IP addresses
    Stuck,          \* hosts whose name is never resolved nor refused
    Requested,      \* the concurrency asked for
    MaxWorkers,     \* its cap (64)
    Nowhere,        \* the address of a host that did not resolve
    Unasked         \* what the caches hold of a key they do not have

Nodes == 1 .. Count

Hosts == {Endpoint[i][1] : i \in Nodes}
Addresses == {Endpoint[i] : i \in Nodes}

ASSUME DialAssumption ==
    /\ Count \in Nat \ {0}
    /\ \A i \in Nodes : Endpoint[i] = <<Endpoint[i][1], Endpoint[i][2]>>
    /\ Requested \in Nat
    /\ MaxWorkers \in Nat \ {0}
    /\ Nowhere \notin Addresses \cup {Unasked}
    /\ Unasked \notin Addresses \cup [addr : Addresses \cup {Nowhere}, ok : BOOLEAN]

\* clamp(1, 64).min(proxies.len())
Clamped == IF Requested = 0 THEN 1
           ELSE IF Requested > MaxWorkers THEN MaxWorkers ELSE Requested

Workers == 1 .. IF Clamped > Count THEN Count ELSE Clamped

VARIABLES
    next,       \* the queue: index of the next node
    cancelled,  \* set when a report reached nobody
    done,       \* the completion counter
    dns,        \* RunCache.dns: hosts resolved so far
    endpoints,  \* RunCache.endpoints: outcomes so far
    pc,         \* where each worker is
    job,        \* the node each worker has
    addr,       \* the address it resolved
    out,        \* the outcome of its node
    number,     \* the completion number of its node
    listener,   \* to the progress: "nobody", "here" or "gone"
    shown,      \* the progress delivered: completion number and node
    results,    \* what the run returns: how often, and with which outcome
    late,       \* history: nodes each worker took after the listener left
    dials       \* history: probes of an endpoint each worker made

caches == <<dns, endpoints>>
local == <<job, addr, out, number>>
progress == <<cancelled, done, listener, shown, results>>
history == <<late, dials>>

vars == <<next, cancelled, done, dns, endpoints, pc, job, addr, out, number,
          listener, shown, results, late, dials>>

-----------------------------------------------------------------------------
Outcomes == [addr : Addresses \cup {Nowhere}, ok : BOOLEAN]

Unreached == [addr |-> Nowhere, ok |-> FALSE]

Host(w) == Endpoint[job[w]][1]
Target(w) == Endpoint[job[w]]

\* on_progress is Some.
Watched == listener # "nobody"

Goto(w, label) == pc' = [pc EXCEPT ![w] = label]

Init ==
    /\ next = 1
    /\ cancelled = FALSE
    /\ done = 0
    /\ dns = [h \in Hosts |-> Unasked]
    /\ endpoints = [e \in Addresses |-> Unasked]
    /\ pc = [w \in Workers |-> "check"]
    /\ job = [w \in Workers |-> 1]
    /\ addr = [w \in Workers |-> Nowhere]
    /\ out = [w \in Workers |-> Unreached]
    /\ number = [w \in Workers |-> 0]
    /\ listener \in {"nobody", "here"}
    /\ shown = {}
    /\ results = [i \in Nodes |-> [times |-> 0, outcome |-> Unreached]]
    /\ late = [w \in Workers |-> 0]
    /\ dials = [w \in Workers |-> [e \in Addresses |-> 0]]

\* cancelled.load()
Check(w) ==
    /\ pc[w] = "check"
    /\ Goto(w, IF cancelled THEN "left" ELSE "take")
    /\ UNCHANGED <<next, caches, local, progress, history>>

\* Mutant: the index is read but not advanced under the lock when another
\* worker has yet to take its own.
TakeShared(w) ==
    /\ pc[w] = "take"
    /\ IF next > Count
       THEN Goto(w, "left") /\ UNCHANGED <<next, job, late>>
       ELSE /\ Goto(w, "lookup")
            /\ job' = [job EXCEPT ![w] = next]
            /\ next' = IF \E v \in Workers \ {w} : pc[v] = "take"
                       THEN next ELSE next + 1
            /\ late' = IF listener = "gone" THEN [late EXCEPT ![w] = @ + 1] ELSE late
    /\ UNCHANGED <<caches, addr, out, number, progress, dials>>

\* Under the queue's lock.
Take(w) ==
    /\ pc[w] = "take"
    /\ IF next > Count
       THEN Goto(w, "left") /\ UNCHANGED <<next, job, late>>
       ELSE /\ Goto(w, "lookup")
            /\ job' = [job EXCEPT ![w] = next]
            /\ next' = next + 1
            /\ late' = IF listener = "gone" THEN [late EXCEPT ![w] = @ + 1] ELSE late
    /\ UNCHANGED <<caches, addr, out, number, progress, dials>>

\* Where a worker goes with its outcome: only a watched run counts.
Reporting == IF Watched THEN "count" ELSE "report"

\* Mutant: a worker finds only what it put into the cache itself.
LookupOwn(w) ==
    /\ pc[w] = "lookup"
    /\ IF dials[w][Target(w)] > 0
       THEN /\ out' = [out EXCEPT ![w] = endpoints[Target(w)]]
            /\ Goto(w, Reporting)
       ELSE UNCHANGED out /\ Goto(w, "resolve")
    /\ UNCHANGED <<next, caches, job, addr, number, progress, history>>

\* tcp_ping_cached, the cache read: locked for the read alone.
Lookup(w) ==
    /\ pc[w] = "lookup"
    /\ IF endpoints[Target(w)] # Unasked
       THEN /\ out' = [out EXCEPT ![w] = endpoints[Target(w)]]
            /\ Goto(w, Reporting)
       ELSE UNCHANGED out /\ Goto(w, "resolve")
    /\ UNCHANGED <<next, caches, job, addr, number, progress, history>>

\* Mutant: IP addresses go through the cache of names as well.
ResolveCachesAll(w) ==
    /\ pc[w] = "resolve"
    /\ LET hit == dns[Host(w)]
           here == Host(w) \in Literals
       IN  /\ addr' = [addr EXCEPT ![w] = IF hit # Unasked THEN hit
                                          ELSE IF here THEN Target(w) ELSE Nowhere]
           /\ dns' = IF here /\ hit = Unasked
                     THEN [dns EXCEPT ![Host(w)] = Target(w)] ELSE dns
           /\ Goto(w, IF here \/ hit # Unasked THEN "dial" ELSE "query")
    /\ UNCHANGED <<next, endpoints, job, out, number, progress, history>>

\* resolve: an IP address is its own answer, a name may be in the cache, with
\* the address of whichever port it was resolved for.
Resolve(w) ==
    /\ pc[w] = "resolve"
    /\ \/ /\ Host(w) \in Literals
          /\ addr' = [addr EXCEPT ![w] = Target(w)]
          /\ Goto(w, "dial")
       \/ /\ Host(w) \notin Literals /\ dns[Host(w)] # Unasked
          /\ addr' = [addr EXCEPT ![w] = dns[Host(w)]]
          /\ Goto(w, "dial")
       \/ /\ Host(w) \notin Literals /\ dns[Host(w)] = Unasked
          /\ UNCHANGED addr
          /\ Goto(w, "query")
    /\ UNCHANGED <<next, caches, job, out, number, progress, history>>

\* Mutant: the wait for the resolver has no limit.
QueryForever(w) ==
    /\ pc[w] = "query" /\ Host(w) \notin Stuck
    /\ \E a \in {Target(w), Nowhere} :
          /\ addr' = [addr EXCEPT ![w] = a]
          /\ dns' = [dns EXCEPT ![Host(w)] = a]
    /\ Goto(w, "dial")
    /\ UNCHANGED <<next, endpoints, job, out, number, progress, history>>

\* resolve_uncached, then dns_put: the name resolves, or it is refused or the
\* budget of the query runs out.
Query(w) ==
    /\ pc[w] = "query"
    /\ \E a \in {Nowhere} \cup (IF Host(w) \in Stuck THEN {} ELSE {Target(w)}) :
          /\ addr' = [addr EXCEPT ![w] = a]
          /\ dns' = [dns EXCEPT ![Host(w)] = a]
    /\ Goto(w, "dial")
    /\ UNCHANGED <<next, endpoints, job, out, number, progress, history>>

\* The rest of probe, then remember_endpoint: success and failure alike.
Dial(w) ==
    /\ pc[w] = "dial"
    /\ \E ok \in IF addr[w] = Nowhere THEN {FALSE} ELSE BOOLEAN :
          LET o == [addr |-> addr[w], ok |-> ok]
          IN  /\ out' = [out EXCEPT ![w] = o]
              /\ endpoints' = [endpoints EXCEPT ![Target(w)] = o]
    /\ dials' = [dials EXCEPT ![w][Target(w)] = @ + 1]
    /\ Goto(w, Reporting)
    /\ UNCHANGED <<next, dns, job, addr, number, progress, late>>

\* done.fetch_add(1) + 1
Tally(w) ==
    /\ pc[w] = "count"
    /\ done' = done + 1
    /\ number' = [number EXCEPT ![w] = done + 1]
    /\ Goto(w, "report")
    /\ UNCHANGED <<next, caches, job, addr, out, cancelled, listener, shown,
                   results, history>>

Return(w) ==
    results' = [results EXCEPT ![job[w]] = [times |-> @.times + 1, outcome |-> out[w]]]

\* Mutant: the result is sent before the listener is asked.
ReportAfterSending(w) ==
    /\ pc[w] = "report"
    /\ Return(w)
    /\ IF listener = "gone"
       THEN cancelled' = TRUE /\ Goto(w, "left") /\ UNCHANGED shown
       ELSE /\ shown' = IF Watched THEN shown \cup {<<number[w], job[w]>>} ELSE shown
            /\ Goto(w, "check")
            /\ UNCHANGED cancelled
    /\ UNCHANGED <<next, caches, local, done, listener, history>>

\* The callback and, when it took the report, the send of the result; a
\* report nobody takes cancels the run and its result is dropped.
Report(w) ==
    /\ pc[w] = "report"
    /\ IF listener = "gone"
       THEN cancelled' = TRUE /\ Goto(w, "left") /\ UNCHANGED <<shown, results>>
       ELSE /\ shown' = IF Watched THEN shown \cup {<<number[w], job[w]>>} ELSE shown
            /\ Return(w)
            /\ Goto(w, "check")
            /\ UNCHANGED cancelled
    /\ UNCHANGED <<next, caches, local, done, listener, history>>

\* The page that follows the test is closed.
Leave ==
    /\ listener = "here"
    /\ listener' = "gone"
    /\ UNCHANGED <<next, caches, pc, local, cancelled, done, shown, results, history>>

Step(w) ==
    \/ Check(w) \/ Take(w) \/ Lookup(w) \/ Resolve(w) \/ Query(w)
    \/ Dial(w) \/ Tally(w) \/ Report(w)

Next == Leave \/ \E w \in Workers : Step(w)

\* The scheduler of the operating system runs every thread.
Spec == Init /\ [][Next]_vars /\ \A w \in Workers : WF_vars(Step(w))

-----------------------------------------------------------------------------
(* Properties *)

Labels == {"check", "take", "lookup", "resolve", "query", "dial", "count",
           "report", "left"}

TypeOK ==
    /\ next \in 1 .. Count + 1
    /\ cancelled \in BOOLEAN
    /\ done \in Nat
    /\ dns \in [Hosts -> Addresses \cup {Nowhere, Unasked}]
    /\ endpoints \in [Addresses -> Outcomes \cup {Unasked}]
    /\ pc \in [Workers -> Labels]
    /\ job \in [Workers -> Nodes]
    /\ addr \in [Workers -> Addresses \cup {Nowhere}]
    /\ out \in [Workers -> Outcomes]
    /\ number \in [Workers -> Nat]
    /\ listener \in {"nobody", "here", "gone"}
    /\ shown \subseteq Nat \X Nodes
    /\ results \in [Nodes -> [times : Nat, outcome : Outcomes]]
    /\ late \in [Workers -> Nat]
    /\ dials \in [Workers -> [Addresses -> Nat]]

Busy == {"lookup", "resolve", "query", "dial", "count", "report"}

Over == \A w \in Workers : pc[w] = "left"

\* tcp_ping_all returns one result per node: none twice, whichever worker had
\* it, and none missing from a run that nobody cancelled.
EachNodeOnce ==
    /\ \A i \in Nodes : results[i].times <= 1
    /\ Over /\ ~cancelled => \A i \in Nodes : results[i].times = 1

\* What the run returns, and the server writes back, is what was shown: a
\* node whose report reached nobody has no result.
ReturnedIsShown ==
    Watched => \A i \in Nodes :
        results[i].times > 0 <=> \E a \in shown : a[2] = i

\* The outcome of a node, from whichever worker and whichever cache it came,
\* is that of its own host, and of its own port when the host is an IP address.
\* A name may have been dialled on the port of another node of that name.
Kin(e) == {e} \cup {d \in Addresses : e[1] \notin Literals /\ d[1] = e[1]}

VerdictIsOwn ==
    \A i \in Nodes : results[i].outcome.addr \in Kin(Endpoint[i]) \cup {Nowhere}

\* Not so: a node is dialled on its own port.
PortIsOwn ==
    \A i \in Nodes : results[i].outcome.addr \in {Endpoint[i], Nowhere}

\* An endpoint that many nodes share is dialled at most once by a worker, were
\* it dead, and only by workers that looked for it before anybody had dialled
\* it: the first may meet it together, and nobody after them.
DialsBounded ==
    /\ [](\A w \in Workers, e \in Addresses : dials[w][e] <= 1)
    /\ [][\A w \in Workers : (pc[w] = "lookup" /\ pc'[w] = "resolve")
                                => \A v \in Workers : dials[v][Target(w)] = 0]_vars

\* Once the page is closed a worker takes at most one more node, however long
\* the list is.
FewAfterLeave == \A w \in Workers : late[w] <= 1

\* The run ends, even when a resolver never answers and the page is closed.
RunEnds == <>Over
=============================================================================

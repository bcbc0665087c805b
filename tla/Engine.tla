------------------------------- MODULE Engine -------------------------------
(***************************************************************************)
(* The external engines (mihomo, sing-box) that SubHub launches to test    *)
(* nodes through: the permits that limit how many run, the ports they are  *)
(* given, and their end.  A call that only wants latencies launches one    *)
(* engine per batch of nodes, batch after batch; any other call launches   *)
(* one engine per node, several at a time.                                 *)
(*                                                                         *)
(* A port is picked by asking the system for a free one and closing it     *)
(* again; the engine binds it much later.  The leases bridge the gap.      *)
(***************************************************************************)
EXTENDS Naturals, FiniteSets

CONSTANTS
    Calls,          \* probe_all calls that may be under way at one time
    Batched,        \* those that only want HTTP latencies
    Size,           \* how many engines each call launches in all
    Width,          \* how many of them it may run at one time
    MaxProcs,       \* MAX_ENGINE_PROCESSES
    Ports,          \* ports the system hands out
    BindFails,      \* may the system refuse a port (no descriptor left)?
    Disconnects     \* may a caller be dropped while it awaits?

ASSUME EngineAssumption ==
    /\ IsFiniteSet(Calls) /\ IsFiniteSet(Ports)
    /\ Batched \subseteq Calls
    /\ Size \in [Calls -> Nat]
    /\ MaxProcs \in Nat \ {0}
    /\ Width \in [Calls -> 1 .. MaxProcs]
    /\ BindFails \in BOOLEAN
    /\ Disconnects \in BOOLEAN

VARIABLES
    caller,     \* where the caller of each call is
    stage,      \* where each launch is
    ports,      \* the lease of each launch
    leased,     \* PORTS_IN_USE
    lost,       \* history: what a refused bind left there
    engine,     \* the engine of each launch, until it is killed or crashes
    binds       \* the ports its process listens on, until the process is gone

vars == <<caller, stage, ports, leased, lost, engine, binds>>

-----------------------------------------------------------------------------
Launches == UNION {{c} \X (1 .. Size[c]) : c \in Calls}

Call(l) == l[1]

\* The first two ports of a batch are its proxy and its controller.
Needed(l) == IF Call(l) \in Batched THEN 2 ELSE 1

\* Launches that hold their call's own permit, and the global one.
HoldsLocal(l) == stage[l] \notin {"none", "closed"}
HoldsGlobal(l) == Call(l) \notin Batched /\ HoldsLocal(l) /\ stage[l] # "queued"

Alive(l) == engine[l] # "none"

\* Ports the system will not hand out: some process listens on them.
Bound == UNION {binds[l] : l \in Launches}

Init ==
    /\ caller = [c \in Calls |-> "active"]
    /\ stage = [l \in Launches |-> "none"]
    /\ ports = [l \in Launches |-> {}]
    /\ leased = {}
    /\ lost = {}
    /\ engine = [l \in Launches |-> "none"]
    /\ binds = [l \in Launches |-> {}]

Goes(l, to) == stage' = [stage EXCEPT ![l] = to]

\* The launch is over and has no lease any more.
Closes(l) ==
    /\ Goes(l, "closed")
    /\ ports' = [ports EXCEPT ![l] = {}]

\* probe_all_shared: the next batch once the one before is over.
NextBatch(l) ==
    /\ Call(l) \in Batched
    /\ caller[Call(l)] = "active"
    /\ stage[l] = "none"
    /\ \A k \in Launches : Call(k) = Call(l) /\ k[2] < l[2] => stage[k] = "closed"
    /\ Goes(l, "choosing")
    /\ UNCHANGED <<caller, ports, leased, engine, binds, lost>>

\* probe_all: a permit of the call's own, then, still in the loop over its
\* nodes, one of the permits all calls share.
TakeLocal(l) ==
    /\ Call(l) \notin Batched
    /\ caller[Call(l)] = "active"
    /\ stage[l] = "none"
    /\ \A k \in Launches : Call(k) = Call(l) /\ k[2] < l[2]
                              => stage[k] \notin {"none", "queued"}
    /\ Cardinality({k \in Launches : Call(k) = Call(l) /\ HoldsLocal(k)}) < Width[Call(l)]
    /\ Goes(l, "queued")
    /\ UNCHANGED <<caller, ports, leased, engine, binds, lost>>

TakeGlobal(l) ==
    /\ stage[l] = "queued"
    /\ Cardinality({k \in Launches : HoldsGlobal(k)}) < MaxProcs
    /\ Goes(l, "choosing")
    /\ UNCHANGED <<caller, ports, leased, engine, binds, lost>>

\* Mutant: one port too many is asked for.
RegistersMore(l, p) ==
    /\ ports' = [ports EXCEPT ![l] = @ \cup {p}]
    /\ leased' = leased \cup {p}
    /\ IF Cardinality(ports'[l]) > Needed(l) THEN Goes(l, "leased") ELSE UNCHANGED stage
    /\ UNCHANGED <<caller, engine, binds, lost>>

\* A port is picked for l; it was the last one, or more are needed.
Registers(l, p) ==
    /\ ports' = [ports EXCEPT ![l] = @ \cup {p}]
    /\ leased' = leased \cup {p}
    /\ IF Cardinality(ports'[l]) = Needed(l) THEN Goes(l, "leased") ELSE UNCHANGED stage
    /\ UNCHANGED <<caller, engine, binds, lost>>

\* alloc_ports: one try that finds a port nobody has; the others only repeat.
PickPort(l, p) ==
    /\ stage[l] = "choosing"
    /\ p \notin Bound \cup leased
    /\ Registers(l, p)

\* Mutant: a launch that ends short keeps what it registered.
GiveUpKeeping(l) ==
    /\ stage[l] = "choosing"
    /\ leased \ Bound # {}
    /\ Closes(l)
    /\ UNCHANGED <<caller, leased, engine, binds, lost>>

\* Sixty-four tries that only met ports in use; what was registered goes back.
GiveUp(l) ==
    /\ stage[l] = "choosing"
    /\ leased \ Bound # {}
    /\ leased' = leased \ ports[l]
    /\ Closes(l)
    /\ UNCHANGED <<caller, engine, binds, lost>>

\* The bind fails and `?` returns: what was registered stays registered.
BindFail(l) ==
    /\ BindFails
    /\ stage[l] = "choosing"
    /\ lost' = lost \cup ports[l]
    /\ Closes(l)
    /\ UNCHANGED <<caller, leased, engine, binds>>

\* The engine cannot represent the node: nothing is launched for it.
Skip(l) ==
    /\ stage[l] = "choosing"
    /\ Call(l) \notin Batched
    /\ ports[l] = {}
    /\ Closes(l)
    /\ UNCHANGED <<caller, leased, engine, binds, lost>>

\* Mutant: the lease is dropped once the engine was given it.
SpawnUnleased(l) ==
    /\ stage[l] = "leased"
    /\ engine' = [engine EXCEPT ![l] = "starting"]
    /\ leased' = leased \ ports[l]
    /\ Goes(l, "running")
    /\ UNCHANGED <<caller, ports, binds, lost>>

Spawn(l) ==
    /\ stage[l] = "leased"
    /\ engine' = [engine EXCEPT ![l] = "starting"]
    /\ Goes(l, "running")
    /\ UNCHANGED <<caller, ports, leased, binds, lost>>

\* No config file, no process, nothing in the batch the engine can represent:
\* the lease goes back at once.
NotSpawned(l) ==
    /\ stage[l] = "leased"
    /\ leased' = leased \ ports[l]
    /\ Closes(l)
    /\ UNCHANGED <<caller, engine, binds, lost>>

\* The engine opens its ports, in time or later.
Listen(l) ==
    /\ engine[l] = "starting"
    /\ engine' = [engine EXCEPT ![l] = "listening"]
    /\ binds' = [binds EXCEPT ![l] = ports[l]]
    /\ UNCHANGED <<caller, stage, ports, leased, lost>>

\* The engine stops by itself.
Crash(l) ==
    /\ Alive(l)
    /\ engine' = [engine EXCEPT ![l] = "none"]
    /\ binds' = [binds EXCEPT ![l] = {}]
    /\ UNCHANGED <<caller, stage, ports, leased, lost>>

\* The probes are over, the engine was not ready in time, or it crashed: its
\* guard kills it and waits a little while for the process to be gone.
Kill(l) ==
    /\ stage[l] = "running"
    /\ engine' = [engine EXCEPT ![l] = "none"]
    /\ Goes(l, "killed")
    /\ UNCHANGED <<caller, ports, leased, binds, lost>>

\* The process of a killed engine is gone, before its lease is or after.
Die(l) ==
    /\ ~Alive(l)
    /\ binds[l] # {}
    /\ binds' = [binds EXCEPT ![l] = {}]
    /\ UNCHANGED <<caller, stage, ports, leased, engine, lost>>

\* Mutant: the lease goes back, the permits do not.
ReleaseKeepsPermit(l) ==
    /\ stage[l] = "killed"
    /\ leased' = leased \ ports[l]
    /\ ports' = [ports EXCEPT ![l] = {}]
    /\ UNCHANGED <<caller, stage, engine, binds, lost>>

\* The lease is dropped after the guard, the permits after the lease.
Release(l) ==
    /\ stage[l] = "killed"
    /\ leased' = leased \ ports[l]
    /\ Closes(l)
    /\ UNCHANGED <<caller, engine, binds, lost>>

Return(c) ==
    /\ caller[c] = "active"
    /\ \A l \in Launches : Call(l) = c => stage[l] = "closed"
    /\ caller' = [caller EXCEPT ![c] = "returned"]
    /\ UNCHANGED <<stage, ports, leased, engine, binds, lost>>

\* The caller is dropped at an await, which for a batch is while its engine
\* runs: the engine is killed with it.  A launch in the queue gives its permit
\* back; launches per node are tasks of their own and go on.
Disconnect(c) ==
    /\ Disconnects
    /\ caller[c] = "active"
    /\ c \in Batched => \A l \in Launches :
                           Call(l) = c => stage[l] \in {"none", "running", "closed"}
    /\ caller' = [caller EXCEPT ![c] = "gone"]
    /\ LET cut(l) == Call(l) = c /\ c \in Batched /\ stage[l] = "running"
       IN  /\ stage' = [l \in Launches |->
                          IF cut(l) THEN "killed"
                          ELSE IF Call(l) = c /\ stage[l] = "queued" THEN "closed"
                          ELSE stage[l]]
           /\ engine' = [l \in Launches |-> IF cut(l) THEN "none" ELSE engine[l]]
    /\ UNCHANGED <<ports, leased, binds, lost>>

Allocate(l) == (\E p \in Ports : PickPort(l, p)) \/ GiveUp(l) \/ BindFail(l) \/ Skip(l)

Launch(l) == Spawn(l) \/ NotSpawned(l)

Step(l) ==
    \/ NextBatch(l) \/ TakeLocal(l) \/ TakeGlobal(l)
    \/ Allocate(l) \/ Launch(l) \/ Listen(l) \/ Crash(l) \/ Kill(l) \/ Die(l) \/ Release(l)

\* All calls have come to their end.
Over ==
    /\ \A c \in Calls : caller[c] \in {"returned", "gone"}
    /\ UNCHANGED vars

Next ==
    \/ \E c \in Calls : Return(c) \/ Disconnect(c)
    \/ \E l \in Launches : Step(l)
    \/ Over

Spec == Init /\ [][Next]_vars

\* Every wait has its timeout, every task is polled, permits go to those who
\* wait for them, and a process that was killed ends.
FairSpec ==
    /\ Spec
    /\ \A c \in Calls : WF_vars(Return(c))
    /\ \A l \in Launches :
          /\ WF_vars(NextBatch(l)) /\ WF_vars(TakeLocal(l)) /\ WF_vars(TakeGlobal(l))
          /\ WF_vars(Allocate(l)) /\ WF_vars(Launch(l))
          /\ WF_vars(Kill(l)) /\ WF_vars(Die(l)) /\ WF_vars(Release(l))

-----------------------------------------------------------------------------
(* Properties *)

Stages == {"none", "queued", "choosing", "leased", "running", "killed", "closed"}

TypeOK ==
    /\ caller \in [Calls -> {"active", "gone", "returned"}]
    /\ stage \in [Launches -> Stages]
    /\ ports \in [Launches -> SUBSET Ports]
    /\ leased \in SUBSET Ports
    /\ lost \in SUBSET Ports
    /\ engine \in [Launches -> {"none", "starting", "listening"}]
    /\ binds \in [Launches -> SUBSET Ports]
    /\ \A l \in Launches : Cardinality(ports[l]) <= Needed(l)

\* No two engines are ever given the same port, from the moment they start to
\* the moment they are gone, whichever calls they belong to, and although
\* each port was free to take again before its engine bound it.
Uses(l) == binds[l] \cup (IF Alive(l) THEN ports[l] ELSE {})

PortsExclusive ==
    \A l, k \in Launches : l # k => Uses(l) \cap Uses(k) = {}

\* A port is leased exactly while a launch has it, but for those that a
\* refused bind forgot: no other way a launch may end loses one, and none
\* comes back while its engine may still want to bind it.
LeasesAreHeld ==
    /\ lost \subseteq leased
    /\ leased \ lost = UNION {ports[l] : l \in Launches}

\* However many calls want engines per node at once, at most MaxProcs run.
PerNodeCap ==
    Cardinality({l \in Launches : Alive(l) /\ Call(l) \notin Batched}) <= MaxProcs

\* A call neither waits for itself nor for another one for ever, though it
\* holds a permit of its own while it waits for a common one.
CallsReturn ==
    \A c \in Calls : caller[c] = "active" ~> caller[c] \in {"returned", "gone"}
=============================================================================

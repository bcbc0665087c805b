---------------------------- MODULE EngineProofs ----------------------------
(***************************************************************************)
(* Ports and permits of the engines, for any number of calls, launches,    *)
(* ports and permits, whatever fails and whoever is dropped.               *)
(***************************************************************************)
EXTENDS Engine, FiniteSetTheorems, TLAPS

Types ==
    /\ caller \in [Calls -> {"active", "gone", "returned"}]
    /\ stage \in [Launches -> Stages]
    /\ ports \in [Launches -> SUBSET Ports]
    /\ leased \in SUBSET Ports
    /\ lost \in SUBSET Ports
    /\ engine \in [Launches -> {"none", "starting", "listening"}]
    /\ binds \in [Launches -> SUBSET Ports]

Early == {"none", "queued", "choosing", "leased"}

\* What the ports of a launch have to do with where it is.
Placed ==
    \A l \in Launches :
       /\ Alive(l) => stage[l] = "running"
       /\ engine[l] = "listening" => binds[l] \subseteq ports[l]
       /\ engine[l] = "starting" => binds[l] = {}
       /\ stage[l] \in Early => binds[l] = {}
       /\ ports[l] \subseteq leased

\* Leases exclude each other, and a port some process still listens on.
Apart ==
    \A l, k \in Launches : l # k =>
       /\ ports[l] \cap ports[k] = {}
       /\ binds[l] \cap binds[k] = {}
       /\ binds[l] \cap ports[k] = {}

PortInv == Types /\ Placed /\ Apart

-----------------------------------------------------------------------------
(* The actions that touch ports, one lemma each. *)

LEMMA RegistersPorts ==
  ASSUME PortInv, NEW l \in Launches, NEW p \in Ports,
         stage[l] = "choosing", p \notin Bound, p \notin leased, Registers(l, p)
  PROVE  PortInv'
<1>1. \A k \in Launches : p \notin binds[k] /\ p \notin ports[k]
  BY DEF PortInv, Placed, Bound
<1>2. /\ ports' = [ports EXCEPT ![l] = ports[l] \cup {p}]
      /\ leased' = leased \cup {p}
      /\ stage' = [stage EXCEPT ![l] = "leased"] \/ stage' = stage
      /\ caller' = caller /\ engine' = engine /\ binds' = binds /\ lost' = lost
  BY DEF Registers, Goes
<1>3. Types'
  BY <1>2 DEF PortInv, Types, Stages
<1>4. \A k \in Launches : ports'[k] = IF k = l THEN ports[l] \cup {p} ELSE ports[k]
  BY <1>2 DEF PortInv, Types
<1>5. \A k \in Launches : stage'[k] = stage[k] \/ (k = l /\ stage'[k] = "leased")
  BY <1>2 DEF PortInv, Types
<1>6. Placed'
  BY <1>1, <1>2, <1>4, <1>5 DEF PortInv, Placed, Alive, Early
<1>7. Apart'
  <2> SUFFICES ASSUME NEW i \in Launches, NEW k \in Launches, i # k
               PROVE  /\ ports'[i] \cap ports'[k] = {}
                      /\ binds'[i] \cap binds'[k] = {}
                      /\ binds'[i] \cap ports'[k] = {}
    BY DEF Apart
  <2> QED BY <1>1, <1>2, <1>4 DEF PortInv, Apart
<1> QED BY <1>3, <1>6, <1>7 DEF PortInv

\* A launch closes: its lease goes back, or is lost.
LEMMA ClosesPorts ==
  ASSUME PortInv, NEW l \in Launches, ~Alive(l), Closes(l),
         leased' \in {leased, leased \ ports[l]},
         lost' \in {lost, lost \cup ports[l]},
         UNCHANGED <<caller, engine, binds>>
  PROVE  PortInv'
<1>1. \A k \in Launches : ports'[k] = IF k = l THEN {} ELSE ports[k]
  BY DEF PortInv, Types, Closes
<1>2. \A k \in Launches : stage'[k] = IF k = l THEN "closed" ELSE stage[k]
  BY DEF PortInv, Types, Closes, Goes
<1>3. Types'
  BY DEF PortInv, Types, Stages, Closes, Goes
<1>4. Placed'
  BY <1>1, <1>2 DEF PortInv, Placed, Apart, Alive, Early
<1>5. Apart'
  BY <1>1 DEF PortInv, Apart
<1> QED BY <1>3, <1>4, <1>5 DEF PortInv

\* The stage of a launch changes, its ports and its engine do not.
LEMMA GoesPorts ==
  ASSUME PortInv, NEW l \in Launches, NEW to \in Stages, ~Alive(l),
         to \in Early => stage[l] \in Early, Goes(l, to),
         UNCHANGED <<caller, ports, leased, lost, engine, binds>>
  PROVE  PortInv'
<1>1. \A k \in Launches : stage'[k] = IF k = l THEN to ELSE stage[k]
  BY DEF PortInv, Types, Goes
<1>2. Types'
  BY DEF PortInv, Types, Goes
<1>3. Placed'
  BY <1>1 DEF PortInv, Placed, Alive, Early
<1>4. Apart'
  BY DEF PortInv, Apart
<1> QED BY <1>2, <1>3, <1>4 DEF PortInv

-----------------------------------------------------------------------------
LEMMA PortStep == PortInv /\ [Next]_vars => PortInv'
<1> SUFFICES ASSUME PortInv, [Next]_vars PROVE PortInv'
  OBVIOUS
<1>1. ASSUME UNCHANGED vars PROVE PortInv'
  BY <1>1 DEF PortInv, Types, Placed, Apart, Alive, vars
<1>2. ASSUME NEW c \in Calls, Return(c) PROVE PortInv'
  BY <1>2 DEF Return, PortInv, Types, Placed, Apart, Alive
<1>3. ASSUME NEW c \in Calls, Disconnect(c) PROVE PortInv'
  <2>1. UNCHANGED <<ports, leased, lost, binds>>
    BY <1>3 DEF Disconnect
  <2>2. /\ caller' \in [Calls -> {"active", "gone", "returned"}]
        /\ stage' \in [Launches -> Stages]
        /\ engine' \in [Launches -> {"none", "starting", "listening"}]
    BY <1>3 DEF Disconnect, PortInv, Types, Stages
  <2>3. \A l \in Launches :
          \/ stage'[l] = stage[l] /\ engine'[l] = engine[l]
          \/ stage[l] = "queued" /\ stage'[l] = "closed" /\ engine'[l] = engine[l]
          \/ stage[l] = "running" /\ stage'[l] = "killed" /\ engine'[l] = "none"
    BY <1>3 DEF Disconnect
  <2>4. Placed'
    BY <2>1, <2>3 DEF PortInv, Placed, Alive, Early
  <2>5. Types' /\ Apart'
    BY <2>1, <2>2 DEF PortInv, Types, Apart
  <2> QED BY <2>4, <2>5 DEF PortInv
<1>4. ASSUME NEW l \in Launches, NextBatch(l) \/ TakeLocal(l) \/ TakeGlobal(l)
      PROVE  PortInv'
  <2>1. stage[l] \in Early /\ ~Alive(l)
    BY <1>4 DEF NextBatch, TakeLocal, TakeGlobal, PortInv, Placed, Early
  <2>2. PICK to \in {"choosing", "queued"} :
           Goes(l, to) /\ UNCHANGED <<caller, ports, leased, lost, engine, binds>>
    BY <1>4 DEF NextBatch, TakeLocal, TakeGlobal
  <2> QED BY <2>1, <2>2, GoesPorts DEF Stages
<1>5. ASSUME NEW l \in Launches, Allocate(l) PROVE PortInv'
  <2>1. ~Alive(l)
    BY <1>5 DEF Allocate, PickPort, GiveUp, BindFail, Skip, PortInv, Placed
  <2>2. CASE \E p \in Ports : PickPort(l, p)
    BY <2>2, RegistersPorts DEF PickPort
  <2>3. CASE GiveUp(l) \/ BindFail(l) \/ Skip(l)
    BY <2>1, <2>3, ClosesPorts DEF GiveUp, BindFail, Skip
  <2> QED BY <1>5, <2>2, <2>3 DEF Allocate
<1>6. ASSUME NEW l \in Launches, Spawn(l) PROVE PortInv'
  <2>1. binds[l] = {} /\ UNCHANGED <<caller, ports, leased, binds>>
    BY <1>6 DEF Spawn, PortInv, Placed, Early
  <2>2. \A k \in Launches : /\ stage'[k] = IF k = l THEN "running" ELSE stage[k]
                            /\ engine'[k] = IF k = l THEN "starting" ELSE engine[k]
    BY <1>6 DEF Spawn, Goes, PortInv, Types
  <2>3. Types'
    BY <1>6 DEF Spawn, Goes, PortInv, Types, Stages
  <2>4. Placed' /\ Apart'
    BY <2>1, <2>2 DEF PortInv, Placed, Apart, Alive, Early
  <2> QED BY <2>3, <2>4 DEF PortInv
<1>7. ASSUME NEW l \in Launches, NotSpawned(l) \/ Release(l) PROVE PortInv'
  <2>1. ~Alive(l)
    BY <1>7 DEF NotSpawned, Release, PortInv, Placed
  <2> QED BY <1>7, <2>1, ClosesPorts DEF NotSpawned, Release
<1>8. ASSUME NEW l \in Launches, Listen(l) PROVE PortInv'
  <2>1. \A k \in Launches : /\ binds'[k] = IF k = l THEN ports[l] ELSE binds[k]
                            /\ engine'[k] = IF k = l THEN "listening" ELSE engine[k]
    BY <1>8 DEF Listen, PortInv, Types
  <2>2. Types' /\ UNCHANGED <<stage, ports, leased>> /\ stage[l] = "running"
    BY <1>8 DEF Listen, PortInv, Types, Placed, Alive
  <2>3. Placed'
    BY <2>1, <2>2 DEF PortInv, Placed, Alive, Early
  <2>4. Apart'
    <3> SUFFICES ASSUME NEW i \in Launches, NEW k \in Launches, i # k
                 PROVE  /\ ports[i] \cap ports[k] = {}
                        /\ binds'[i] \cap binds'[k] = {}
                        /\ binds'[i] \cap ports[k] = {}
      BY <2>2 DEF Apart
    <3> QED BY <2>1 DEF PortInv, Apart
  <2> QED BY <2>2, <2>3, <2>4 DEF PortInv
<1>9. ASSUME NEW l \in Launches, Crash(l) \/ Die(l) PROVE PortInv'
  <2>1. \A k \in Launches : /\ binds'[k] = IF k = l THEN {} ELSE binds[k]
                            /\ engine'[k] = engine[k] \/ engine'[k] = "none"
                            /\ k # l => engine'[k] = engine[k]
    BY <1>9 DEF Crash, Die, PortInv, Types
  <2>2. Types' /\ UNCHANGED <<stage, ports, leased>>
    BY <1>9 DEF Crash, Die, PortInv, Types
  <2>3. Placed' /\ Apart'
    BY <2>1, <2>2 DEF PortInv, Placed, Apart, Alive, Early
  <2> QED BY <2>2, <2>3 DEF PortInv
<1>10. ASSUME NEW l \in Launches, Kill(l) PROVE PortInv'
  <2>1. \A k \in Launches : /\ stage'[k] = IF k = l THEN "killed" ELSE stage[k]
                            /\ engine'[k] = IF k = l THEN "none" ELSE engine[k]
    BY <1>10 DEF Kill, Goes, PortInv, Types
  <2>2. Types' /\ UNCHANGED <<ports, leased, binds>>
    BY <1>10 DEF Kill, Goes, PortInv, Types, Stages
  <2>3. Placed' /\ Apart'
    BY <2>1, <2>2 DEF PortInv, Placed, Apart, Alive, Early
  <2> QED BY <2>2, <2>3 DEF PortInv
<1>11. ASSUME NEW l \in Launches, Step(l) PROVE PortInv'
  BY <1>4, <1>5, <1>6, <1>7, <1>8, <1>9, <1>10, <1>11 DEF Step, Launch
<1> QED BY <1>1, <1>2, <1>3, <1>11 DEF Next, Over

LEMMA PortInit == Init => PortInv
BY DEF Init, PortInv, Types, Placed, Apart, Stages, Alive, Early

\* For any calls and any ports, no two engines are ever given the same port,
\* from their launch until their processes are gone.
THEOREM PortsNeverClash == Spec => []PortsExclusive
<1>1. PortInv => PortsExclusive
  <2> SUFFICES ASSUME PortInv, NEW l \in Launches, NEW k \in Launches, l # k
               PROVE  Uses(l) \cap Uses(k) = {}
    BY DEF PortsExclusive
  <2> QED BY DEF PortInv, Apart, Uses
<1> QED BY <1>1, PortInit, PortStep, PTL DEF Spec

-----------------------------------------------------------------------------
(* Leases: only a refused bind loses one. *)

LEMMA LeaseStep == PortInv /\ LeasesAreHeld /\ [Next]_vars => LeasesAreHeld'
<1> SUFFICES ASSUME PortInv, LeasesAreHeld, [Next]_vars PROVE LeasesAreHeld'
  OBVIOUS
<1>1. CASE UNCHANGED <<ports, leased, lost>>
  BY <1>1 DEF LeasesAreHeld
<1>2. ASSUME NEW l \in Launches, NEW p \in Ports, PickPort(l, p)
      PROVE  LeasesAreHeld'
  <2>1. leased' = leased \cup {p} /\ lost' = lost /\ p \notin leased
    BY <1>2 DEF PickPort, Registers
  <2>2. \A k \in Launches : ports'[k] = IF k = l THEN ports[l] \cup {p} ELSE ports[k]
    BY <1>2 DEF PickPort, Registers, PortInv, Types
  <2> QED BY <2>1, <2>2 DEF LeasesAreHeld
<1>3. ASSUME NEW l \in Launches, Closes(l),
             \/ leased' = leased \ ports[l] /\ lost' = lost
             \/ leased' = leased /\ lost' = lost \cup ports[l]
      PROVE  LeasesAreHeld'
  <2>1. \A k \in Launches : ports'[k] = IF k = l THEN {} ELSE ports[k]
    BY <1>3 DEF Closes, PortInv, Types
  <2>2. \A k \in Launches : k # l => ports[k] \cap ports[l] = {}
    BY DEF PortInv, Apart
  <2>3. ports[l] \subseteq leased \ lost
    BY DEF LeasesAreHeld
  <2> QED BY <1>3, <2>1, <2>2, <2>3 DEF LeasesAreHeld
<1>4. ASSUME NEW l \in Launches, Step(l) PROVE LeasesAreHeld'
  <2>1. CASE NextBatch(l) \/ TakeLocal(l) \/ TakeGlobal(l) \/ Spawn(l)
             \/ Listen(l) \/ Crash(l) \/ Kill(l) \/ Die(l)
    BY <1>1, <2>1 DEF NextBatch, TakeLocal, TakeGlobal, Spawn, Listen, Crash, Kill, Die
  <2>2. CASE \E p \in Ports : PickPort(l, p)
    BY <1>2, <2>2
  <2>3. CASE GiveUp(l) \/ BindFail(l) \/ NotSpawned(l) \/ Release(l)
    BY <1>3, <2>3 DEF GiveUp, BindFail, NotSpawned, Release
  <2>4. CASE Skip(l)
    <3>1. \A k \in Launches : ports'[k] = ports[k]
      BY <2>4 DEF Skip, Closes, PortInv, Types
    <3> QED BY <2>4, <3>1 DEF Skip, LeasesAreHeld
  <2> QED BY <1>4, <2>1, <2>2, <2>3, <2>4 DEF Step, Allocate, Launch
<1> QED BY <1>1, <1>4 DEF Next, Return, Disconnect, Over, vars

\* A port is leased exactly while a launch has it, but for those a refused
\* bind forgot.
THEOREM LeasesComeBack == Spec => []LeasesAreHeld
<1>1. Init => LeasesAreHeld
  BY DEF Init, LeasesAreHeld
<1> QED BY <1>1, LeaseStep, PortInit, PortStep, PTL DEF Spec

-----------------------------------------------------------------------------
(* Permits. *)

Holders == {k \in Launches : HoldsGlobal(k)}

PermitInv == Cardinality(Holders) <= MaxProcs

LEMMA LaunchesFinite == IsFiniteSet(Launches)
<1> DEFINE own == [c \in Calls |-> {c} \X (1 .. Size[c])]
<1> DEFINE all == {{c} \X (1 .. Size[c]) : c \in Calls}
<1>1. ASSUME NEW c \in Calls PROVE IsFiniteSet({c} \X (1 .. Size[c]))
  <2>1. Size[c] \in Int
    BY EngineAssumption
  <2>2. IsFiniteSet(1 .. Size[c])
    BY <2>1, FS_Interval
  <2>3. IsFiniteSet({c})
    BY FS_Singleton
  <2> QED BY <2>2, <2>3, FS_Product
<1>2. own \in Surjection(Calls, all)
  BY DEF Surjection
<1>3. IsFiniteSet(all)
  BY <1>2, FS_Surjection, EngineAssumption
<1>4. \A T \in all : IsFiniteSet(T)
  BY <1>1
<1> QED BY <1>3, <1>4, FS_UNION DEF Launches

LEMMA SubsetNotLarger ==
  ASSUME NEW S \in SUBSET Launches, NEW T \in SUBSET S
  PROVE  /\ IsFiniteSet(S) /\ IsFiniteSet(T)
         /\ Cardinality(S) \in Nat /\ Cardinality(T) \in Nat
         /\ Cardinality(T) <= Cardinality(S)
BY LaunchesFinite, FS_Subset, FS_CardinalityType

LEMMA PermitStep == PortInv /\ PermitInv /\ [Next]_vars => PermitInv'
<1> SUFFICES ASSUME PortInv, PermitInv, [Next]_vars PROVE PermitInv'
  OBVIOUS
<1>1. Holders \in SUBSET Launches /\ Holders' \in SUBSET Launches
  BY DEF Holders
<1>2. MaxProcs \in Nat
  BY EngineAssumption
<1>3. ASSUME Holders' \subseteq Holders PROVE PermitInv'
  BY <1>1, <1>2, <1>3, SubsetNotLarger DEF PermitInv
<1>4. ASSUME NEW l \in Launches, TakeGlobal(l) PROVE PermitInv'
  <2>1. \A k \in Launches : stage'[k] = IF k = l THEN "choosing" ELSE stage[k]
    BY <1>4 DEF TakeGlobal, Goes, PortInv, Types
  <2>2. Holders' \subseteq Holders \cup {l}
    BY <2>1 DEF Holders, HoldsGlobal, HoldsLocal
  <2>3. Cardinality(Holders) < MaxProcs
    BY <1>4 DEF TakeGlobal, Holders
  <2>4. Cardinality(Holders \cup {l}) <= Cardinality(Holders) + 1
    BY <1>1, SubsetNotLarger, FS_AddElement
  <2>5. Holders \cup {l} \in SUBSET Launches
    BY <1>1
  <2> QED BY <1>1, <1>2, <2>2, <2>3, <2>4, <2>5, SubsetNotLarger DEF PermitInv
<1>5. ASSUME NEW l \in Launches, Step(l), ~TakeGlobal(l) PROVE Holders' \subseteq Holders
  <2>1. CASE UNCHANGED stage
    BY <2>1 DEF Holders, HoldsGlobal, HoldsLocal
  <2>2. CASE NextBatch(l)
    BY <2>2 DEF NextBatch, Goes, Holders, HoldsGlobal, HoldsLocal, PortInv, Types
  <2>3. CASE TakeLocal(l)
    BY <2>3 DEF TakeLocal, Goes, Holders, HoldsGlobal, HoldsLocal, PortInv, Types
  <2>4. ASSUME NEW to \in Stages, Goes(l, to), stage[l] \notin {"none", "queued", "closed"}
        PROVE  Holders' \subseteq Holders
    BY <2>4 DEF Goes, Holders, HoldsGlobal, HoldsLocal, PortInv, Types
  <2>5. CASE Allocate(l) \/ Launch(l) \/ Kill(l) \/ Release(l)
    BY <2>1, <2>4, <2>5 DEF Allocate, PickPort, Registers, GiveUp, BindFail, Skip, Launch, Spawn,
                            NotSpawned, Kill, Release, Closes, Stages
  <2>6. CASE Listen(l) \/ Crash(l) \/ Die(l)
    BY <2>1, <2>6 DEF Listen, Crash, Die
  <2> QED BY <1>5, <2>2, <2>3, <2>5, <2>6 DEF Step
<1>6. ASSUME NEW c \in Calls, Disconnect(c) PROVE Holders' \subseteq Holders
  <2>1. \A l \in Launches : stage'[l] = stage[l] \/ stage'[l] = "closed"
                               \/ (stage[l] = "running" /\ stage'[l] = "killed")
    BY <1>6 DEF Disconnect
  <2> QED BY <2>1 DEF Holders, HoldsGlobal, HoldsLocal
<1>7. ASSUME UNCHANGED stage PROVE Holders' \subseteq Holders
  BY <1>7 DEF Holders, HoldsGlobal, HoldsLocal
<1> QED BY <1>3, <1>4, <1>5, <1>6, <1>7 DEF Next, Return, Over, vars

\* However many calls launch engines per node, at most MaxProcs of these run.
THEOREM EnginesPerNodeAreCapped == Spec => []PerNodeCap
<1>1. Init => PermitInv
  <2>1. ASSUME Init PROVE Holders = {}
    BY <2>1 DEF Init, Holders, HoldsGlobal, HoldsLocal
  <2> QED BY <2>1, FS_EmptySet, EngineAssumption DEF PermitInv
<1>2. PortInv /\ PermitInv => PerNodeCap
  <2> SUFFICES ASSUME PortInv, PermitInv PROVE PerNodeCap
    OBVIOUS
  <2>1. {l \in Launches : Alive(l) /\ Call(l) \notin Batched} \subseteq Holders
    BY DEF PortInv, Placed, Holders, HoldsGlobal, HoldsLocal
  <2>2. Holders \in SUBSET Launches /\ MaxProcs \in Nat
    BY EngineAssumption DEF Holders
  <2> QED BY <2>1, <2>2, SubsetNotLarger DEF PermitInv, PerNodeCap
<1> QED BY <1>1, <1>2, PermitStep, PortInit, PortStep, PTL DEF Spec

-----------------------------------------------------------------------------
(* No launch has more ports than it asked for. *)

\* One that is still choosing lacks some; one that has yet to choose has none.
ShareInv ==
  \A l \in Launches :
     /\ Cardinality(ports[l]) <= Needed(l)
     /\ stage[l] = "choosing" => Cardinality(ports[l]) < Needed(l)
     /\ stage[l] \in {"none", "queued"} => ports[l] = {}

\* A step that takes no port and does not go back to choosing with some.
LEMMA ShareKept ==
  ASSUME PortInv, ShareInv,
         \A l \in Launches :
            /\ ports'[l] \in {ports[l], {}}
            /\ stage'[l] \in {"none", "queued"} => ports'[l] = {}
            /\ stage'[l] = "choosing" => stage[l] = "choosing" \/ ports'[l] = {}
  PROVE  ShareInv'
<1>. SUFFICES ASSUME NEW l \in Launches
              PROVE  /\ Cardinality(ports'[l]) <= Needed(l)
                     /\ stage'[l] = "choosing" => Cardinality(ports'[l]) < Needed(l)
  BY DEF ShareInv, Needed
<1>1. Cardinality({}) = 0 /\ Needed(l) \in {1, 2}
  BY FS_EmptySet DEF Needed
<1>2. CASE ports'[l] = {}
  BY <1>1, <1>2
<1>3. CASE ports'[l] = ports[l]
  BY <1>1, <1>2, <1>3 DEF ShareInv
<1>. QED BY <1>2, <1>3

LEMMA ShareStep == PortInv /\ ShareInv /\ [Next]_vars => ShareInv'
<1>. SUFFICES ASSUME PortInv, ShareInv, [Next]_vars PROVE ShareInv'
  OBVIOUS
<1>. DEFINE Keeps(k) == /\ ports'[k] \in {ports[k], {}}
                        /\ stage'[k] \in {"none", "queued"} => ports'[k] = {}
                        /\ stage'[k] = "choosing" => stage[k] = "choosing" \/ ports'[k] = {}
<1>1. \A k \in Launches : stage[k] \in {"none", "queued"} => ports[k] = {}
  BY DEF ShareInv
<1>2. ASSUME UNCHANGED <<stage, ports>> PROVE ShareInv'
  <2>1. \A k \in Launches : Keeps(k)
    BY <1>1, <1>2
  <2>. QED BY <2>1, ShareKept
<1>3. ASSUME NEW l \in Launches, NEW to \in Stages, Goes(l, to), ports' = ports,
             to \in {"choosing", "queued"} => ports[l] = {}, to # "none"
      PROVE  ShareInv'
  <2>1. \A k \in Launches : stage'[k] = IF k = l THEN to ELSE stage[k]
    BY <1>3 DEF Goes, PortInv, Types
  <2>2. \A k \in Launches : Keeps(k)
    BY <1>1, <1>3, <2>1
  <2>. QED BY <2>2, ShareKept
<1>4. ASSUME NEW l \in Launches, Closes(l) PROVE ShareInv'
  <2>1. \A k \in Launches : /\ stage'[k] = IF k = l THEN "closed" ELSE stage[k]
                            /\ ports'[k] = IF k = l THEN {} ELSE ports[k]
    BY <1>4 DEF Closes, Goes, PortInv, Types
  <2>2. \A k \in Launches : Keeps(k)
    BY <1>1, <2>1
  <2>. QED BY <2>2, ShareKept
<1>5. ASSUME NEW c \in Calls, Disconnect(c) PROVE ShareInv'
  <2>1. ports' = ports /\ \A k \in Launches : stage'[k] \in {stage[k], "killed", "closed"}
    BY <1>5 DEF Disconnect
  <2>2. \A k \in Launches : Keeps(k)
    BY <1>1, <2>1
  <2>. QED BY <2>2, ShareKept
<1>6. ASSUME NEW l \in Launches, NEW p \in Ports, PickPort(l, p) PROVE ShareInv'
  <2>1. \A k \in Launches : /\ ports'[k] = IF k = l THEN ports[l] \cup {p} ELSE ports[k]
                            /\ k # l => stage'[k] = stage[k]
    BY <1>6 DEF PickPort, Registers, Goes, PortInv, Types
  <2>2. stage'[l] = IF Cardinality(ports'[l]) = Needed(l) THEN "leased" ELSE "choosing"
    BY <1>6 DEF PickPort, Registers, Goes, PortInv, Types
  <2>3. Cardinality(ports'[l]) <= Needed(l)
    <3>1. IsFiniteSet(ports[l])
      BY FS_Subset, EngineAssumption DEF PortInv, Types
    <3>2. Cardinality(ports[l]) \in Nat /\ Cardinality(ports[l]) < Needed(l)
      BY <1>6, <3>1, FS_CardinalityType DEF PickPort, ShareInv
    <3>3. Cardinality(ports[l] \cup {p}) <= Cardinality(ports[l]) + 1
      BY <3>1, <3>2, FS_AddElement
    <3>4. Cardinality(ports[l] \cup {p}) \in Nat
      BY <3>1, FS_AddElement, FS_CardinalityType
    <3>. QED BY <2>1, <3>2, <3>3, <3>4 DEF Needed
  <2>4. Cardinality(ports'[l]) \in Nat
    <3>1. IsFiniteSet(ports[l])
      BY FS_Subset, EngineAssumption DEF PortInv, Types
    <3>. QED BY <2>1, <3>1, FS_AddElement, FS_CardinalityType
  <2>. QED BY <2>1, <2>2, <2>3, <2>4 DEF ShareInv, Needed
<1>7. ASSUME NEW l \in Launches, Step(l) PROVE ShareInv'
  <2>1. CASE NextBatch(l) \/ TakeLocal(l) \/ TakeGlobal(l)
    <3>1. ports[l] = {}
      BY <1>1, <2>1 DEF NextBatch, TakeLocal, TakeGlobal
    <3>. QED BY <1>3, <2>1, <3>1 DEF NextBatch, TakeLocal, TakeGlobal, Stages
  <2>2. CASE \E p \in Ports : PickPort(l, p)
    BY <1>6, <2>2
  <2>3. CASE GiveUp(l) \/ BindFail(l) \/ Skip(l) \/ NotSpawned(l) \/ Release(l)
    BY <1>4, <2>3 DEF GiveUp, BindFail, Skip, NotSpawned, Release
  <2>4. CASE Spawn(l) \/ Kill(l)
    BY <1>3, <2>4 DEF Spawn, Kill, Stages
  <2>5. CASE Listen(l) \/ Crash(l) \/ Die(l)
    BY <1>2, <2>5 DEF Listen, Crash, Die
  <2>. QED BY <1>7, <2>1, <2>2, <2>3, <2>4, <2>5 DEF Step, Allocate, Launch
<1>8. CASE UNCHANGED <<stage, ports>>
  BY <1>2, <1>8
<1>. QED BY <1>5, <1>7, <1>8 DEF Next, Return, Over, vars

\* Every variable of calls, launches and engines has its type, and no launch
\* is given more ports than it asked for.
THEOREM TypeCorrect == Spec => []TypeOK
<1>1. Init => ShareInv
  <2>1. Cardinality({}) = 0
    BY FS_EmptySet
  <2>. QED BY <2>1 DEF Init, ShareInv, Needed
<1>2. PortInv /\ ShareInv => TypeOK
  BY DEF PortInv, Types, ShareInv, TypeOK
<1>. QED BY <1>1, <1>2, ShareStep, PortInit, PortStep, PTL DEF Spec
=============================================================================

------------------------------ MODULE Settings ------------------------------
(***************************************************************************)
(* The settings SubHub keeps twice: in AppState, where everything reads    *)
(* them, and in the meta table, where a restart finds them.  A request      *)
(* writes the one and then the other, with no lock held across the two.    *)
(*                                                                         *)
(* Two settings stand for all of them: the refresh interval for those that *)
(* are numbers, the engine for those that are texts and may be cleared;    *)
(* the third is gist_id, which only an upload writes.                      *)
(***************************************************************************)
EXTENDS Naturals, FiniteSets

CONSTANTS
    Requests,       \* handlers that may be under way at one time
    Intervals,      \* the intervals a request may ask for, in seconds
    Engines,        \* paths of an engine a request may ask for
    Gists,          \* ids of the gists GitHub may create
    Environments,   \* what the environment may set the interval and engine to
    None,           \* no value
    Absent,         \* no row in the meta table
    MetaFails       \* may a write to the meta table fail?

Interval == "auto_refresh_sec"
Engine == "engine_bin"
GistId == "gist_id"
Fields == {Interval, Engine, GistId}

ASSUME SettingsAssumption ==
    /\ Intervals \subseteq Nat
    /\ \A e \in Environments :
          /\ e[Interval] \in Nat
          /\ e[Engine] \in Engines \cup {None}
          /\ e[GistId] = None
    /\ None \notin Nat \cup Engines \cup Gists
    /\ Absent \notin Nat \cup Engines \cup Gists \cup {None}
    /\ MetaFails \in BOOLEAN

VARIABLES
    env,        \* the environment the server is started in
    state,      \* AppState: the settings in memory
    meta,       \* the meta table
    pc,         \* where each handler is
    job,        \* the setting it writes, and the value
    alone,      \* history: has no other handler written it meanwhile?
    unsaved     \* history: settings whose last write raced or failed

settings == <<env, state, meta>>
handlers == <<pc, job, alone>>

-----------------------------------------------------------------------------
MinSchedulerSec == 60

\* Mutant: no lower limit.
ClampNothing(sec) == sec

\* clamp_schedule: off, or not more often than once a minute.
ClampSchedule(sec) == IF sec # 0 /\ sec < MinSchedulerSec THEN MinSchedulerSec ELSE sec

Values(f) == CASE f = Interval -> {s \in Nat : s = 0 \/ s >= MinSchedulerSec}
               [] f = Engine -> Engines \cup {None}
               [] f = GistId -> Gists \cup {None}

Settable == Nat \cup Engines \cup Gists \cup {None}

\* What start-up makes of a row: a number counts once it is there, a text
\* only when it is not empty (`None` is stored as the empty text).
Load(f, saved) ==
    IF f = Interval THEN ClampSchedule(IF saved = Absent THEN env[f] ELSE saved)
    ELSE IF saved \in {Absent, None} THEN env[f] ELSE saved

NoJob == [field |-> GistId, value |-> None]

\* A request for f asks for one of these; an interval is clamped.
Requested(f) == CASE f = Interval -> {ClampSchedule(s) : s \in Intervals}
                  [] f = Engine -> Engines \cup {None}
                  [] f = GistId -> {}

SettingsInit ==
    /\ env \in Environments
    /\ meta = [f \in Fields |-> Absent]
    /\ state = [f \in Fields |-> Load(f, meta[f])]
    /\ pc = [r \in Requests |-> "idle"]
    /\ job = [r \in Requests |-> NoJob]
    /\ alone = [r \in Requests |-> TRUE]
    /\ unsaved = {}

\* Handlers between their two writes of f.
Pending(f) == {r \in Requests : pc[r] = "stored" /\ job[r].field = f}

\* The first write, under the lock of the setting: AppState has the value.
Store(r, f, v) ==
    /\ state' = [state EXCEPT ![f] = v]
    /\ job' = [job EXCEPT ![r] = [field |-> f, value |-> v]]
    /\ alone' = [p \in Requests |->
                   IF p = r THEN Pending(f) = {} ELSE alone[p] /\ p \notin Pending(f)]
    /\ pc' = [pc EXCEPT ![r] = "stored"]

\* apply_settings, one setting: a request that sets several is several.
Apply(r, f, v) ==
    /\ pc[r] = "idle"
    /\ v \in Requested(f)
    /\ Store(r, f, v)
    /\ UNCHANGED <<env, meta, unsaved>>

\* The handler returns.
Return(r) ==
    /\ pc' = [pc EXCEPT ![r] = "idle"]
    /\ job' = [job EXCEPT ![r] = NoJob]
    /\ alone' = [alone EXCEPT ![r] = TRUE]

\* Mutant: a setting that was cleared is not written to the table.
MetaSetKeepsCleared(r) ==
    LET f == job[r].field
    IN  /\ pc[r] = "stored"
        /\ meta' = IF job[r].value = None THEN meta
                   ELSE [meta EXCEPT ![f] = job[r].value]
        /\ unsaved' = IF alone[r] THEN unsaved \ {f} ELSE unsaved \cup {f}
        /\ Return(r)
        /\ UNCHANGED <<env, state>>

\* The second write, to the meta table: it may fail and nobody is told.
MetaSet(r) ==
    LET f == job[r].field
    IN  /\ pc[r] = "stored"
        /\ \/ /\ meta' = [meta EXCEPT ![f] = job[r].value]
              /\ unsaved' = IF alone[r] THEN unsaved \ {f} ELSE unsaved \cup {f}
           \/ /\ MetaFails
              /\ UNCHANGED meta
              /\ unsaved' = unsaved \cup {f}
        /\ Return(r)
        /\ UNCHANGED <<env, state>>

-----------------------------------------------------------------------------
SettingsTypeOK ==
    /\ env \in Environments
    /\ state \in [Fields -> Settable]
    /\ meta \in [Fields -> Settable \cup {Absent}]
    /\ \A f \in Fields : state[f] \in Values(f) /\ meta[f] \in Values(f) \cup {Absent}
    /\ pc \in [Requests -> {"idle", "stored", "waiting", "ready", "sent", "answered"}]
    /\ job \in [Requests -> [field : Fields, value : Settable]]
    /\ \A r \in Requests : job[r].value \in Values(job[r].field)
    /\ alone \in [Requests -> BOOLEAN]
    /\ unsaved \subseteq Fields
=============================================================================

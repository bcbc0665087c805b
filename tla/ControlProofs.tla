--------------------------- MODULE ControlProofs ----------------------------
(***************************************************************************)
(* Proofs about the settings and the uploads: their types, that what is     *)
(* settled survives a restart, that no gist is lost track of and that none  *)
(* is put back to older content.                                            *)
(***************************************************************************)
EXTENDS Control, TLAPS

USE SettingsAssumption, GistAssumption, ControlAssumption

-----------------------------------------------------------------------------
(* The settings. *)

\* What the values of each setting are.
LEMMA ValuesAre ==
    /\ Values(Interval) = {s \in Nat : s = 0 \/ s >= MinSchedulerSec}
    /\ Values(Engine) = Engines \cup {None}
    /\ Values(GistId) = Gists \cup {None}
    /\ \A f \in Fields : Values(f) \subseteq Settable
    /\ \A f \in Fields : Absent \notin Values(f)
<1>1. Interval # Engine /\ Interval # GistId /\ Engine # GistId
  BY DEF Interval, Engine, GistId
<1>2. Values(Interval) = {s \in Nat : s = 0 \/ s >= MinSchedulerSec}
  BY <1>1 DEF Values
<1>3. Values(Engine) = Engines \cup {None}
  BY <1>1 DEF Values
<1>4. Values(GistId) = Gists \cup {None}
  BY <1>1 DEF Values
<1> QED BY <1>2, <1>3, <1>4 DEF Settable, Fields

\* A clamped interval is off or long enough, and clamping it again changes
\* nothing.
LEMMA Clamped ==
    ASSUME NEW sec \in Nat
    PROVE  /\ ClampSchedule(sec) \in Values(Interval)
           /\ sec \in Values(Interval) => ClampSchedule(sec) = sec
BY ValuesAre DEF ClampSchedule, MinSchedulerSec

\* What start-up makes of a row is a value of the setting.
LEMMA Loaded ==
    ASSUME NEW f \in Fields, env \in Environments, NEW v \in Values(f) \cup {Absent}
    PROVE  Load(f, v) \in Values(f)
<1>1. CASE f = Interval
  <2>1. v = Absent \/ v \in Nat
    BY <1>1, ValuesAre
  <2>2. (IF v = Absent THEN env[f] ELSE v) \in Nat
    BY <1>1, <2>1
  <2>3. Load(f, v) = ClampSchedule(IF v = Absent THEN env[f] ELSE v)
    BY <1>1 DEF Load
  <2> QED BY <1>1, <2>2, <2>3, Clamped
<1>2. CASE f = Engine
  BY <1>2, ValuesAre DEF Load, Interval, Engine
<1>3. CASE f = GistId
  BY <1>3, ValuesAre DEF Load, Interval, GistId
<1> QED BY <1>1, <1>2, <1>3 DEF Fields

\* Start-up finds a value that was written, unless it is "none" and the
\* environment has one.
LEMMA Reloaded ==
    ASSUME NEW f \in Fields, env \in Environments, NEW v \in Values(f),
           v = None => env[f] = None
    PROVE  Load(f, v) = v
<1>1. v # Absent
  BY ValuesAre
<1>2. CASE f = Interval
  BY <1>1, <1>2, ValuesAre, Clamped DEF Load
<1>3. CASE f # Interval
  BY <1>1, <1>3 DEF Load
<1> QED BY <1>2, <1>3

\* A request asks for a value of its setting, and never for a gist id.
LEMMA Asked ==
    ASSUME NEW f \in Fields, NEW v \in Requested(f)
    PROVE  v \in Values(f) /\ f # GistId
<1>1. Interval # Engine /\ Interval # GistId /\ Engine # GistId
  BY DEF Interval, Engine, GistId
<1>2. CASE f = Interval
  <2>1. PICK s \in Intervals : v = ClampSchedule(s)
    BY <1>1, <1>2 DEF Requested
  <2>2. ClampSchedule(s) \in Values(Interval)
    BY Clamped
  <2> QED BY <1>1, <1>2, <2>1, <2>2
<1>3. CASE f = Engine
  BY <1>1, <1>3, ValuesAre DEF Requested
<1>4. CASE f = GistId
  BY <1>1, <1>4 DEF Requested
<1> QED BY <1>1, <1>2, <1>3, <1>4 DEF Fields

\* The first write of a value keeps the types.
LEMMA StoreTyped ==
    ASSUME SettingsTypeOK, NEW r \in Requests, NEW f \in Fields, NEW v \in Values(f),
           Store(r, f, v), env' = env, meta' = meta, unsaved' = unsaved
    PROVE  SettingsTypeOK'
<1>1. v \in Settable
  BY ValuesAre
<1>2. state' = [state EXCEPT ![f] = v]
      /\ job' = [job EXCEPT ![r] = [field |-> f, value |-> v]]
      /\ pc' = [pc EXCEPT ![r] = "stored"]
      /\ alone' = [p \in Requests |->
                   IF p = r THEN Pending(f) = {} ELSE alone[p] /\ p \notin Pending(f)]
  BY DEF Store
<1>3. state' \in [Fields -> Settable] /\ (\A g \in Fields : state'[g] \in Values(g))
  BY <1>1, <1>2 DEF SettingsTypeOK
<1>4. job' \in [Requests -> [field : Fields, value : Settable]]
  BY <1>1, <1>2 DEF SettingsTypeOK
<1>5. \A p \in Requests : job'[p].value \in Values(job'[p].field)
  BY <1>2 DEF SettingsTypeOK
<1>6. pc' \in [Requests -> {"idle", "stored", "waiting", "ready", "sent", "answered"}]
  BY <1>2 DEF SettingsTypeOK
<1>7. alone' \in [Requests -> BOOLEAN]
  BY <1>2 DEF SettingsTypeOK
<1> QED BY <1>3, <1>4, <1>5, <1>6, <1>7 DEF SettingsTypeOK

\* So does the second, whether it succeeds or not.
LEMMA MetaSetTyped ==
    ASSUME SettingsTypeOK, NEW r \in Requests, MetaSet(r)
    PROVE  SettingsTypeOK'
<1> DEFINE f == job[r].field
<1>1. f \in Fields /\ job[r].value \in Values(f) /\ job[r].value \in Settable
  BY ValuesAre DEF SettingsTypeOK
<1>2. (meta' = meta \/ meta' = [meta EXCEPT ![f] = job[r].value])
      /\ (unsaved' = unsaved \cup {f} \/ unsaved' = unsaved \ {f})
      /\ env' = env /\ state' = state
      /\ pc' = [pc EXCEPT ![r] = "idle"] /\ job' = [job EXCEPT ![r] = NoJob]
      /\ alone' = [alone EXCEPT ![r] = TRUE]
  BY DEF MetaSet, Return
<1>3. NoJob \in [field : Fields, value : Settable] /\ NoJob.value \in Values(NoJob.field)
  BY ValuesAre DEF NoJob, Fields, Settable
<1>4. meta' \in [Fields -> Settable \cup {Absent}]
  BY <1>1, <1>2 DEF SettingsTypeOK
<1>5. \A g \in Fields : meta'[g] \in Values(g) \cup {Absent}
  BY <1>1, <1>2 DEF SettingsTypeOK
<1>6. job' \in [Requests -> [field : Fields, value : Settable]]
  BY <1>2, <1>3 DEF SettingsTypeOK
<1>7. \A p \in Requests : job'[p].value \in Values(job'[p].field)
  BY <1>2, <1>3 DEF SettingsTypeOK
<1>8. unsaved' \subseteq Fields
  BY <1>1, <1>2 DEF SettingsTypeOK
<1>9. alone' \in [Requests -> BOOLEAN]
  BY <1>2 DEF SettingsTypeOK
<1>10. pc' \in [Requests -> {"idle", "stored", "waiting", "ready", "sent", "answered"}]
  BY <1>2 DEF SettingsTypeOK
<1>11. env' \in Environments /\ state' \in [Fields -> Settable]
       /\ \A g \in Fields : state'[g] \in Values(g)
  BY <1>2 DEF SettingsTypeOK
<1> QED BY <1>4, <1>5, <1>6, <1>7, <1>8, <1>9, <1>10, <1>11 DEF SettingsTypeOK

\* An upload that moves on without writing a setting keeps their types.
LEMMA MovesOn ==
    ASSUME SettingsTypeOK, NEW r \in Requests,
           NEW label \in {"idle", "waiting", "ready", "sent", "answered"}, Goto(r, label),
           UNCHANGED <<settings, job, alone, unsaved>>
    PROVE  SettingsTypeOK'
<1>1. pc' = [pc EXCEPT ![r] = label]
  BY DEF Goto
<1>2. pc' \in [Requests -> {"idle", "stored", "waiting", "ready", "sent", "answered"}]
  BY <1>1 DEF SettingsTypeOK
<1> QED BY <1>2 DEF SettingsTypeOK, settings

-----------------------------------------------------------------------------
(* The type invariant. *)

\* What a step of a handler does to the uploads keeps their types.
LEMMA BlankTyped ==
    ASSUME GistTypeOK, NEW r \in Requests, Blank(r)
    PROVE  built' \in [Requests -> 0 .. MaxVersion] /\ target' \in [Requests -> Gists \cup {None}]
BY DEF GistTypeOK, Blank

LEMMA PutTyped ==
    ASSUME GistTypeOK, NEW r \in Requests, NEW g \in Gists, Put(r, g)
    PROVE  content' \in [Gists -> 0 .. MaxVersion]
BY DEF GistTypeOK, Put

LEMMA BeginTyped ==
    ASSUME SettingsTypeOK, GistTypeOK, NEW r \in Requests, Begin(r)
    PROVE  SettingsTypeOK' /\ GistTypeOK'
<1>1. (Goto(r, "ready") \/ Goto(r, "idle")) /\ UNCHANGED <<settings, job, alone, unsaved>>
  BY DEF Begin
<1>2. SettingsTypeOK'
  BY <1>1, MovesOn
<1>3. state[GistId] \in Gists \cup {None}
  BY ValuesAre DEF SettingsTypeOK, Fields
<1>4. \/ /\ built' = [built EXCEPT ![r] = version]
         /\ target' = [target EXCEPT ![r] = state[GistId]]
      \/ built' = built /\ target' = target
  BY DEF Begin, upload
<1>5. built' \in [Requests -> 0 .. MaxVersion]
  BY <1>4 DEF GistTypeOK
<1>6. target' \in [Requests -> Gists \cup {None}]
  BY <1>3, <1>4 DEF GistTypeOK
<1>7. version' = version /\ content' = content /\ gone' = gone /\ orphans' = orphans
  BY DEF Begin, github
<1> QED BY <1>2, <1>5, <1>6, <1>7 DEF GistTypeOK

LEMMA UploadTyped ==
    ASSUME SettingsTypeOK, GistTypeOK, NEW r \in Requests, UploadStep(r)
    PROVE  SettingsTypeOK' /\ GistTypeOK'
<1>1. CASE Send(r)
  <2>1. SettingsTypeOK'
    BY <1>1, MovesOn DEF Send
  <2> QED BY <1>1, <2>1 DEF Send, GistTypeOK, upload, github
<1>2. CASE Accepted(r)
  <2>1. SettingsTypeOK'
    BY <1>2, MovesOn DEF Accepted
  <2>2. PICK g \in Gists : Put(r, g) /\ target' = [target EXCEPT ![r] = g]
    BY <1>2 DEF Accepted
  <2>3. content' \in [Gists -> 0 .. MaxVersion]
    BY <2>2, PutTyped
  <2>5. target' \in [Requests -> Gists \cup {None}]
    BY <2>2 DEF GistTypeOK
  <2> QED BY <1>2, <2>1, <2>3, <2>5 DEF Accepted, GistTypeOK
<1>3. CASE AnswerLost(r)
  <2>1. SettingsTypeOK'
    BY <1>3, MovesOn DEF AnswerLost
  <2>2. PICK g \in Gists : Put(r, g) /\ orphans' \in {orphans, orphans \cup {g}}
    BY <1>3 DEF AnswerLost
  <2>3. content' \in [Gists -> 0 .. MaxVersion]
    BY <2>2, PutTyped
  <2>4. orphans' \subseteq Gists
    BY <2>2 DEF GistTypeOK
  <2> QED BY <1>3, <2>1, <2>3, <2>4, BlankTyped DEF AnswerLost, GistTypeOK
<1>4. CASE Refused(r)
  <2>1. SettingsTypeOK'
    BY <1>4, MovesOn DEF Refused
  <2> QED BY <1>4, <2>1, BlankTyped DEF Refused, GistTypeOK, github
<1>5. CASE NotFound(r)
  <2>1. SettingsTypeOK'
    BY <1>5, MovesOn DEF NotFound
  <2>2. target' \in [Requests -> Gists \cup {None}]
    BY <1>5 DEF NotFound, GistTypeOK
  <2> QED BY <1>5, <2>1, <2>2 DEF NotFound, GistTypeOK, github
<1>6. CASE Remember(r)
  <2>1. target[r] \in Values(GistId) \/ target[r] = None
    BY ValuesAre DEF GistTypeOK
  <2>2. target[r] \in Values(GistId) /\ GistId \in Fields
    BY <2>1, ValuesAre DEF Fields
  <2>3. SettingsTypeOK'
    BY <1>6, <2>2, StoreTyped DEF Remember
  <2>4. orphans' \subseteq Gists
    BY <1>6 DEF Remember, GistTypeOK, Live
  <2> QED BY <1>6, <2>3, <2>4, BlankTyped DEF Remember, GistTypeOK, github
<1>7. CASE Nameless(r)
  <2>1. SettingsTypeOK'
    BY <1>7, MovesOn DEF Nameless
  <2>2. PICK g \in Gists : Put(r, g) /\ orphans' \in {orphans, orphans \cup {g}}
    BY <1>7 DEF Nameless
  <2>3. content' \in [Gists -> 0 .. MaxVersion]
    BY <2>2, PutTyped
  <2>4. orphans' \subseteq Gists
    BY <2>2 DEF GistTypeOK
  <2>5. target' \in [Requests -> Gists \cup {None}]
    BY <1>7 DEF Nameless, GistTypeOK
  <2> QED BY <1>7, <2>1, <2>3, <2>4, <2>5 DEF Nameless, GistTypeOK
<1> QED BY <1>1, <1>2, <1>3, <1>4, <1>5, <1>6, <1>7 DEF UploadStep

LEMMA UserTyped ==
    ASSUME SettingsTypeOK, GistTypeOK, UserStep
    PROVE  SettingsTypeOK' /\ GistTypeOK'
<1>1. ASSUME NEW r \in Requests, Ask(r) PROVE SettingsTypeOK' /\ GistTypeOK'
  <2>1. SettingsTypeOK'
    BY <1>1, MovesOn DEF Ask
  <2> QED BY <1>1, <2>1 DEF Ask, GistTypeOK, upload, github
<1>2. ASSUME NEW r \in Requests, HangUp(r) PROVE SettingsTypeOK' /\ GistTypeOK'
  <2>1. SettingsTypeOK'
    BY <1>2, MovesOn DEF HangUp
  <2>2. orphans' = IF pc[r] = "answered" /\ target[r] # state[GistId]
                   THEN orphans \cup ({target[r]} \cap Live) ELSE orphans
    BY <1>2 DEF HangUp, Lose
  <2>3. orphans' \subseteq Gists
    BY <2>2 DEF GistTypeOK, Live
  <2> QED BY <1>2, <2>1, <2>3, BlankTyped DEF HangUp, GistTypeOK, github
<1>3. ASSUME NEW g \in Gists, Vanish(g) PROVE SettingsTypeOK' /\ GistTypeOK'
  <2>1. SettingsTypeOK'
    BY <1>3 DEF Vanish, SettingsTypeOK, settings, handlers
  <2>2. content' = [content EXCEPT ![g] = 0]
    BY <1>3 DEF Vanish
  <2>3. content' \in [Gists -> 0 .. MaxVersion]
    BY <2>2 DEF GistTypeOK
  <2> QED BY <1>3, <2>1, <2>3 DEF Vanish, GistTypeOK, upload, handlers
<1> QED BY <1>1, <1>2, <1>3 DEF UserStep

LEMMA SettingsStepTyped ==
    ASSUME SettingsTypeOK, GistTypeOK, edited \in Fields, NEW r \in Requests, SettingsStep(r)
    PROVE  SettingsTypeOK' /\ GistTypeOK'
<1>1. UNCHANGED <<version, built, target, content, gone, orphans>>
  BY DEF SettingsStep, upload, github
<1>2. CASE \E v \in Requested(edited) : Apply(r, edited, v)
  <2>1. PICK v \in Requested(edited) : Apply(r, edited, v)
    BY <1>2
  <2>2. v \in Values(edited)
    BY Asked
  <2>3. SettingsTypeOK'
    BY <2>1, <2>2, StoreTyped DEF Apply
  <2>4. pc' = [pc EXCEPT ![r] = "stored"]
    BY <2>1 DEF Apply, Store
  <2> QED BY <1>1, <2>3 DEF GistTypeOK
<1>3. CASE MetaSet(r)
  <2>1. SettingsTypeOK'
    BY <1>3, MetaSetTyped
  <2>2. pc' = [pc EXCEPT ![r] = "idle"]
    BY <1>3 DEF MetaSet, Return
  <2> QED BY <1>1, <2>1 DEF GistTypeOK
<1> QED BY <1>2, <1>3 DEF SettingsStep

LEMMA RestartTyped ==
    ASSUME SettingsTypeOK, GistTypeOK, Restart
    PROVE  SettingsTypeOK' /\ GistTypeOK'
<1>1. /\ state' = [f \in Fields |-> Load(f, meta[f])]
      /\ unsaved' = {}
      /\ pc' = [r \in Requests |-> "idle"]
      /\ job' = [r \in Requests |-> NoJob]
      /\ alone' = [r \in Requests |-> TRUE]
      /\ built' = [r \in Requests |-> 0]
      /\ target' = [r \in Requests |-> None]
      /\ env' = env /\ meta' = meta /\ version' = version /\ content' = content /\ gone' = gone
  BY DEF Restart, github
<1>2. \A f \in Fields : Load(f, meta[f]) \in Values(f)
  BY Loaded DEF SettingsTypeOK
<1>3. state' \in [Fields -> Settable] /\ \A f \in Fields : state'[f] \in Values(f)
  BY <1>1, <1>2, ValuesAre
<1>4. NoJob \in [field : Fields, value : Settable] /\ NoJob.value \in Values(NoJob.field)
  BY ValuesAre DEF NoJob, Fields, Settable
<1>5. SettingsTypeOK'
  BY <1>1, <1>3, <1>4 DEF SettingsTypeOK
<1>6. orphans' \subseteq Gists
  BY DEF Restart, Live
<1>7. built' \in [Requests -> 0 .. MaxVersion] /\ target' \in [Requests -> Gists \cup {None}]
  BY <1>1
<1> QED BY <1>1, <1>5, <1>6, <1>7 DEF GistTypeOK

\* The loop leaves the settings and the uploads alone.
LEMMA LoopElsewhere ==
    ASSUME LoopStep
    PROVE  /\ UNCHANGED <<env, state, meta, pc, job, alone, unsaved, built, target, content,
                          gone, orphans, edited, restarts>>
           /\ version' = version \/ (version' = version + 1 /\ version < MaxVersion)
<1>1. UNCHANGED Elsewhere
  BY DEF LoopStep, ReadInterval, Idled, Wake, NextId, Fetched, RoundOver
<1>2. version' = version \/ (version' = version + 1 /\ version < MaxVersion)
  <2>1. CASE Fetched
    <3>1. version' = version \/ version' = (IF version < MaxVersion THEN version + 1 ELSE version)
      BY <2>1 DEF Fetched
    <3> QED BY <3>1
  <2>2. CASE ReadInterval \/ Idled \/ Wake \/ NextId \/ RoundOver
    BY <2>2 DEF ReadInterval, Idled, Wake, NextId, RoundOver
  <2> QED BY <2>1, <2>2 DEF LoopStep
<1> QED BY <1>1, <1>2 DEF Elsewhere, settings, handlers, upload, github

LEMMA LoopTyped ==
    ASSUME TypeOK, LoopStep
    PROVE  TypeOK'
<1>1. UNCHANGED <<env, state, meta, pc, job, alone, unsaved, built, target, content,
                  gone, orphans, edited, restarts>>
  BY LoopElsewhere
<1>2. version' \in 1 .. MaxVersion
  BY LoopElsewhere DEF TypeOK, GistTypeOK
<1>3. SettingsTypeOK'
  BY <1>1 DEF TypeOK, SettingsTypeOK
<1>4. GistTypeOK'
  BY <1>1, <1>2 DEF TypeOK, GistTypeOK
<1>5. loop' \in {"top", "idle", "asleep", "round"}
  BY DEF TypeOK, LoopStep, ReadInterval, Idled, Wake, NextId, Fetched, RoundOver
<1>6. ids' \subseteq Subs
  BY DEF TypeOK, LoopStep, ReadInterval, Idled, Wake, NextId, Fetched, RoundOver
<1>7. fetching' \in Subs \cup {None}
  BY DEF TypeOK, LoopStep, ReadInterval, Idled, Wake, NextId, Fetched, RoundOver
<1> QED BY <1>1, <1>3, <1>4, <1>5, <1>6, <1>7 DEF TypeOK

\* Handlers leave the loop alone.
LEMMA HandlersElsewhere ==
    ASSUME \/ \E r \in Requests : SettingsStep(r) \/ UploadStep(r) \/ Locked(r)
           \/ UserStep
    PROVE  UNCHANGED <<loop, ids, fetching, edited, restarts>>
BY DEF SettingsStep, UploadStep, Locked, UserStep, scheduler

LEMMA TypeInit == Init => TypeOK
<1> SUFFICES ASSUME Init PROVE TypeOK
  OBVIOUS
<1>1. /\ env \in Environments
      /\ meta = [f \in Fields |-> Absent]
      /\ state = [f \in Fields |-> Load(f, meta[f])]
      /\ pc = [r \in Requests |-> "idle"]
      /\ job = [r \in Requests |-> NoJob]
      /\ alone = [r \in Requests |-> TRUE]
      /\ unsaved = {}
  BY DEF Init, SettingsInit
<1>2. \A f \in Fields : Load(f, meta[f]) \in Values(f)
  BY <1>1, Loaded
<1>3. state \in [Fields -> Settable] /\ \A f \in Fields : state[f] \in Values(f)
  BY <1>1, <1>2, ValuesAre
<1>4. NoJob \in [field : Fields, value : Settable] /\ NoJob.value \in Values(NoJob.field)
  BY ValuesAre DEF NoJob, Fields, Settable
<1>5. SettingsTypeOK
  BY <1>1, <1>3, <1>4 DEF SettingsTypeOK
<1>6. GistTypeOK
  BY <1>1 DEF Init, GistInit, GistTypeOK
<1> QED BY <1>5, <1>6 DEF Init, TypeOK

LEMMA TypeStep == TypeOK /\ [Next]_vars => TypeOK'
<1> SUFFICES ASSUME TypeOK, [Next]_vars PROVE TypeOK'
  OBVIOUS
<1> USE DEF TypeOK
<1>1. ASSUME NEW r \in Requests, SettingsStep(r) PROVE TypeOK'
  <2>1. SettingsTypeOK' /\ GistTypeOK'
    BY <1>1, SettingsStepTyped
  <2> QED BY <1>1, <2>1, HandlersElsewhere
<1>2. ASSUME NEW r \in Requests, UploadStep(r) PROVE TypeOK'
  <2>1. SettingsTypeOK' /\ GistTypeOK'
    BY <1>2, UploadTyped
  <2> QED BY <1>2, <2>1, HandlersElsewhere
<1>3. ASSUME NEW r \in Requests, Locked(r) PROVE TypeOK'
  <2>1. SettingsTypeOK' /\ GistTypeOK'
    BY <1>3, BeginTyped DEF Locked
  <2> QED BY <1>3, <2>1, HandlersElsewhere
<1>4. CASE UserStep
  <2>1. SettingsTypeOK' /\ GistTypeOK'
    BY <1>4, UserTyped
  <2> QED BY <1>4, <2>1, HandlersElsewhere
<1>5. CASE LoopStep
  BY <1>5, LoopTyped
<1>6. CASE Restart
  <2>1. SettingsTypeOK' /\ GistTypeOK'
    BY <1>6, RestartTyped
  <2> QED BY <1>6, <2>1 DEF Restart
<1>7. CASE UNCHANGED vars
  BY <1>7 DEF vars, SettingsTypeOK, GistTypeOK
<1> QED BY <1>1, <1>2, <1>3, <1>4, <1>5, <1>6, <1>7 DEF Next

\* Every variable has its type, for any requests, gists and environments: no
\* interval but zero is below a minute, in memory or in the table.
THEOREM TypeCorrect == Spec => []TypeOK
<1>1. Init => TypeOK
  BY TypeInit
<1>2. TypeOK /\ [Next]_vars => TypeOK'
  BY TypeStep
<1> QED BY <1>1, <1>2, PTL DEF Spec

-----------------------------------------------------------------------------
(* Settings that are settled survive a restart. *)

\* A handler that thinks itself alone is, and memory has its value.
AloneIsAlone ==
    \A r \in Requests :
       pc[r] = "stored" /\ alone[r]
          => Pending(job[r].field) = {r} /\ state[job[r].field] = job[r].value

SettledInv == TypeOK /\ AloneIsAlone /\ SettledSurvives

LEMMA SettledInit == Init => AloneIsAlone /\ SettledSurvives
<1> SUFFICES ASSUME Init PROVE AloneIsAlone /\ SettledSurvives
  OBVIOUS
<1>1. AloneIsAlone
  BY DEF Init, SettingsInit, AloneIsAlone
<1>2. SettledSurvives
  BY DEF Init, SettingsInit, SettledSurvives
<1> QED BY <1>1, <1>2

\* The first write of a value.
LEMMA StoreSettled ==
    ASSUME SettledInv, NEW r \in Requests, pc[r] # "stored", NEW f \in Fields, NEW v,
           Store(r, f, v), UNCHANGED <<env, meta, unsaved>>
    PROVE  AloneIsAlone' /\ SettledSurvives'
<1>1. /\ state' = [state EXCEPT ![f] = v]
      /\ job' = [job EXCEPT ![r] = [field |-> f, value |-> v]]
      /\ pc' = [pc EXCEPT ![r] = "stored"]
      /\ alone' = [p \in Requests |->
                   IF p = r THEN Pending(f) = {} ELSE alone[p] /\ p \notin Pending(f)]
  BY DEF Store
<1>2. Pending(f)' = Pending(f) \cup {r}
  BY <1>1 DEF Pending, SettledInv, TypeOK, SettingsTypeOK
<1>3. \A g \in Fields \ {f} : Pending(g)' = Pending(g) /\ state'[g] = state[g]
  BY <1>1 DEF Pending, SettledInv, TypeOK, SettingsTypeOK
<1>4. SettledSurvives'
  BY <1>2, <1>3 DEF SettledSurvives, SettledInv, Load
<1>5. ASSUME NEW p \in Requests, pc'[p] = "stored", alone'[p],
             NEW g \in Fields, g = job'[p].field
      PROVE  Pending(g)' = {p} /\ state'[g] = job'[p].value
  <2>1. CASE p = r
    <3>1. job'[p].field = f /\ job'[p].value = v /\ state'[f] = v /\ Pending(f) = {}
      BY <1>1, <1>5, <2>1 DEF SettledInv, TypeOK, SettingsTypeOK
    <3> QED BY <1>2, <1>5, <2>1, <3>1
  <2>2. CASE p # r
    <3>1. pc[p] = "stored" /\ alone[p] /\ job'[p] = job[p] /\ p \notin Pending(f)
      BY <1>1, <1>5, <2>2 DEF SettledInv, TypeOK, SettingsTypeOK
    <3>2. job[p].field \in Fields \ {f}
      BY <3>1 DEF Pending, SettledInv, TypeOK, SettingsTypeOK
    <3>3. Pending(g) = {p} /\ state[g] = job[p].value
      BY <1>5, <3>1 DEF SettledInv, AloneIsAlone
    <3> QED BY <1>3, <1>5, <3>1, <3>2, <3>3
  <2> QED BY <2>1, <2>2
<1>6. \A p \in Requests : job'[p].field \in Fields
  BY <1>1 DEF SettledInv, TypeOK, SettingsTypeOK
<1>7. AloneIsAlone'
  BY <1>5, <1>6 DEF AloneIsAlone
<1> QED BY <1>4, <1>7

\* The second.
LEMMA MetaSetSettled ==
    ASSUME SettledInv, NEW r \in Requests, MetaSet(r)
    PROVE  AloneIsAlone' /\ SettledSurvives'
<1>0. PICK f \in Fields : f = job[r].field
  BY DEF SettledInv, TypeOK, SettingsTypeOK
<1> job[r].value \in Values(f) /\ env \in Environments
  BY <1>0 DEF SettledInv, TypeOK, SettingsTypeOK
<1>1. /\ pc[r] = "stored" /\ env' = env /\ state' = state
      /\ pc' = [pc EXCEPT ![r] = "idle"] /\ job' = [job EXCEPT ![r] = NoJob]
      /\ alone' = [alone EXCEPT ![r] = TRUE]
  BY DEF MetaSet, Return
<1>2. \/ /\ meta' = [meta EXCEPT ![f] = job[r].value]
         /\ unsaved' = IF alone[r] THEN unsaved \ {f} ELSE unsaved \cup {f}
      \/ meta' = meta /\ unsaved' = unsaved \cup {f}
  BY <1>0 DEF MetaSet
<1>3. Pending(f)' = Pending(f) \ {r}
  BY <1>0, <1>1 DEF Pending, SettledInv, TypeOK, SettingsTypeOK
<1>4. \A g \in Fields \ {f} : /\ Pending(g)' = Pending(g) /\ meta'[g] = meta[g]
                              /\ (g \in unsaved' <=> g \in unsaved)
  BY <1>0, <1>1, <1>2 DEF Pending, SettledInv, TypeOK, SettingsTypeOK
<1>5. ASSUME NEW g \in Fields, Pending(g)' = {}, g \notin unsaved',
             state'[g] = None => env'[g] = None
      PROVE  Load(g, meta[g])' = state'[g]
  <2>1. CASE g = f
    <3>1. alone[r] /\ meta' = [meta EXCEPT ![f] = job[r].value]
      BY <1>2, <1>5, <2>1
    <3>2. state[f] = job[r].value
      BY <1>0, <1>1, <3>1 DEF SettledInv, AloneIsAlone
    <3>3. meta'[f] = state[f]
      BY <3>1, <3>2 DEF SettledInv, TypeOK, SettingsTypeOK
    <3>4. Load(f, state[f]) = state[f]
      BY <1>1, <1>5, <2>1, <3>2, Reloaded
    <3> QED BY <1>1, <2>1, <3>3, <3>4 DEF Load
  <2>2. CASE g # f
    BY <1>1, <1>4, <1>5, <2>2 DEF SettledInv, SettledSurvives, Load
  <2> QED BY <2>1, <2>2
<1>6. ASSUME NEW p \in Requests, pc'[p] = "stored", alone'[p],
             NEW g \in Fields, g = job'[p].field
      PROVE  Pending(g)' = {p} /\ state'[g] = job'[p].value
  <2>1. p # r /\ pc[p] = "stored" /\ alone[p] /\ job'[p] = job[p]
    BY <1>1, <1>6 DEF SettledInv, TypeOK, SettingsTypeOK
  <2>2. Pending(g) = {p} /\ state[g] = job[p].value
    BY <1>6, <2>1 DEF SettledInv, AloneIsAlone
  <2>3. Pending(g)' = {p}
    BY <1>3, <1>4, <2>1, <2>2
  <2> QED BY <1>1, <2>1, <2>2, <2>3
<1>7. \A p \in Requests : pc'[p] = "stored" => job'[p].field \in Fields
  BY <1>1 DEF SettledInv, TypeOK, SettingsTypeOK
<1>8. AloneIsAlone'
  BY <1>6, <1>7 DEF AloneIsAlone
<1>9. SettledSurvives'
  BY <1>5 DEF SettledSurvives
<1> QED BY <1>8, <1>9

\* A handler that moves on between steps that write no setting.
LEMMA MovedSettled ==
    ASSUME SettledInv, NEW r \in Requests, pc[r] # "stored",
           NEW label, label # "stored", pc' = [pc EXCEPT ![r] = label],
           UNCHANGED <<settings, job, alone, unsaved>>
    PROVE  AloneIsAlone' /\ SettledSurvives'
<1>1. \A f : Pending(f)' = Pending(f)
  BY DEF Pending, SettledInv, TypeOK, SettingsTypeOK
<1>2. \A p \in Requests : pc'[p] = "stored" => pc[p] = "stored"
  BY DEF SettledInv, TypeOK, SettingsTypeOK
<1>3. env' = env /\ state' = state /\ meta' = meta /\ job' = job /\ alone' = alone
      /\ unsaved' = unsaved
  BY DEF settings
<1>4. AloneIsAlone'
  BY <1>1, <1>2, <1>3 DEF SettledInv, AloneIsAlone
<1>5. SettledSurvives'
  BY <1>1, <1>3 DEF SettledInv, SettledSurvives, Load
<1> QED BY <1>4, <1>5

\* A step that changes none of it.
LEMMA SameSettled ==
    ASSUME SettledInv, UNCHANGED <<env, state, meta, pc, job, alone, unsaved>>
    PROVE  AloneIsAlone' /\ SettledSurvives'
<1>1. \A f : Pending(f)' = Pending(f)
  BY DEF Pending
<1>2. AloneIsAlone'
  BY <1>1 DEF SettledInv, AloneIsAlone
<1>3. SettledSurvives'
  BY <1>1 DEF SettledInv, SettledSurvives, Load
<1> QED BY <1>2, <1>3

LEMMA RestartSettled ==
    ASSUME SettledInv, Restart
    PROVE  AloneIsAlone' /\ SettledSurvives'
<1>1. /\ state' = [f \in Fields |-> Load(f, meta[f])] /\ env' = env /\ meta' = meta
      /\ pc' = [r \in Requests |-> "idle"]
  BY DEF Restart
<1>2. AloneIsAlone'
  BY <1>1 DEF AloneIsAlone
<1>3. SettledSurvives'
  BY <1>1 DEF SettledSurvives, Load
<1> QED BY <1>2, <1>3

LEMMA SettledStep == SettledInv /\ [Next]_vars => SettledInv'
<1> SUFFICES ASSUME SettledInv, [Next]_vars PROVE AloneIsAlone' /\ SettledSurvives'
  BY TypeStep DEF SettledInv
<1>1. ASSUME NEW r \in Requests, SettingsStep(r) PROVE AloneIsAlone' /\ SettledSurvives'
  <2>1. ASSUME NEW v \in Requested(edited), Apply(r, edited, v)
        PROVE  AloneIsAlone' /\ SettledSurvives'
    <3>1. pc[r] # "stored" /\ edited \in Fields /\ Store(r, edited, v)
          /\ UNCHANGED <<env, meta, unsaved>>
      BY <2>1 DEF Apply, SettledInv, TypeOK
    <3> QED BY <3>1, StoreSettled
  <2> QED BY <1>1, <2>1, MetaSetSettled DEF SettingsStep
<1>2. ASSUME NEW r \in Requests, UploadStep(r) PROVE AloneIsAlone' /\ SettledSurvives'
  <2>1. CASE Remember(r)
    <3>1. pc[r] # "stored" /\ GistId \in Fields /\ Store(r, GistId, target[r])
          /\ UNCHANGED <<env, meta, unsaved>>
      BY <2>1 DEF Remember, Fields
    <3> QED BY <3>1, StoreSettled
  <2>2. CASE Send(r) \/ Accepted(r) \/ Nameless(r) \/ AnswerLost(r) \/ Refused(r) \/ NotFound(r)
    <3>1. pc[r] # "stored" /\ UNCHANGED <<settings, job, alone, unsaved>>
      BY <2>2 DEF Send, Accepted, Nameless, AnswerLost, Refused, NotFound
    <3>2. PICK label \in {"sent", "answered", "idle", "ready"} : pc' = [pc EXCEPT ![r] = label]
      BY <2>2 DEF Send, Accepted, Nameless, AnswerLost, Refused, NotFound, Goto
    <3> QED BY <3>1, <3>2, MovedSettled
  <2> QED BY <1>2, <2>1, <2>2 DEF UploadStep
<1>3. ASSUME NEW r \in Requests, Locked(r) PROVE AloneIsAlone' /\ SettledSurvives'
  <2>1. pc[r] # "stored" /\ UNCHANGED <<settings, job, alone, unsaved>>
    BY <1>3 DEF Locked, Begin
  <2>2. PICK label \in {"ready", "idle"} : pc' = [pc EXCEPT ![r] = label]
    BY <1>3 DEF Locked, Begin, Goto
  <2> QED BY <2>1, <2>2, MovedSettled
<1>4. ASSUME UserStep PROVE AloneIsAlone' /\ SettledSurvives'
  <2>1. ASSUME NEW r \in Requests, Ask(r) \/ HangUp(r)
        PROVE  AloneIsAlone' /\ SettledSurvives'
    <3>1. pc[r] # "stored" /\ UNCHANGED <<settings, job, alone, unsaved>>
      BY <2>1 DEF Ask, HangUp
    <3>2. PICK label \in {"waiting", "idle"} : pc' = [pc EXCEPT ![r] = label]
      BY <2>1 DEF Ask, HangUp, Goto
    <3> QED BY <3>1, <3>2, MovedSettled
  <2>2. ASSUME NEW g \in Gists, Vanish(g) PROVE AloneIsAlone' /\ SettledSurvives'
    BY <2>2, SameSettled DEF Vanish, settings, handlers
  <2> QED BY <1>4, <2>1, <2>2 DEF UserStep
<1>5. CASE LoopStep
  BY <1>5, LoopElsewhere, SameSettled
<1>6. CASE Restart
  BY <1>6, RestartSettled
<1>7. CASE UNCHANGED vars
  BY <1>7, SameSettled DEF vars
<1> QED BY <1>1, <1>2, <1>3, <1>4, <1>5, <1>6, <1>7 DEF Next

\* A restart finds every setting as it was, unless two requests raced for it,
\* its write failed, or it was cleared and the environment sets it.
THEOREM SettingsSurvive == Spec => []SettledSurvives
<1>1. Init => SettledInv
  BY TypeInit, SettledInit DEF SettledInv
<1>2. SettledInv /\ [Next]_vars => SettledInv'
  BY SettledStep
<1>3. SettledInv => SettledSurvives
  BY DEF SettledInv
<1> QED BY <1>1, <1>2, <1>3, PTL DEF Spec

-----------------------------------------------------------------------------
(* Gists are neither lost track of nor put back to older content. *)

\* The lock is held by one upload at a time.
OneUploads == \A p, q \in Uploading : p = q

\* What is about to be published is no older than anything published.
Fresh ==
    /\ \A g \in Gists : content[g] <= version
    /\ \A r \in Requests :
          pc[r] \in {"ready", "sent"} =>
             built[r] \in 1 .. version /\ \A g \in Gists : content[g] <= built[r]

\* Every gist named anywhere was created: it is there, or was deleted.
Created == Live \cup gone \cup {None}

OnlyCreated ==
    /\ state[GistId] \in Created /\ meta[GistId] \in Created \cup {Absent}
    /\ \A r \in Requests :
          /\ target[r] \in Created
          /\ job[r].field = GistId => job[r].value \in Created

\* An upload works on the gist remembered, or that one is no longer there, or
\* the answer named none.
Targets ==
    \A r \in Requests : pc[r] \in {"ready", "sent", "answered"} =>
       \/ target[r] = state[GistId]
       \/ state[GistId] \notin Live /\ (pc[r] # "answered" => target[r] = None)
       \/ pc[r] = "answered" /\ target[r] = None

GistInv == TypeOK /\ OneUploads /\ Fresh /\ OnlyCreated /\ Targets /\ NoStrayGists

LEMMA GistInvInit == Init => OneUploads /\ Fresh /\ OnlyCreated /\ Targets /\ NoStrayGists
<1> SUFFICES ASSUME Init PROVE OneUploads /\ Fresh /\ OnlyCreated /\ Targets /\ NoStrayGists
  OBVIOUS
<1>1. /\ pc = [r \in Requests |-> "idle"] /\ job = [r \in Requests |-> NoJob]
      /\ content = [g \in Gists |-> 0] /\ target = [r \in Requests |-> None] /\ version = 1
      /\ meta = [f \in Fields |-> Absent] /\ state = [f \in Fields |-> Load(f, meta[f])]
      /\ env \in Environments
  BY DEF Init, SettingsInit, GistInit
<1>2. OneUploads
  BY <1>1 DEF OneUploads, Uploading
<1>3. Fresh
  BY <1>1 DEF Fresh
<1>4. state[GistId] = None /\ meta[GistId] = Absent
  BY <1>1 DEF Fields, Load, Interval, GistId
<1>5. OnlyCreated
  BY <1>1, <1>4 DEF OnlyCreated, Created, NoJob
<1>6. Targets
  BY <1>1 DEF Targets
<1>7. NoStrayGists
  BY <1>1 DEF NoStrayGists, Live
<1> QED BY <1>2, <1>3, <1>5, <1>6, <1>7

\* A step of anything but the uploads keeps all of it: what it writes is no
\* gist id, and no upload moves.
LEMMA OtherSteps ==
    ASSUME GistInv, TypeOK',
           UNCHANGED <<built, target, content, gone, orphans>>,
           version' >= version, state'[GistId] = state[GistId],
           meta'[GistId] \in Created \cup {Absent},
           \A r \in Requests :
              /\ pc'[r] \in {"ready", "sent", "answered"} => pc'[r] = pc[r]
              /\ pc[r] = "answered" => pc'[r] = "answered"
              /\ r \in Uploading' => r \in Uploading
              /\ job'[r].field = GistId => job'[r].value \in Created
    PROVE  OneUploads' /\ Fresh' /\ OnlyCreated' /\ Targets' /\ NoStrayGists'
<1>1. OneUploads'
  BY DEF GistInv, OneUploads, Uploading
<1>2. Fresh'
  BY DEF GistInv, Fresh, TypeOK, GistTypeOK
<1>3. Live' = Live /\ Created' = Created
  BY DEF Live, Created
<1>4. OnlyCreated'
  BY <1>3 DEF GistInv, OnlyCreated
<1>5. Targets'
  BY <1>3 DEF GistInv, Targets
<1>6. NoStrayGists'
  BY <1>3 DEF GistInv, NoStrayGists
<1> QED BY <1>1, <1>2, <1>4, <1>5, <1>6

LEMMA SettingsStepGists ==
    ASSUME GistInv, TypeOK', NEW r \in Requests, SettingsStep(r)
    PROVE  OneUploads' /\ Fresh' /\ OnlyCreated' /\ Targets' /\ NoStrayGists'
<1>1. UNCHANGED <<version, built, target, content, gone, orphans>>
  BY DEF SettingsStep, upload, github
<1>2. version' >= version
  BY <1>1 DEF GistInv, TypeOK, GistTypeOK
<1>3. ASSUME NEW v \in Requested(edited), Apply(r, edited, v)
      PROVE  OneUploads' /\ Fresh' /\ OnlyCreated' /\ Targets' /\ NoStrayGists'
  <2>1. edited \in Fields /\ edited # GistId
    BY Asked DEF GistInv, TypeOK
  <2>2. /\ pc[r] = "idle" /\ meta' = meta /\ state' = [state EXCEPT ![edited] = v]
        /\ job' = [job EXCEPT ![r] = [field |-> edited, value |-> v]]
        /\ pc' = [pc EXCEPT ![r] = "stored"]
    BY <1>3 DEF Apply, Store
  <2>3. state'[GistId] = state[GistId] /\ meta'[GistId] \in Created \cup {Absent}
    BY <2>1, <2>2 DEF GistInv, OnlyCreated, TypeOK, SettingsTypeOK, Fields
  <2>4. \A p \in Requests :
           /\ pc'[p] \in {"ready", "sent", "answered"} => pc'[p] = pc[p]
           /\ pc[p] = "answered" => pc'[p] = "answered"
           /\ job'[p].field = GistId => job'[p].value \in Created
    BY <2>1, <2>2 DEF GistInv, OnlyCreated, TypeOK, SettingsTypeOK
  <2>5. \A p \in Requests : p \in Uploading' => p \in Uploading
    BY <2>1, <2>2 DEF Uploading, GistInv, TypeOK, SettingsTypeOK
  <2> QED BY <1>1, <1>2, <2>3, <2>4, <2>5, OtherSteps
<1>4. CASE MetaSet(r)
  <2>1. /\ pc[r] = "stored" /\ state' = state /\ job' = [job EXCEPT ![r] = NoJob]
        /\ pc' = [pc EXCEPT ![r] = "idle"]
        /\ meta' = meta \/ meta' = [meta EXCEPT ![job[r].field] = job[r].value]
    BY <1>4 DEF MetaSet, Return
  <2>2. meta'[GistId] \in Created \cup {Absent}
    BY <2>1 DEF GistInv, OnlyCreated, TypeOK, SettingsTypeOK, Fields
  <2>3. \A p \in Requests :
           /\ pc'[p] \in {"ready", "sent", "answered"} => pc'[p] = pc[p]
           /\ pc[p] = "answered" => pc'[p] = "answered"
           /\ job'[p].field = GistId => job'[p].value \in Created
    BY <2>1 DEF GistInv, OnlyCreated, TypeOK, SettingsTypeOK, NoJob, Created
  <2>4. \A p \in Requests : p \in Uploading' => p \in Uploading
    BY <2>1 DEF Uploading, GistInv, TypeOK, SettingsTypeOK
  <2> QED BY <1>1, <1>2, <2>1, <2>2, <2>3, <2>4, OtherSteps
<1> QED BY <1>3, <1>4 DEF SettingsStep

LEMMA LoopGists ==
    ASSUME GistInv, TypeOK', LoopStep \/ UNCHANGED vars
    PROVE  OneUploads' /\ Fresh' /\ OnlyCreated' /\ Targets' /\ NoStrayGists'
<1>1. UNCHANGED <<env, state, meta, pc, job, alone, unsaved, built, target, content,
                  gone, orphans, edited, restarts>>
  BY LoopElsewhere DEF vars
<1>2. version' = version \/ version' = version + 1
  BY LoopElsewhere DEF vars
<1>3. version' >= version
  BY <1>2 DEF GistInv, TypeOK, GistTypeOK
<1>4. Uploading' = Uploading
  BY <1>1 DEF Uploading
<1> QED BY <1>1, <1>3, <1>4, OtherSteps DEF GistInv, OnlyCreated

\* An upload that ends, or has not begun: another's place is what it was, and
\* a gist it was told of is remembered or given up.
LEMMA EndsGists ==
    ASSUME GistInv, TypeOK', NEW r \in Requests, NEW label \in {"idle", "waiting"},
           Goto(r, label), UNCHANGED <<settings, job, version, content, gone>>,
           Blank(r) \/ UNCHANGED upload,
           orphans \subseteq orphans',
           pc[r] = "answered" /\ target[r] \in Live =>
              target[r] \in orphans' \cup {state[GistId]}
    PROVE  OneUploads' /\ Fresh' /\ OnlyCreated' /\ Targets' /\ NoStrayGists'
<1>1. pc' = [pc EXCEPT ![r] = label] /\ state' = state /\ meta' = meta
  BY DEF Goto, settings
<1>2. /\ pc'[r] = label /\ target'[r] \in {target[r], None}
      /\ \A p \in Requests \ {r} : pc'[p] = pc[p] /\ target'[p] = target[p] /\ built'[p] = built[p]
  BY <1>1 DEF Blank, upload, GistInv, TypeOK, SettingsTypeOK, GistTypeOK
<1>3. Live' = Live /\ Created' = Created
  BY DEF Live, Created
<1>4. OneUploads'
  BY <1>2 DEF GistInv, OneUploads, Uploading, TypeOK, SettingsTypeOK
<1>5. Fresh'
  BY <1>2 DEF GistInv, Fresh
<1>6. OnlyCreated'
  BY <1>1, <1>2, <1>3 DEF GistInv, OnlyCreated, Created
<1>7. Targets'
  BY <1>1, <1>2, <1>3 DEF GistInv, Targets
<1>8. NoStrayGists'
  <2>1. ASSUME NEW p \in Requests, pc[p] = "answered", target[p] \in Live,
               target[p] \notin orphans' \cup {state[GistId]}
        PROVE  pc'[p] = "answered" /\ target'[p] = target[p]
    BY <1>2, <2>1
  <2> QED BY <1>1, <1>3, <2>1 DEF GistInv, NoStrayGists
<1> QED BY <1>4, <1>5, <1>6, <1>7, <1>8

LEMMA BeginGists ==
    ASSUME GistInv, TypeOK', NEW r \in Requests, Begin(r)
    PROVE  OneUploads' /\ Fresh' /\ OnlyCreated' /\ Targets' /\ NoStrayGists'
<1>1. CASE Goto(r, "idle") /\ UNCHANGED upload
  BY <1>1, EndsGists DEF Begin, github
<1>2. CASE /\ built' = [built EXCEPT ![r] = version]
           /\ target' = [target EXCEPT ![r] = state[GistId]]
           /\ Goto(r, "ready")
  <2>1. /\ pc' = [pc EXCEPT ![r] = "ready"] /\ pc[r] = "waiting" /\ Uploading = {}
        /\ UNCHANGED <<state, meta, job, version, content, gone, orphans>>
    BY <1>2 DEF Begin, Goto, settings, github
  <2>2. /\ pc'[r] = "ready" /\ target'[r] = state[GistId] /\ built'[r] = version
        /\ \A p \in Requests \ {r} : pc'[p] = pc[p] /\ target'[p] = target[p] /\ built'[p] = built[p]
    BY <1>2, <2>1 DEF GistInv, TypeOK, SettingsTypeOK, GistTypeOK
  <2>3. Live' = Live /\ Created' = Created
    BY <2>1 DEF Live, Created
  <2>4. OneUploads'
    BY <2>1, <2>2 DEF OneUploads, Uploading
  <2>5. Fresh'
    BY <2>1, <2>2 DEF GistInv, Fresh, TypeOK, GistTypeOK
  <2>6. OnlyCreated'
    BY <2>1, <2>2, <2>3 DEF GistInv, OnlyCreated
  <2>7. Targets'
    BY <2>1, <2>2, <2>3 DEF GistInv, Targets
  <2>8. NoStrayGists'
    BY <2>1, <2>2, <2>3 DEF GistInv, NoStrayGists
  <2> QED BY <2>4, <2>5, <2>6, <2>7, <2>8
<1> QED BY <1>1, <1>2 DEF Begin

\* What a request that GitHub acts on does to the gists.
LEMMA PutGists ==
    ASSUME GistInv, NEW r \in Requests, pc[r] = "sent", NEW g \in Gists,
           Writes(r, g), Put(r, g)
    PROVE  /\ Live' = Live \cup {g}
           /\ gone' = gone => Created \subseteq Created'
           /\ \A h \in Gists : content'[h] <= version /\ content'[h] >= content[h]
           /\ content' = [content EXCEPT ![g] = built[r]]
           /\ target[r] = None => g \notin Created /\ state[GistId] \notin Live
           /\ target[r] # None => g = target[r] /\ g = state[GistId] /\ g \in Live
<1>1. content' = [content EXCEPT ![g] = built[r]]
  BY DEF Put
<1>2. built[r] \in 1 .. version /\ version \in Nat /\ content \in [Gists -> Nat]
      /\ \A h \in Gists : content[h] <= built[r]
  BY DEF GistInv, Fresh, TypeOK, GistTypeOK
<1>3. Live' = Live \cup {g}
  BY <1>1, <1>2 DEF Live
<1>4. \A h \in Gists : content'[h] <= version /\ content'[h] >= content[h]
  BY <1>1, <1>2 DEF GistInv, Fresh
<1>5. gone' = gone => Created \subseteq Created'
  BY <1>3 DEF Created
<1>6. ASSUME target[r] = None PROVE g \notin Created /\ state[GistId] \notin Live
  <2>1. content[g] = 0 /\ g \notin gone /\ None \notin Gists
    BY <1>6 DEF Writes
  <2>2. state[GistId] \notin Live
    BY <1>6, <2>1 DEF GistInv, Targets, Live
  <2> QED BY <2>1, <2>2 DEF Created, Live
<1>7. ASSUME target[r] # None PROVE g = target[r] /\ g = state[GistId] /\ g \in Live
  BY <1>7 DEF Writes, GistInv, Targets
<1> QED BY <1>1, <1>3, <1>4, <1>5, <1>6, <1>7

LEMMA AcceptedGists ==
    ASSUME GistInv, TypeOK', NEW r \in Requests, Accepted(r)
    PROVE  OneUploads' /\ Fresh' /\ OnlyCreated' /\ Targets' /\ NoStrayGists'
<1>1. PICK g \in Gists : Writes(r, g) /\ Put(r, g) /\ target' = [target EXCEPT ![r] = g]
  BY DEF Accepted
<1>2. /\ pc[r] = "sent" /\ pc' = [pc EXCEPT ![r] = "answered"]
      /\ UNCHANGED <<state, meta, job, version, built, gone, orphans>>
  BY DEF Accepted, Goto, settings
<1>3. /\ Live' = Live \cup {g} /\ Created \subseteq Created'
      /\ \A h \in Gists : content'[h] <= version
      /\ target[r] = None => g \notin Created /\ state[GistId] \notin Live
      /\ target[r] # None => g = target[r] /\ g = state[GistId] /\ g \in Live
  BY <1>1, <1>2, PutGists
<1>4. /\ pc'[r] = "answered" /\ target'[r] = g
      /\ \A p \in Requests \ {r} : pc'[p] = pc[p] /\ target'[p] = target[p]
  BY <1>1, <1>2 DEF GistInv, TypeOK, SettingsTypeOK, GistTypeOK
<1>5. OneUploads' /\ \A p \in Requests \ {r} : pc[p] \notin {"ready", "sent", "answered"}
  BY <1>2, <1>4 DEF GistInv, OneUploads, Uploading
<1>6. Fresh'
  BY <1>2, <1>3, <1>4, <1>5 DEF Fresh
<1>7. OnlyCreated'
  <2>1. g \in Created'
    BY <1>3 DEF Created
  <2> QED BY <1>2, <1>3, <1>4, <2>1 DEF GistInv, OnlyCreated
<1>8. Targets'
  <2>1. state[GistId] \in Created
    BY DEF GistInv, OnlyCreated
  <2> QED BY <1>2, <1>3, <1>4, <1>5, <2>1 DEF Targets
<1>9. NoStrayGists'
  BY <1>2, <1>3, <1>4, <1>5 DEF GistInv, NoStrayGists
<1> QED BY <1>5, <1>6, <1>7, <1>8, <1>9

LEMMA AnswerLostGists ==
    ASSUME GistInv, TypeOK', NEW r \in Requests, AnswerLost(r)
    PROVE  OneUploads' /\ Fresh' /\ OnlyCreated' /\ Targets' /\ NoStrayGists'
<1>1. PICK g \in Gists : /\ Writes(r, g) /\ Put(r, g)
                         /\ orphans' = IF target[r] = None THEN orphans \cup {g} ELSE orphans
  BY DEF AnswerLost
<1>2. /\ pc[r] = "sent" /\ pc' = [pc EXCEPT ![r] = "idle"]
      /\ target' = [target EXCEPT ![r] = None]
      /\ UNCHANGED <<state, meta, job, version, gone>>
  BY DEF AnswerLost, Goto, Blank, settings
<1>3. /\ Live' = Live \cup {g} /\ Created \subseteq Created'
      /\ \A h \in Gists : content'[h] <= version
      /\ target[r] # None => g = state[GistId]
  BY <1>1, <1>2, PutGists DEF AnswerLost
<1>4. /\ pc'[r] = "idle" /\ target'[r] = None
      /\ \A p \in Requests \ {r} : pc'[p] = pc[p] /\ target'[p] = target[p]
  BY <1>1, <1>2 DEF GistInv, TypeOK, SettingsTypeOK, GistTypeOK
<1>5. OneUploads' /\ \A p \in Requests \ {r} : pc[p] \notin {"ready", "sent", "answered"}
  BY <1>2, <1>4 DEF GistInv, OneUploads, Uploading
<1>6. Fresh'
  BY <1>2, <1>3, <1>4, <1>5 DEF Fresh
<1>7. OnlyCreated'
  <2>1. None \in Created'
    BY DEF Created
  <2> QED BY <1>2, <1>3, <1>4, <2>1 DEF GistInv, OnlyCreated
<1>8. Targets'
  BY <1>4, <1>5 DEF Targets
<1>9. NoStrayGists'
  BY <1>1, <1>2, <1>3, <1>5 DEF GistInv, NoStrayGists
<1> QED BY <1>5, <1>6, <1>7, <1>8, <1>9

LEMMA NamelessGists ==
    ASSUME GistInv, TypeOK', NEW r \in Requests, Nameless(r)
    PROVE  OneUploads' /\ Fresh' /\ OnlyCreated' /\ Targets' /\ NoStrayGists'
<1>1. PICK g \in Gists : /\ Writes(r, g) /\ Put(r, g)
                         /\ orphans' = IF target[r] = None THEN orphans \cup {g} ELSE orphans
  BY DEF Nameless
<1>2. /\ pc[r] = "sent" /\ pc' = [pc EXCEPT ![r] = "answered"]
      /\ target' = [target EXCEPT ![r] = None]
      /\ UNCHANGED <<state, meta, job, version, gone>>
  BY DEF Nameless, Goto, settings
<1>3. /\ Live' = Live \cup {g} /\ Created \subseteq Created'
      /\ \A h \in Gists : content'[h] <= version
      /\ target[r] # None => g = state[GistId]
  BY <1>1, <1>2, PutGists DEF Nameless
<1>4. /\ pc'[r] = "answered" /\ target'[r] = None
      /\ \A p \in Requests \ {r} : pc'[p] = pc[p] /\ target'[p] = target[p]
  BY <1>1, <1>2 DEF GistInv, TypeOK, SettingsTypeOK, GistTypeOK
<1>5. OneUploads' /\ \A p \in Requests \ {r} : pc[p] \notin {"ready", "sent", "answered"}
  BY <1>2, <1>4 DEF GistInv, OneUploads, Uploading
<1>6. Fresh'
  BY <1>2, <1>3, <1>4, <1>5 DEF Fresh
<1>7. OnlyCreated'
  <2>1. None \in Created'
    BY DEF Created
  <2> QED BY <1>2, <1>3, <1>4, <2>1 DEF GistInv, OnlyCreated
<1>8. Targets'
  BY <1>4, <1>5 DEF Targets
<1>9. NoStrayGists'
  BY <1>1, <1>2, <1>3, <1>5 DEF GistInv, NoStrayGists
<1> QED BY <1>5, <1>6, <1>7, <1>8, <1>9

\* An upload that goes on, and has not been answered.
LEMMA GoesOnGists ==
    ASSUME GistInv, TypeOK', NEW r \in Requests, Send(r) \/ NotFound(r)
    PROVE  OneUploads' /\ Fresh' /\ OnlyCreated' /\ Targets' /\ NoStrayGists'
<1>1. /\ pc[r] \in {"ready", "sent"}
      /\ pc' = [pc EXCEPT ![r] = "sent"] \/ pc' = [pc EXCEPT ![r] = "ready"]
      /\ target' = target \/ (target[r] \notin Live /\ target' = [target EXCEPT ![r] = None])
      /\ UNCHANGED <<state, meta, job, version, built, content, gone, orphans>>
  BY DEF Send, NotFound, Goto, settings, upload, github
<1>2. /\ pc'[r] \in {"ready", "sent"}
      /\ target'[r] = target[r] \/ (target[r] \notin Live /\ target'[r] = None)
      /\ \A p \in Requests \ {r} : pc'[p] = pc[p] /\ target'[p] = target[p]
  BY <1>1 DEF GistInv, TypeOK, SettingsTypeOK, GistTypeOK
<1>3. Live' = Live /\ Created' = Created
  BY <1>1 DEF Live, Created
<1>4. OneUploads'
  BY <1>1, <1>2 DEF GistInv, OneUploads, Uploading
<1>5. Fresh'
  BY <1>1, <1>2 DEF GistInv, Fresh
<1>6. OnlyCreated'
  BY <1>1, <1>2, <1>3 DEF GistInv, OnlyCreated, Created
<1>7. Targets'
  BY <1>1, <1>2, <1>3 DEF GistInv, Targets
<1>8. NoStrayGists'
  BY <1>1, <1>2, <1>3 DEF GistInv, NoStrayGists
<1> QED BY <1>4, <1>5, <1>6, <1>7, <1>8

LEMMA RememberGists ==
    ASSUME GistInv, TypeOK', NEW r \in Requests, Remember(r)
    PROVE  OneUploads' /\ Fresh' /\ OnlyCreated' /\ Targets' /\ NoStrayGists'
<1>1. /\ pc[r] = "answered" /\ pc' = [pc EXCEPT ![r] = "stored"]
      /\ state' = [state EXCEPT ![GistId] = target[r]]
      /\ job' = [job EXCEPT ![r] = [field |-> GistId, value |-> target[r]]]
      /\ target' = [target EXCEPT ![r] = None] /\ built' = [built EXCEPT ![r] = 0]
      /\ orphans' = IF target[r] = None THEN orphans \cup ({state[GistId]} \cap Live)
                    ELSE orphans
      /\ UNCHANGED <<meta, version, content, gone>>
  BY DEF Remember, Store, Blank, github
<1>2. /\ pc'[r] = "stored" /\ target'[r] = None /\ state'[GistId] = target[r]
      /\ job'[r].field = GistId /\ job'[r].value = target[r]
      /\ \A p \in Requests \ {r} : pc'[p] = pc[p] /\ target'[p] = target[p] /\ job'[p] = job[p]
  BY <1>1 DEF GistInv, TypeOK, SettingsTypeOK, GistTypeOK, Fields
<1>3. Live' = Live /\ Created' = Created
  BY <1>1 DEF Live, Created
<1>4. OneUploads' /\ \A p \in Requests \ {r} : pc[p] \notin {"ready", "sent", "answered"}
  BY <1>1, <1>2 DEF GistInv, OneUploads, Uploading
<1>5. Fresh'
  BY <1>1, <1>2, <1>4 DEF GistInv, Fresh
<1>6. OnlyCreated'
  BY <1>1, <1>2, <1>3 DEF GistInv, OnlyCreated, Created
<1>7. Targets'
  BY <1>2, <1>4 DEF Targets
<1>8. target[r] = state[GistId] \/ state[GistId] \notin Live \/ state[GistId] \in orphans'
  BY <1>1 DEF GistInv, Targets
<1>9. NoStrayGists'
  BY <1>1, <1>2, <1>3, <1>4, <1>8 DEF GistInv, NoStrayGists
<1> QED BY <1>4, <1>5, <1>6, <1>7, <1>9

LEMMA VanishGists ==
    ASSUME GistInv, TypeOK', NEW g \in Gists, Vanish(g)
    PROVE  OneUploads' /\ Fresh' /\ OnlyCreated' /\ Targets' /\ NoStrayGists'
<1>1. /\ content' = [content EXCEPT ![g] = 0] /\ gone' = gone \cup {g}
      /\ orphans' = orphans \ {g}
      /\ UNCHANGED <<state, meta, pc, job, version, built, target>>
  BY DEF Vanish, settings, handlers, upload
<1>2. Live' = Live \ {g} /\ Created \subseteq Created'
  BY <1>1 DEF Live, Created, GistInv, TypeOK, GistTypeOK
<1>3. OneUploads'
  BY <1>1 DEF GistInv, OneUploads, Uploading
<1>4. Fresh'
  <2>1. \A h \in Gists : content'[h] <= content[h] /\ content[h] \in Nat /\ content'[h] \in Nat
    BY <1>1 DEF GistInv, TypeOK, GistTypeOK
  <2>2. version \in Nat /\ \A r \in Requests : built[r] \in Nat
    BY DEF GistInv, TypeOK, GistTypeOK
  <2> QED BY <1>1, <2>1, <2>2 DEF GistInv, Fresh
<1>5. OnlyCreated'
  BY <1>1, <1>2 DEF GistInv, OnlyCreated
<1>6. Targets'
  BY <1>1, <1>2 DEF GistInv, Targets
<1>7. NoStrayGists'
  BY <1>1, <1>2 DEF GistInv, NoStrayGists
<1> QED BY <1>3, <1>4, <1>5, <1>6, <1>7

LEMMA RestartGists ==
    ASSUME GistInv, TypeOK', Restart
    PROVE  OneUploads' /\ Fresh' /\ OnlyCreated' /\ Targets' /\ NoStrayGists'
<1>1. /\ state' = [f \in Fields |-> Load(f, meta[f])]
      /\ pc' = [r \in Requests |-> "idle"] /\ job' = [r \in Requests |-> NoJob]
      /\ target' = [r \in Requests |-> None]
      /\ orphans' = ((orphans \cup {target[r] : r \in Requests} \cup {state[GistId]}) \cap Live)
                      \ {Load(GistId, meta[GistId])}
      /\ UNCHANGED <<meta, version, content, gone>>
  BY DEF Restart, github
<1>2. Live' = Live /\ Created' = Created
  BY <1>1 DEF Live, Created
<1>3. state'[GistId] = Load(GistId, meta[GistId])
  BY <1>1 DEF Fields
<1>4. OneUploads'
  BY <1>1 DEF OneUploads, Uploading
<1>5. Fresh'
  BY <1>1 DEF GistInv, Fresh
<1>6. env[GistId] = None /\ Interval # GistId
  BY DEF GistInv, TypeOK, SettingsTypeOK, Interval, GistId
<1>7. Load(GistId, meta[GistId]) \in Created
  BY <1>6 DEF Load, GistInv, OnlyCreated, Created
<1>8. OnlyCreated'
  BY <1>1, <1>2, <1>3, <1>7 DEF GistInv, OnlyCreated, NoJob, Created
<1>9. Targets'
  BY <1>1 DEF Targets
<1>10. NoStrayGists'
  BY <1>1, <1>2, <1>3 DEF GistInv, NoStrayGists
<1> QED BY <1>4, <1>5, <1>8, <1>9, <1>10

LEMMA GistInvStep == GistInv /\ [Next]_vars => GistInv'
<1> SUFFICES ASSUME GistInv, [Next]_vars
             PROVE  OneUploads' /\ Fresh' /\ OnlyCreated' /\ Targets' /\ NoStrayGists'
  BY TypeStep DEF GistInv
<1>0. TypeOK'
  BY TypeStep DEF GistInv
<1>1. ASSUME NEW r \in Requests, SettingsStep(r)
      PROVE  OneUploads' /\ Fresh' /\ OnlyCreated' /\ Targets' /\ NoStrayGists'
  BY <1>0, <1>1, SettingsStepGists
<1>2. ASSUME NEW r \in Requests, UploadStep(r)
      PROVE  OneUploads' /\ Fresh' /\ OnlyCreated' /\ Targets' /\ NoStrayGists'
  <2>1. CASE Refused(r)
    BY <1>0, <2>1, EndsGists DEF Refused, github
  <2> QED BY <1>0, <1>2, <2>1, AcceptedGists, NamelessGists, AnswerLostGists, GoesOnGists, RememberGists
          DEF UploadStep
<1>3. ASSUME NEW r \in Requests, Locked(r)
      PROVE  OneUploads' /\ Fresh' /\ OnlyCreated' /\ Targets' /\ NoStrayGists'
  BY <1>0, <1>3, BeginGists DEF Locked
<1>4. ASSUME UserStep
      PROVE  OneUploads' /\ Fresh' /\ OnlyCreated' /\ Targets' /\ NoStrayGists'
  <2>1. ASSUME NEW r \in Requests, Ask(r)
        PROVE  OneUploads' /\ Fresh' /\ OnlyCreated' /\ Targets' /\ NoStrayGists'
    BY <1>0, <2>1, EndsGists DEF Ask, github
  <2>2. ASSUME NEW r \in Requests, HangUp(r)
        PROVE  OneUploads' /\ Fresh' /\ OnlyCreated' /\ Targets' /\ NoStrayGists'
    BY <1>0, <2>2, EndsGists DEF HangUp, Lose, github
  <2> QED BY <1>0, <1>4, <2>1, <2>2, VanishGists DEF UserStep
<1>5. CASE Restart
  BY <1>0, <1>5, RestartGists
<1>6. CASE LoopStep \/ UNCHANGED vars
  BY <1>0, <1>6, LoopGists
<1> QED BY <1>1, <1>2, <1>3, <1>4, <1>5, <1>6 DEF Next

LEMMA GistInvariant == Spec => []GistInv
<1>1. Init => GistInv
  BY TypeInit, GistInvInit DEF GistInv
<1>2. GistInv /\ [Next]_vars => GistInv'
  BY GistInvStep
<1> QED BY <1>1, <1>2, PTL DEF Spec

\* SubHub remembers every gist it has on GitHub but those whose id was lost on
\* the way back or with the process, or never told: for any number of uploads at once.
THEOREM GistsAreTracked == Spec => []NoStrayGists
<1>1. GistInv => NoStrayGists
  BY DEF GistInv
<1> QED BY <1>1, GistInvariant, PTL

LEMMA PublishedStep ==
    ASSUME GistInv, [Next]_vars, NEW g \in Gists \ gone'
    PROVE  content'[g] >= content[g]
<1>1. content[g] \in Nat
  BY DEF GistInv, TypeOK, GistTypeOK
<1>2. CASE \E r \in Requests : Accepted(r) \/ Nameless(r) \/ AnswerLost(r)
  <2>1. PICK r \in Requests, h \in Gists : pc[r] = "sent" /\ Writes(r, h) /\ Put(r, h)
    BY <1>2 DEF Accepted, Nameless, AnswerLost
  <2> QED BY <2>1, PutGists
<1>3. CASE \E h \in Gists : Vanish(h)
  <2>1. PICK h \in Gists : Vanish(h)
    BY <1>3
  <2>2. g # h /\ content'[g] = content[g]
    BY <2>1 DEF Vanish, GistInv, TypeOK, GistTypeOK
  <2> QED BY <1>1, <2>2
<1>4. CASE content' = content
  BY <1>1, <1>4
<1>5. ASSUME NEW r \in Requests, SettingsStep(r) \/ Locked(r) PROVE content' = content
  BY <1>5 DEF SettingsStep, Locked, Begin, github
<1>6. ASSUME NEW r \in Requests, UploadStep(r)
      PROVE  content' = content \/ Accepted(r) \/ Nameless(r) \/ AnswerLost(r)
  BY <1>6 DEF UploadStep, Send, Refused, NotFound, Remember, github
<1>7. UserStep => content' = content \/ \E h \in Gists : Vanish(h)
  BY DEF UserStep, Ask, HangUp, github
<1>8. LoopStep \/ Restart \/ UNCHANGED vars => content' = content
  BY LoopElsewhere DEF Restart, github, vars
<1> QED BY <1>2, <1>3, <1>4, <1>5, <1>6, <1>7, <1>8 DEF Next

\* A gist is never put back to an older state of the library, by uploads of any
\* number and speed.
THEOREM PublishedOnlyRenewed == Spec => PublishedNeverOlder
<1> DEFINE Renewed == \A g \in Gists \ gone' : content'[g] >= content[g]
<1>1. GistInv /\ [Next]_vars => [Renewed]_vars
  BY PublishedStep
<1> HIDE DEF Renewed
<1>2. Spec => [][Renewed]_vars
  BY <1>1, GistInvariant, PTL DEF Spec
<1> QED BY <1>2 DEF PublishedNeverOlder, Renewed
=============================================================================

------------------------------ MODULE Control -------------------------------
(***************************************************************************)
(* SubHub as its settings drive it: the requests that change them, the     *)
(* uploads, the auto-refresh loop that reads its interval as it goes, and  *)
(* restarts that read the settings back from the meta table.               *)
(***************************************************************************)
EXTENDS Gist

CONSTANTS
    Subs,           \* the remote subscriptions that are enabled
    MaxRestarts     \* bound

ASSUME ControlAssumption == MaxRestarts \in Nat /\ None \notin Subs

VARIABLES
    loop,       \* where the auto-refresh loop is
    ids,        \* subscriptions left in its round
    fetching,   \* the one it is fetching, None between two
    edited,     \* bound: the setting all requests of a behaviour write
    restarts    \* history: restarts so far

scheduler == <<loop, ids, fetching>>

vars == <<env, state, meta, pc, job, alone, unsaved, version, built, target, content,
          gone, orphans, loop, ids, fetching, edited, restarts>>

-----------------------------------------------------------------------------
Init ==
    /\ SettingsInit
    /\ GistInit
    /\ loop = "top"
    /\ ids = {}
    /\ fetching = None
    /\ edited \in Fields
    /\ restarts = 0

Elsewhere == <<settings, handlers, unsaved, upload, github, orphans, edited, restarts>>

\* The interval is read: zero means looking again in 30 seconds.
ReadInterval ==
    /\ loop = "top"
    /\ loop' = IF state[Interval] = 0 THEN "idle" ELSE "asleep"
    /\ UNCHANGED <<ids, fetching, version, Elsewhere>>

Idled ==
    /\ loop = "idle"
    /\ loop' = "top"
    /\ UNCHANGED <<ids, fetching, version, Elsewhere>>

\* The sleep is over; the loop may have been switched off meanwhile.
Wake ==
    /\ loop = "asleep"
    /\ IF state[Interval] = 0
       THEN loop' = "top" /\ UNCHANGED ids
       ELSE loop' = "round" /\ ids' = Subs
    /\ UNCHANGED <<fetching, version, Elsewhere>>

\* Mutant: a loop that is switched off in the middle of a round ends.
NextIdQuits ==
    /\ loop = "round" /\ fetching = None
    /\ \/ /\ state[Interval] = 0 /\ ids # {}
          /\ loop' = "ended"
          /\ UNCHANGED <<ids, fetching>>
       \/ /\ state[Interval] # 0
          /\ \E s \in ids : fetching' = s /\ ids' = ids \ {s}
          /\ UNCHANGED loop
    /\ UNCHANGED <<version, Elsewhere>>

\* The next subscription of the round, unless the user has switched the loop
\* off since.
NextId ==
    /\ loop = "round" /\ fetching = None
    /\ state[Interval] # 0
    /\ \E s \in ids : fetching' = s /\ ids' = ids \ {s}
    /\ UNCHANGED <<loop, version, Elsewhere>>

\* do_refresh_one and, when it changed something, persist_all.
Fetched ==
    /\ fetching # None
    /\ fetching' = None
    /\ version' \in {version, IF version < MaxVersion THEN version + 1 ELSE version}
    /\ UNCHANGED <<loop, ids, Elsewhere>>

\* The round is over, or broken off; prune_dead_subscriptions ends it.
RoundOver ==
    /\ loop = "round" /\ fetching = None
    /\ ids = {} \/ state[Interval] = 0
    /\ loop' = "top"
    /\ ids' = {}
    /\ UNCHANGED <<fetching, version, Elsewhere>>

LoopStep == ReadInterval \/ Idled \/ Wake \/ NextId \/ Fetched \/ RoundOver

\* The process stops, wherever everything is, and starts again: the settings
\* come from the table, a gist whose id was not in it is nobody's.
Restart ==
    /\ restarts < MaxRestarts
    /\ restarts' = restarts + 1
    /\ state' = [f \in Fields |-> Load(f, meta[f])]
    /\ unsaved' = {}
    /\ pc' = [r \in Requests |-> "idle"]
    /\ job' = [r \in Requests |-> NoJob]
    /\ alone' = [r \in Requests |-> TRUE]
    /\ built' = [r \in Requests |-> 0]
    /\ target' = [r \in Requests |-> None]
    /\ orphans' = ((orphans \cup {target[r] : r \in Requests} \cup {state[GistId]}) \cap Live)
                    \ {Load(GistId, meta[GistId])}
    /\ loop' = "top"
    /\ ids' = {}
    /\ fetching' = None
    /\ UNCHANGED <<env, meta, version, github, edited>>

\* What a handler does leaves the loop alone.
SettingsStep(r) ==
    /\ \/ \E v \in Requested(edited) : Apply(r, edited, v)
       \/ MetaSet(r)
    /\ UNCHANGED <<version, upload, github, orphans, scheduler, edited, restarts>>

UploadStep(r) ==
    /\ \/ Send(r) \/ Accepted(r) \/ Nameless(r) \/ AnswerLost(r)
       \/ Refused(r) \/ NotFound(r) \/ Remember(r)
    /\ UNCHANGED <<scheduler, edited, restarts>>

Locked(r) == Begin(r) /\ UNCHANGED <<scheduler, edited, restarts>>

UserStep ==
    /\ \/ \E r \in Requests : (edited = GistId /\ Ask(r)) \/ HangUp(r)
       \/ \E g \in Gists : Vanish(g)
    /\ UNCHANGED <<scheduler, edited, restarts>>

Next ==
    \/ \E r \in Requests : SettingsStep(r) \/ UploadStep(r) \/ Locked(r)
    \/ UserStep \/ LoopStep \/ Restart

\* The runtime runs every task whose await is over: the loop's timers and
\* fetches end, a request to GitHub has a limit of 60 seconds, and gist_lock
\* is handed on in the order it was asked for.
Spec ==
    /\ Init /\ [][Next]_vars
    /\ WF_vars(LoopStep)
    /\ \A r \in Requests :
          /\ WF_vars(UploadStep(r))
          /\ WF_vars(MetaSet(r) /\ SettingsStep(r))
          /\ SF_vars(Locked(r))

-----------------------------------------------------------------------------
(* Properties *)

TypeOK ==
    /\ SettingsTypeOK
    /\ GistTypeOK
    /\ loop \in {"top", "idle", "asleep", "round"}
    /\ ids \subseteq Subs
    /\ fetching \in Subs \cup {None}
    /\ edited \in Fields
    /\ restarts \in 0 .. MaxRestarts

\* A setting nobody is writing is what a restart would make of the table,
\* unless its last write raced with another or failed, or it was cleared and
\* the environment sets it: those a restart changes behind the user's back.
SettledSurvives ==
    \A f \in Fields :
       Pending(f) = {} /\ f \notin unsaved /\ (state[f] = None => env[f] = None)
          => Load(f, meta[f]) = state[f]

\* SubHub knows every gist it has on GitHub, but for those whose id was lost
\* or never said: uploads that overlap, hang up or find their gist deleted
\* make no others.
NoStrayGists ==
    Live \subseteq orphans \cup {state[GistId]}
                  \cup {target[r] : r \in {p \in Requests : pc[p] = "answered"}}

\* A published gist is never put back to an older state of the library by an
\* upload that was slower.
PublishedNeverOlder ==
    [][\A g \in Gists \ gone' : content'[g] >= content[g]]_vars

\* Every upload comes to an end, though the gist it remembers is gone, the
\* lock was wanted by others and GitHub does not answer.
UploadsEnd ==
    \A r \in Requests : pc[r] = "waiting" ~> pc[r] = "idle"

\* A loop that stays switched on refreshes every subscription again and again,
\* however often it was switched on and off before, and one that stays
\* switched off comes to rest.
LoopFollowsSwitch ==
    /\ <>[](state[Interval] # 0) => \A s \in Subs : []<>(fetching = s)
    /\ <>[](state[Interval] = 0) => <>[](fetching = None)
=============================================================================

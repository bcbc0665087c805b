-------------------------------- MODULE Gist --------------------------------
(***************************************************************************)
(* Publishing the export as a gist: the uploads of SubHub, one at a time,  *)
(* and GitHub.  The first upload creates a gist, the later ones update the *)
(* one remembered, and start anew when it is gone.                         *)
(*                                                                         *)
(* What an upload publishes is the library as it was when the content was  *)
(* built, a version number.  All uploads use tokens of one account, and    *)
(* GitHub applies a request before the client gives up on it, or never.    *)
(***************************************************************************)
EXTENDS Settings

CONSTANTS MaxVersion    \* bound: versions of the library

ASSUME GistAssumption == MaxVersion \in Nat \ {0}

VARIABLES
    version,    \* version of the library
    built,      \* the content each upload publishes
    target,     \* the gist it updates, None to create one
    content,    \* GitHub: the content of each gist, 0 when there is none
    gone,       \* GitHub: gists the user deleted there
    orphans     \* history: gists whose id was lost on the way back, or not told

upload == <<built, target>>
github == <<content, gone>>

-----------------------------------------------------------------------------
Live == {g \in Gists : content[g] > 0}

GistInit ==
    /\ version = 1
    /\ built = [r \in Requests |-> 0]
    /\ target = [r \in Requests |-> None]
    /\ content = [g \in Gists |-> 0]
    /\ gone = {}
    /\ orphans = {}

\* Uploads that hold gist_lock.
Uploading == {r \in Requests : \/ pc[r] \in {"ready", "sent", "answered"}
                               \/ pc[r] = "stored" /\ job[r].field = GistId}

Goto(r, label) == pc' = [pc EXCEPT ![r] = label]

Blank(r) ==
    /\ built' = [built EXCEPT ![r] = 0]
    /\ target' = [target EXCEPT ![r] = None]

Ask(r) ==
    /\ pc[r] = "idle"
    /\ Goto(r, "waiting")
    /\ UNCHANGED <<settings, job, alone, unsaved, version, upload, github, orphans>>

\* Mutants: no lock; the content is as old as the request (it was built while
\* the upload before it was under way).
BeginUnlocked(r) ==
    /\ pc[r] = "waiting"
    /\ built' = [built EXCEPT ![r] = version]
    /\ target' = [target EXCEPT ![r] = state[GistId]]
    /\ Goto(r, "ready")
    /\ UNCHANGED <<settings, job, alone, unsaved, version, github, orphans>>

BeginBuiltEarlier(r) ==
    /\ pc[r] = "waiting"
    /\ Uploading = {}
    /\ \E v \in 1 .. version : built' = [built EXCEPT ![r] = v]
    /\ target' = [target EXCEPT ![r] = state[GistId]]
    /\ Goto(r, "ready")
    /\ UNCHANGED <<settings, job, alone, unsaved, version, github, orphans>>

\* gist_lock is acquired, the content built, the gist looked up.  A request
\* with nothing to export, or without credentials, ends here.
Begin(r) ==
    /\ pc[r] = "waiting"
    /\ Uploading = {}
    /\ \/ /\ built' = [built EXCEPT ![r] = version]
          /\ target' = [target EXCEPT ![r] = state[GistId]]
          /\ Goto(r, "ready")
       \/ Goto(r, "idle") /\ UNCHANGED upload
    /\ UNCHANGED <<settings, job, alone, unsaved, version, github, orphans>>

\* PATCH the gist remembered, or POST a new one.
Send(r) ==
    /\ pc[r] = "ready"
    /\ Goto(r, "sent")
    /\ UNCHANGED <<settings, job, alone, unsaved, version, upload, github, orphans>>

\* The gist a request would write: the one it names, or a new one.
Writes(r, g) ==
    IF target[r] = None THEN content[g] = 0 /\ g \notin gone
    ELSE g = target[r] /\ g \in Live

Put(r, g) == content' = [content EXCEPT ![g] = built[r]]

\* GitHub did as asked and its answer is on the way.
Accepted(r) ==
    /\ pc[r] = "sent"
    /\ \E g \in Gists :
          /\ Writes(r, g)
          /\ Put(r, g)
          /\ target' = [target EXCEPT ![r] = g]
    /\ Goto(r, "answered")
    /\ UNCHANGED <<settings, job, alone, unsaved, version, built, gone, orphans>>

\* GitHub did as asked but its answer names no gist: the handler goes on with
\* the empty id, which stands as None: start-up drops it, and an update of
\* it is a 404 that creates a gist, as with none.
Nameless(r) ==
    /\ pc[r] = "sent"
    /\ \E g \in Gists :
          /\ Writes(r, g)
          /\ Put(r, g)
          /\ orphans' = IF target[r] = None THEN orphans \cup {g} ELSE orphans
    /\ target' = [target EXCEPT ![r] = None]
    /\ Goto(r, "answered")
    /\ UNCHANGED <<settings, job, alone, unsaved, version, built, gone>>

\* GitHub did as asked but the answer never came: the upload is an error, a
\* new gist nobody's.
AnswerLost(r) ==
    /\ pc[r] = "sent"
    /\ \E g \in Gists :
          /\ Writes(r, g)
          /\ Put(r, g)
          /\ orphans' = IF target[r] = None THEN orphans \cup {g} ELSE orphans
    /\ Blank(r) /\ Goto(r, "idle")
    /\ UNCHANGED <<settings, job, alone, unsaved, version, gone>>

\* GitHub refused, or was not reached.
Refused(r) ==
    /\ pc[r] = "sent"
    /\ Blank(r) /\ Goto(r, "idle")
    /\ UNCHANGED <<settings, job, alone, unsaved, version, github, orphans>>

\* Mutant: the old id is tried again.
NotFoundAgain(r) ==
    /\ pc[r] = "sent"
    /\ target[r] # None /\ target[r] \notin Live
    /\ Goto(r, "ready")
    /\ UNCHANGED <<settings, job, alone, unsaved, version, upload, github, orphans>>

\* 404 for a gist we remember: it was deleted, create one instead.
NotFound(r) ==
    /\ pc[r] = "sent"
    /\ target[r] # None /\ target[r] \notin Live
    /\ target' = [target EXCEPT ![r] = None]
    /\ Goto(r, "ready")
    /\ UNCHANGED <<settings, job, alone, unsaved, version, built, github, orphans>>

Lose(r) ==
    orphans' = IF pc[r] = "answered" /\ target[r] # state[GistId]
               THEN orphans \cup ({target[r]} \cap Live) ELSE orphans

\* The client hangs up, and the handler is dropped at its await; or the body
\* of the answer does not arrive.
HangUp(r) ==
    /\ pc[r] \in {"waiting", "ready", "sent", "answered"}
    /\ Lose(r)
    /\ Blank(r) /\ Goto(r, "idle")
    /\ UNCHANGED <<settings, job, alone, unsaved, version, github>>

\* The id is kept in memory, in place of the one before; MetaSet writes it to
\* the table.
Remember(r) ==
    /\ pc[r] = "answered"
    /\ Store(r, GistId, target[r])
    /\ orphans' = IF target[r] = None THEN orphans \cup ({state[GistId]} \cap Live)
                  ELSE orphans
    /\ Blank(r)
    /\ UNCHANGED <<env, meta, unsaved, version, github>>

\* The user deletes a gist on github.com.
Vanish(g) ==
    /\ g \in Live
    /\ gone' = gone \cup {g}
    /\ content' = [content EXCEPT ![g] = 0]
    /\ orphans' = orphans \ {g}
    /\ UNCHANGED <<settings, handlers, unsaved, version, upload>>

-----------------------------------------------------------------------------
GistTypeOK ==
    /\ version \in 1 .. MaxVersion
    /\ built \in [Requests -> 0 .. MaxVersion]
    /\ target \in [Requests -> Gists \cup {None}]
    /\ content \in [Gists -> 0 .. MaxVersion]
    /\ gone \subseteq Gists
    /\ orphans \subseteq Gists
=============================================================================

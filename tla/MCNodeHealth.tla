---------------------------- MODULE MCNodeHealth ----------------------------
EXTENDS NodeHealth, TLC

\* Values for the settings: an engine that is never, or at times
\* configured.
NoEngine == {FALSE}
EngineSwitched == {TRUE, FALSE}

\* Backups of this version only, or of an older one as well.
NewBackups == {FALSE}
AnyBackups == {TRUE, FALSE}

\* Runs differ only in their names.
RunSymmetry == Permutations(Runs)

-----------------------------------------------------------------------------
(* Bound: runs meet over a subscription, or subscriptions in a run.        *)

Blank(s) ==
    members[s] = {} /\ ~healthy[s] /\ ~legacy[s] /\ counts[s].nodes = 0

\* All runs, auto-removal too, in the enabled subscriptions.
RunsMeet == \A s \in Subs \ Enabled : Blank(s)

\* All subscriptions and one run at a time, with an engine and removing nothing.
SubsMeet == engine /\ threshold = 0 /\ \E r \in Runs : phase[r] = "idle"

RunsOrSubsMeet == RunsMeet \/ SubsMeet
=============================================================================

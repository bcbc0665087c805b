--------------------------- MODULE SnapshotStore ---------------------------
(***************************************************************************)
(* What SubHub's persistence promises, with every mechanism hidden: the    *)
(* program changes a library in memory, and the durable copy is always one *)
(* of the libraries the memory has held, never a mixture of two of them.   *)
(***************************************************************************)
CONSTANT Library        \* the values the library can take

VARIABLES current,      \* the library in memory
          saved,        \* the library a restart would find
          seen          \* every library the memory has held

absVars == <<current, saved, seen>>

Init ==
    /\ current \in Library
    /\ saved = current
    /\ seen = {current}

\* A handler changes the library in memory.
Change ==
    /\ current' \in Library
    /\ seen' = seen \cup {current'}
    /\ UNCHANGED saved

\* Some library held earlier becomes the durable one.
Save ==
    /\ saved' \in seen
    /\ UNCHANGED <<current, seen>>

\* The program restarts from the durable copy, which a power loss may have
\* taken back to an earlier one.
Reboot ==
    /\ saved' \in seen
    /\ current' = saved'
    /\ UNCHANGED seen

Next == Change \/ Save \/ Reboot

Spec == Init /\ [][Next]_absVars
=============================================================================

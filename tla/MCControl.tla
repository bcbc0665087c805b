----------------------------- MODULE MCControl ------------------------------
EXTENDS Control, TLC

CONSTANT bin    \* an engine

\* The environment sets an interval that is too short, and an engine or none.
Seeded == {(Interval :> 5) @@ (Engine :> e) @@ (GistId :> None) : e \in {bin, None}}
=============================================================================

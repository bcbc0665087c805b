------------------------------ MODULE MCEngine ------------------------------
EXTENDS Engine, TLC

CONSTANTS a, b, s

\* Two calls that launch engines per node, one that launches them per batch.
Sizes == a :> 2 @@ b :> 1 @@ s :> 1
Widths == a :> 2 @@ b :> 1 @@ s :> 1
=============================================================================

------------------------------ MODULE MCConsole ------------------------------
EXTENDS Console, TLC

CONSTANTS t1, t2, v1, v2, s1, s2

MCStarted == t1 :> [enabled |-> TRUE, version |-> v1] @@ t2 :> Nothing
=============================================================================

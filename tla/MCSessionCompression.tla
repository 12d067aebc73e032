------------------------ MODULE MCSessionCompression ------------------------
(* Small instances of SessionCompression for TLC.                           *)
EXTENDS SessionCompression, TLC

CONSTANTS k1, k2, m1, m2, m3, fa, fb

MCKeys == {k1, k2}
MCSources == {m1, m2, m3}

\* m2 and m3 are two texts of one day with the same session id and length.
MCFileOf == (m1 :> fa) @@ (m2 :> fb) @@ (m3 :> fb)

\* A call, its retry with the sources in the other order, its dry run, and
\* another key.
Do == [key |-> k1, sources |-> <<m1, m2>>, dry |-> FALSE]
Permuted == [Do EXCEPT !.sources = <<m2, m1>>]
DryRun == [Do EXCEPT !.dry = TRUE]
Other == [key |-> k2, sources |-> <<m3>>, dry |-> FALSE]
MCRequests == {Do, Permuted, DryRun, Other}

CallSymmetry == Permutations(Calls)
=============================================================================

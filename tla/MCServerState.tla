--------------------------- MODULE MCServerState ---------------------------
(* Small instances of ServerState for TLC.                                  *)
EXTENDS ServerState, TLC

RequestSymmetry == Permutations(Requests)
=============================================================================

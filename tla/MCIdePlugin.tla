---------------------------- MODULE MCIdePlugin ----------------------------
(* Small instances of IdePlugin for TLC.                                    *)
EXTENDS IdePlugin, TLC

ProcessSymmetry == Permutations(Processes)
=============================================================================

---------------------------- MODULE MCLightNode ----------------------------
(***************************************************************************)
(* The light client with one asking thread, chains of up to two blocks on  *)
(* two forks and sections of one block.                                    *)
(***************************************************************************)
EXTENDS LightNode, TLC

CONSTANTS t1, f1, f2

MCThreads == {t1}
MCForks   == {f1, f2}

Symmetry == Permutations(MCForks)

=============================================================================

---------------------------- MODULE MCCoreClient ----------------------------
(* Small instances of CoreClient for TLC. *)
EXTENDS CoreClient, TLC

CONSTANTS c1, c2

MCClosures == {c1, c2}
Symmetry == Permutations(MCClosures)
=============================================================================

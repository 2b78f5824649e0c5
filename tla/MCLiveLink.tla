----------------------------- MODULE MCLiveLink -----------------------------
(* Small instances of LiveLink for TLC. *)
EXTENDS LiveLink, TLC

CONSTANTS r1, r2, h1, h2

MCRpc == {r1, r2}
MCHandles == {h1, h2}
Symmetry == Permutations(MCRpc) \cup Permutations(MCHandles)
=============================================================================

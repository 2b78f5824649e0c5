---------------------------- MODULE MCAppInstall ----------------------------
(* Installing an app, small instances for TLC: the transport in the core,  *)
(* with a file of one chunk, whose first is also its last, and a file of    *)
(* two; and the desktop's service with its two pages. They share no state:  *)
(* a behaviour is of one `part`, and the other stands still.                *)
EXTENDS AppInstall, InstallService, TLC

VARIABLE part

CONSTANTS f1, f2, fb, c1, c2

MCFiles == {f1, f2}
MCSize == f1 :> 1 @@ f2 :> 2
MCBytes == fb :> 3
MCSymmetry == Permutations({c1, c2})

MCInit == part \in {"core", "service"} /\ Init /\ InstallInit
MCNext ==
  \/ part = "core" /\ Next /\ UNCHANGED <<part, installVars>>
  \/ part = "service" /\ InstallNext /\ UNCHANGED <<part, vars>>

MCSpec == MCInit /\ [][MCNext]_<<part, vars, installVars>>
=============================================================================

------------------------------ MODULE MCDesktop ------------------------------
(***************************************************************************)
(* Four parts of the desktop program that share no state: what is shown of *)
(* the band's connection, the answers to the band's app, updates, and the  *)
(* hooks in the user's settings.  A behaviour is of one of them, `part`;   *)
(* the others stand still.                                                 *)
(***************************************************************************)
EXTENDS BandStatus, FetchBridge, Updates, HookSettings

VARIABLE part
vars == <<part, bandVars, fetchVars, updateVars, hookVars>>

DesktopInit ==
  /\ part \in {"band", "fetch", "update", "settings"}
  /\ BandInit /\ FetchInit /\ UpdateInit
  /\ HookSettingsInit /\ (part # "settings" => settings = Absent)

Only(p) ==
  /\ UNCHANGED part
  /\ p # "band" => UNCHANGED bandVars
  /\ p # "fetch" => UNCHANGED fetchVars
  /\ p # "update" => UNCHANGED updateVars
  /\ p # "settings" => UNCHANGED hookVars

DesktopNext ==
  \/ part = "band" /\ BandNext /\ Only("band")
  \/ part = "fetch" /\ FetchNext /\ Only("fetch")
  \/ part = "update" /\ UpdateNext /\ Only("update")
  \/ part = "settings" /\ HookSettingsNext /\ Only("settings")

\* Each step of one part, as fairness needs it.
Band(A) == part = "band" /\ A /\ Only("band")
Update(A) == part = "update" /\ A /\ Only("update")
\* The event loop of the main process: some step of it is taken while there is one.
MainRuns ==
  \/ ReadChunk \/ Continue \/ BeginsStart \/ ClientStarts \/ LinkBack \/ PollTick
  \/ \E c \in Callers : Issue(c) \/ Unreachable(c) \/ Enter(c)
\* The daemon answers, the event loop and the timers run, and the client comes
\* back: nothing the user, the band or the network does is taken for granted.
Downloads == Released \/ PartOpens \/ Drained \/ Aborted \/ StreamEnds \/ Cleanup \/ Settles \/ IdleExpires
DesktopSpec ==
  /\ DesktopInit /\ [][DesktopNext]_vars
  /\ WF_vars(Band(DaemonAnswers)) /\ WF_vars(Band(MainRuns))
  /\ WF_vars(Update(Downloads)) /\ WF_vars(Update(WriteErrorTold)) /\ WF_vars(Update(BudgetOver))
=============================================================================

--------------------------- MODULE AgentSessions ---------------------------
(***************************************************************************)
(* The session list every agent source writes (session-manager.ts) and     *)
(* what the status server tells the band of it (status-server.ts).         *)
(*                                                                         *)
(* Abstracted: titles, directories, messages, tools and durations.  The    *)
(* list is kept as getAllSessions returns it, latest update first.         *)
(***************************************************************************)
EXTENDS Integers, Sequences, FiniteSets, SequencesExt, FiniteSetsExt

VARIABLE sessions

Statuses == {"thinking", "running_tool", "completed", "error"}
Active == {"thinking", "running_tool"}

SessionsInit == sessions = <<>>

Known(S, id) == \E i \in DOMAIN S : S[i].id = id
IndexOf(S, id) == CHOOSE i \in DOMAIN S : S[i].id = id
Session(S, id) == S[IndexOf(S, id)]
Others(S, id) == IF Known(S, id) THEN RemoveAt(S, IndexOf(S, id)) ELSE S

\* A patch names a status or keeps the one there is; a session that is
\* created without one is thinking.
UpdateSession(S, id, agent, status) ==
  LET old == IF Known(S, id) THEN Session(S, id)
             ELSE [id |-> id, agent |-> agent, status |-> "thinking"]
  IN <<IF status = "keep" THEN old ELSE [old EXCEPT !.status = status]>> \o Others(S, id)

\* completeSession and failSession change a session but never create one.
EndSession(S, id, status) ==
  IF Known(S, id) THEN <<[Session(S, id) EXCEPT !.status = status]>> \o Others(S, id) ELSE S

(***************************************************************************)
(* What the band reads: with all=1, for each agent its latest session.     *)
(***************************************************************************)
LeanSession(S, agent) ==
  LET own == {i \in DOMAIN S : S[i].agent = agent}
  IN IF own = {} THEN "none" ELSE S[Min(own)].status

SessionsTypeOK ==
  /\ \A i \in DOMAIN sessions : sessions[i].status \in Statuses
  /\ \A i, j \in DOMAIN sessions : sessions[i].id = sessions[j].id => i = j
=============================================================================

------------------------------ MODULE MCAgents ------------------------------
(***************************************************************************)
(* Instances of the agent sources, which share nothing but the session     *)
(* list.  One run covers them all: a behaviour is of one source, chosen at *)
(* its start, while the others stay as they are with nothing to do.        *)
(***************************************************************************)
EXTENDS ClaudeActivity, CodexTailer, AntigravityPoller

VARIABLE source

claudeOwn == <<lines, half, writing, newest, hook, posts, active, position, stray>>
codexOwn == <<log, pos, ctx, watching, read, base, cut>>
agOwn == <<ag, timer, current, lastStatus, prevRaw, grace, idleFor, pause>>
agentVars == <<sessions, claudeOwn, codexOwn, agOwn, source>>

NoClaude == ClaudeOwnInit /\ newest = "none"
NoCodex == CodexInit /\ ~watching /\ \A f \in Logs : log[f] = NoLog
NoAntigravity ==
  AntigravityOwnInit /\ ag = [up |-> FALSE, conv |-> NoConv, status |-> "IDLE", quiet |-> 0]

AgentsInit ==
  \/ source = "claude" /\ ClaudeInit /\ NoCodex /\ NoAntigravity
  \/ source = "codex" /\ CodexInit /\ NoClaude /\ NoAntigravity
  \/ source = "antigravity" /\ AntigravityInit /\ NoClaude /\ NoCodex

AgentsNext ==
  \/ source = "claude" /\ ClaudeNext /\ UNCHANGED <<codexOwn, agOwn, source>>
  \/ source = "codex" /\ CodexNext /\ UNCHANGED <<claudeOwn, agOwn, source>>
  \/ source = "antigravity" /\ AntigravityNext /\ UNCHANGED <<claudeOwn, codexOwn, source>>

AgentsSpec ==
  /\ AgentsInit /\ [][AgentsNext]_agentVars
  /\ CodexFairness
  /\ WF_agVars(source = "antigravity" /\ Poll) /\ WF_agVars(source = "antigravity" /\ TimePasses)

\* In the end the list shows what the agents do: a known log is read to its end,
\* a pause that was misread is learnt from, and a conversation that is over is
\* not shown as running (codex-tailer.ts, antigravity-session.ts).
TailersCatchUp == KnownLogsAreRead /\ PausesAreLearnt /\ EndIsShown

\* The session list is sound: one entry for each session, and of Antigravity's
\* conversations only the one that is followed is shown as running
\* (session-manager.ts, antigravity-session.ts).
ListIsSound == SessionsTypeOK /\ OnlyCurrentRuns
=============================================================================

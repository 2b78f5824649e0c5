------------------------------ MODULE MCQuota ------------------------------
(***************************************************************************)
(* Instances of the parts of the quota: the collector, the two writers of  *)
(* the credential file, the counting of the logs, the calls of the         *)
(* language server, and the label of the reset.  As in MCAgents a          *)
(* behaviour is of one part, and the others have nothing to do.            *)
(***************************************************************************)
EXTENDS QuotaCollector, ClaudeToken, QuotaLog, AntigravityRpc, ResetLabel

VARIABLE part
vars == <<quotaVars, tokenVars, logVars, rpcVars, labelVars, part>>

NoCollector == QuotaInit /\ agent = "codex" /\ server = "down"
NoToken == TokenInit /\ file.life = "over"
NoServerRuns == RpcInit /\ starts = 0
NoLabels == LabelInit /\ clock = 0 /\ resetAt = 0

Init ==
  \/ part = "collector" /\ QuotaInit /\ NoToken /\ LogInit /\ NoServerRuns /\ NoLabels
  \/ part = "token" /\ TokenInit /\ NoCollector /\ LogInit /\ NoServerRuns /\ NoLabels
  \/ part = "log" /\ LogInit /\ NoCollector /\ NoToken /\ NoServerRuns /\ NoLabels
  \/ part = "rpc" /\ RpcInit /\ NoCollector /\ NoToken /\ LogInit /\ NoLabels
  \/ part = "label" /\ LabelInit /\ NoCollector /\ NoToken /\ LogInit /\ NoServerRuns

Next ==
  \/ part = "collector" /\ QuotaNext /\ UNCHANGED <<tokenVars, logVars, rpcVars, labelVars, part>>
  \/ part = "token" /\ TokenNext /\ UNCHANGED <<quotaVars, logVars, rpcVars, labelVars, part>>
  \/ part = "log" /\ LogNext /\ UNCHANGED <<quotaVars, tokenVars, rpcVars, labelVars, part>>
  \/ part = "rpc" /\ RpcNext /\ UNCHANGED <<quotaVars, tokenVars, logVars, labelVars, part>>
  \/ part = "label" /\ LabelNext /\ UNCHANGED <<quotaVars, tokenVars, logVars, rpcVars, part>>

(* /status is asked for again and again, time passes, and a fetch ends;    *)
(* the pollers of the language server come round again (setInterval, the   *)
(* interval of the quota) and their requests end (the timeouts of fetch).  *)
Spec ==
  /\ Init /\ [][Next]_vars
  /\ WF_quotaVars(part = "collector" /\ GetQuotas)
  /\ WF_quotaVars(part = "collector" /\ Tick)
  /\ WF_quotaVars(part = "collector" /\ \E r \in Servers : Answer(r))
  /\ \A c \in Pollers : WF_rpcVars(part = "rpc" /\ RpcStep(c))

\* What is served as the server's own reading is one, of a window that is not
\* over (quota-collector.ts, the cache and its expiry).
QuotaIsCurrent == QuotaTypeOK /\ AuthoritativeIsFresh /\ OldWindowIsForgotten

\* What is said of usage and of the reset agrees with the logs and the clock:
\* each message counts once, in its block, never below the reading, and the day
\* of the reset is right (quota-collector.ts, agent-quota-utils.ts).
LogsAddUp == EachMessageOnce /\ FallbackIsABlock /\ NeverBelowTheReading /\ DayIsRight

\* The login survives two programs renewing it at once (claude-token.ts).
LoginSurvives == TokenTypeOK /\ LoginIsKept

\* Failures pass: while they last nobody is asked more often than the backoff
\* allows, and once the servers answer again readings and data come again
\* (quota-collector.ts, antigravity-rpc.ts).
QuotaHeals == BackoffIsKept /\ QuotaRecovers /\ RpcHeals
=============================================================================

--------------------------- MODULE QuotaCollector ---------------------------
(***************************************************************************)
(* How the desktop keeps one agent's quota (class QuotaCollector of        *)
(* quota-collector.ts): getQuotas answers at once from what it has, behind *)
(* a short cache, and starts a fetch in the background when one is due.    *)
(* The three agents' sources share nothing but that cache, which an answer *)
(* for any of them clears; one behaviour is of one agent.                  *)
(*                                                                         *)
(* Time is counted in ticks; times to come are counted down to 0, ages up  *)
(* to a cap past which nothing depends on them.  Percentages are "some" or *)
(* none used; texts and levels are left out.                               *)
(*                                                                         *)
(* External: the agent's server, and whoever polls /status.                *)
(***************************************************************************)
EXTENDS Integers, FiniteSetsExt

CONSTANTS
  Interval,    \* intervalFor
  StaleAfter,  \* staleAfter
  AuthWait,    \* the wait after a refused credential (5 minutes)
  BackoffMax,  \* BACKOFF_MAX_MS
  CacheTtl,    \* CACHE_TTL_MS
  Waits,       \* the retry-after values the server gives
  WindowEnds   \* the times to the window's reset a reading may give; 0 is none

ASSUME QuotaAssumption ==
  /\ {Interval, StaleAfter, AuthWait, BackoffMax, CacheTtl} \subseteq Nat \ {0}
  /\ Waits \subseteq Nat \ {0} /\ WindowEnds \subseteq Nat
\* A number in a header has a largest value.
ASSUME WaitsAssumption == \E w \in Waits \cup {0} : \A v \in Waits : v <= w

VARIABLES
  agent,      \* whose quota it is
  live,       \* the last reading, or NoReading
  saved,      \* the reading on disk (saveClaudeState), or NoReading
  fetching,
  nextTry,    \* ticks until the next try is allowed
  backoff,
  authError,
  cache,      \* the answer being served, or NoCache
  server,     \* what the agent's server does: "ok", "auth", "limited" or "down"
  \* Read by properties only:
  lastAnswer, \* the last result of a fetch
  fails,      \* failures since the last result that was not one
  waited      \* ticks since the last result

quotaVars == <<agent, live, saved, fetching, nextTry, backoff, authError, cache, server, lastAnswer, fails, waited>>

NoReading == [age |-> -1, used |-> FALSE, left |-> 0, ends |-> FALSE]
NoCache == [age |-> -1, used |-> FALSE, authoritative |-> FALSE, needsAuth |-> FALSE]
\* What the fetchers make of the answers they get: only the one for Claude
\* tells its failures apart.
FetchClaudeUsageResults == {"ok", "auth", "limited", "down"}
FetchCodexUsageResults == {"ok", "down"}
FetchAntigravityUsageResults == {"ok", "down"}
Servers == CASE agent = "claude" -> FetchClaudeUsageResults
             [] agent = "codex" -> FetchCodexUsageResults
             [] agent = "antigravity" -> FetchAntigravityUsageResults
AgeCap == StaleAfter + CacheTtl + 1

\* penalise doubles the wait up to its maximum.
Penalty(b) == Min({IF b = 0 THEN Interval ELSE 2 * b, BackoffMax})

QuotaInit ==
  /\ agent \in {"claude", "codex", "antigravity"}
  \* The constructor, with or without a reading saved by an earlier run.
  /\ saved \in {NoReading} \cup
       [age : {0, StaleAfter}, used : {TRUE}, left : WindowEnds \ {0}, ends : {TRUE}]
  /\ agent # "claude" => saved = NoReading
  /\ live = saved
  /\ fetching = FALSE /\ nextTry = 0 /\ backoff = 0 /\ authError = FALSE
  /\ cache = NoCache
  /\ server \in Servers
  /\ lastAnswer = "none" /\ fails = 0 /\ waited = 0

\* Mutant: no fetch while the credential is refused.
Due_Authorised ==
  /\ ~fetching /\ nextTry = 0 /\ ~authError
  /\ live # NoReading => live.age >= Interval
Due ==
  /\ ~fetching /\ nextTry = 0
  /\ live # NoReading => live.age >= Interval

\* expire, and the check of extrapolateClaude5h: the window has been reset.
Expired(r) == r.ends /\ r.left <= 0

\* fromLive: the last reading, for Claude carried on with the tokens of the
\* local logs, which can only add to it.
FromLive == [age |-> 0, used |-> live.used /\ ~Expired(live),
             authoritative |-> live.age < StaleAfter, needsAuth |-> FALSE]
\* Without a reading, whatever Claude's local logs say.
FromLogs == [age : {0}, used : BOOLEAN, authoritative : {FALSE}, needsAuth : {FALSE}]
\* Likewise the last limits Codex wrote into its logs, if they are not expired.
FindLatestCodexRateLimits == FromLogs
CollectCodexQuota == IF live # NoReading THEN {FromLive} ELSE FindLatestCodexRateLimits
CollectAntigravityQuota == IF live # NoReading THEN {FromLive} ELSE FromLogs
CollectClaudeQuota ==
  { IF authError THEN [q EXCEPT !.needsAuth = TRUE, !.authoritative = FALSE] ELSE q :
      q \in IF live # NoReading THEN {FromLive} ELSE FromLogs }
Collect == CASE agent = "claude" -> CollectClaudeQuota
             [] agent = "codex" -> CollectCodexQuota
             [] agent = "antigravity" -> CollectAntigravityQuota

GetQuotas ==
  /\ IF cache # NoCache /\ cache.age < CacheTtl THEN UNCHANGED <<fetching, cache>>
     ELSE fetching' = (fetching \/ Due) /\ cache' \in Collect
  /\ UNCHANGED <<agent, live, saved, nextTry, backoff, authError, server, lastAnswer, fails, waited>>

\* Mutant: an answer that the credential is refused leaves the cache.
AuthCache_Kept == cache
AuthCache == NoCache
(***************************************************************************)
(* refreshLive, when the fetcher's result r is in.                         *)
(***************************************************************************)
\* saveClaudeState: a write that fails leaves what was there.
SaveClaudeState(reading) == saved' \in {reading, saved}
Succeed ==
  \E reading \in [age : {0}, used : BOOLEAN, left : WindowEnds, ends : BOOLEAN] :
    /\ reading.ends <=> reading.left > 0
    /\ live' = reading
    /\ IF agent = "claude" /\ reading.ends THEN SaveClaudeState(reading) ELSE UNCHANGED saved
    /\ authError' = FALSE /\ cache' = NoCache /\ backoff' = 0
    /\ fails' = 0
    /\ UNCHANGED nextTry

AuthRefused ==
  /\ authError' = TRUE /\ backoff' = 0 /\ nextTry' = AuthWait /\ cache' = AuthCache
  /\ fails' = 0
  /\ UNCHANGED <<live, saved>>

Limited ==
  /\ nextTry' \in Waits
  /\ backoff' = 0 /\ cache' = NoCache
  /\ fails' = 0
  /\ UNCHANGED <<live, saved, authError>>

Fail ==
  /\ backoff' = Penalty(backoff)
  /\ nextTry' = Penalty(backoff)
  /\ fails' = Min({fails + 1, BackoffMax})
  /\ UNCHANGED <<live, saved, authError, cache>>

\* The result is what the server does now, or a failure on the way.
Answer(r) ==
  /\ fetching
  /\ r \in {server, "down"}
  /\ \/ r = "ok" /\ Succeed
     \/ r = "auth" /\ AuthRefused
     \/ r = "limited" /\ (Limited \/ Fail)  \* with a retry-after or without
     \/ r = "down" /\ Fail
  /\ fetching' = FALSE
  /\ lastAnswer' = r
  /\ waited' = 0
  /\ UNCHANGED <<agent, server>>

\* An answer for another agent.
CacheCleared == cache' = NoCache /\ cache # NoCache /\ UNCHANGED <<agent, live, saved, fetching,
                                      nextTry, backoff, authError, server, lastAnswer, fails, waited>>

Older(r) == IF r = NoReading THEN r
            ELSE [r EXCEPT !.age = Min({AgeCap, @ + 1}),
                           !.left = IF r.ends THEN Max({-CacheTtl - 1, @ - 1}) ELSE 0]
Tick ==
  /\ live' = Older(live) /\ saved' = Older(saved)
  /\ nextTry' = Max({0, nextTry - 1})
  /\ cache' = IF cache = NoCache THEN cache ELSE [cache EXCEPT !.age = Min({CacheTtl, @ + 1})]
  /\ waited' = Min({BackoffMax, waited + 1})
  /\ UNCHANGED <<agent, fetching, backoff, authError, server, lastAnswer, fails>>

\* Pulse is started again; the constructor restores what was saved.
LoadClaudeState == saved
Restart ==
  /\ live' = LoadClaudeState
  /\ fetching' = FALSE /\ nextTry' = 0 /\ backoff' = 0 /\ authError' = FALSE
  /\ cache' = NoCache
  /\ lastAnswer' = "none" /\ fails' = 0 /\ waited' = 0
  /\ UNCHANGED <<agent, saved, server>>

ServerChanges == server' \in Servers /\ UNCHANGED <<agent, live, saved, fetching, nextTry,
                           backoff, authError, cache, lastAnswer, fails, waited>>

QuotaNext ==
  \/ GetQuotas \/ CacheCleared \/ Tick \/ Restart \/ ServerChanges
  \/ \E r \in Servers : Answer(r)

(***************************************************************************)
(* Properties.                                                             *)
(***************************************************************************)
QuotaTypeOK ==
  /\ {live, saved} \subseteq {NoReading} \cup
       [age : 0..AgeCap, used : BOOLEAN, left : Int, ends : BOOLEAN]
  /\ nextTry \in 0..Max(Waits \cup {BackoffMax, AuthWait})
  /\ backoff \in 0..BackoffMax

Served == cache # NoCache /\ cache.age < CacheTtl

\* What is served as the server's own word was its word not long ago, and
\* the server has not refused the credential since.
AuthoritativeIsFresh ==
  Served /\ cache.authoritative =>
    live # NoReading /\ live.age < StaleAfter + CacheTtl /\ lastAnswer # "auth"

\* Usage of a window that is over is not served for longer than the cache
\* lives, though no newer reading comes.
OldWindowIsForgotten ==
  Served /\ cache.used /\ live # NoReading /\ live.ends => live.left > -CacheTtl

\* After n failures in a row the next fetch waits for the interval doubled
\* n - 1 times, or the maximum, unless Pulse is started again.
Wanted == Min({BackoffMax, Interval * 2^(fails - 1)})
BackoffIsKept ==
  [][~fetching /\ fetching' /\ fails > 0 => waited >= Wanted]_quotaVars

\* Once the server answers and goes on answering, and Pulse is not started
\* again, new readings keep coming, however many failures there were, and
\* nobody is asked to log in.
QuotaRecovers ==
  <>[](server = "ok") /\ <>[][~Restart /\ ~\E r \in Servers \ {"ok"} : Answer(r)]_quotaVars
     => []<>(live.age = 0) /\ <>[](Served => ~cache.needsAuth)
=============================================================================

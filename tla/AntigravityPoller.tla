------------------------- MODULE AntigravityPoller -------------------------
(***************************************************************************)
(* The poller of Antigravity's language server (antigravity-session.ts),   *)
(* which decides when a cascade that reports IDLE is really over: after a  *)
(* grace that widens with the pauses measured (antigravity-policy.ts).     *)
(*                                                                         *)
(* Time is counted in ticks; ages stop at Cap, past which nothing depends  *)
(* on them.  One poll is one step: it awaits the server's answer first and *)
(* runs to its end on that answer.                                         *)
(*                                                                         *)
(* External: Antigravity, whose latest conversation runs, pauses, changes  *)
(* or goes away; a change of its status is a modification.                 *)
(***************************************************************************)
EXTENDS AgentSessions, FiniteSetsExt

CONSTANTS
  Convs, NoConv,
  ActiveEvery, AbsentEvery,  \* ACTIVE_MS, ABSENT_MS
  GraceMin, GraceMax, Margin \* IDLE_GRACE_MIN_MS, _MAX_MS, _MARGIN_MS

ASSUME AntigravityAssumption ==
  /\ NoConv \notin Convs
  /\ {ActiveEvery, AbsentEvery, GraceMin, Margin} \subseteq Nat \ {0}
  /\ GraceMax \in Nat /\ GraceMin < GraceMax

VARIABLES
  ag,       \* [up, conv, status, quiet]: the server and its latest conversation
  timer,    \* ticks until the timer fires
  current,  \* currentId
  lastStatus,
  prevRaw,
  grace,    \* graceMs
  idleFor,  \* the age of idleSince, or -1 for none
  \* Read by properties only:
  pause     \* ticks since this conversation was first seen idle after running, or -1

agVars == <<sessions, ag, timer, current, lastStatus, prevRaw, grace, idleFor, pause>>

Runs == {"RUNNING", "BUSY"}
RawStatuses == Runs \cup {"IDLE", "CANCELING"}
Cap == GraceMax + Margin + ActiveEvery

NextIdleGrace(current_, gap) ==
  LET wanted == gap + Margin
  IN IF wanted <= current_ THEN current_ ELSE Min({GraceMax, wanted})

AntigravityOwnInit ==
  /\ ag \in [up : BOOLEAN, conv : Convs \cup {NoConv}, status : {"IDLE", "RUNNING"}, quiet : {0}]
  /\ timer = ActiveEvery
  /\ current = NoConv /\ lastStatus = "null" /\ prevRaw = "null"
  /\ grace = GraceMin /\ idleFor = -1 /\ pause = -1
AntigravityInit == SessionsInit /\ AntigravityOwnInit

\* Mutant: the session that was running is left as it is.
FinishActive_Not(S) == S
\* finishActive.
FinishActive(S) ==
  IF current # NoConv /\ Known(S, current) /\ Session(S, current).status \in Active
  THEN EndSession(S, current, "completed") ELSE S

Forget(c) ==
  /\ current' = c /\ lastStatus' = "null" /\ prevRaw' = "null"
  /\ grace' = GraceMin /\ idleFor' = -1

(***************************************************************************)
(* poll, when the server does not answer or has no conversation.           *)
(***************************************************************************)
PollFindsNothing ==
  /\ ~ag.up \/ ag.conv = NoConv
  /\ sessions' = FinishActive(sessions)
  /\ Forget(NoConv)
  /\ timer' = IF ag.up THEN ActiveEvery ELSE AbsentEvery
  /\ pause' = -1

\* The age of idleSince after this poll has looked at the status: only an
\* IDLE that follows a running state starts the measure.
Measured(st, was, idle) ==
  IF st # "IDLE" THEN -1 ELSE IF idle = -1 /\ was THEN 0 ELSE idle

\* graceMs after a poll that sees the conversation run again.
Widened(st, last, idle) ==
  IF st # "IDLE" /\ idle # -1 THEN NextIdleGrace(grace, idle) ELSE grace

\* The status is new, and the grace is over.
Verdict(st, last, quiet, g) == st = "IDLE" /\ st # last /\ quiet > g

(***************************************************************************)
(* poll on the latest conversation.  A new one is switched to first, which *)
(* resets what was measured; fresh is what the rest of the poll starts     *)
(* from.                                                                   *)
(***************************************************************************)
PollConversation ==
  /\ ag.up /\ ag.conv # NoConv
  /\ LET new == ag.conv # current
         S == IF new THEN FinishActive(sessions) ELSE sessions
         last == IF new THEN "null" ELSE lastStatus
         was == ~new /\ prevRaw \in Runs
         idle == IF new THEN -1 ELSE idleFor
         st == ag.status
         g == IF new THEN GraceMin ELSE Widened(st, last, idle)
         until == g - ag.quiet + 1
     IN
     /\ current' = ag.conv
     /\ prevRaw' = st
     /\ idleFor' = Measured(st, was, idle)
     /\ grace' = g
     /\ CASE st \in Runs /\ st # last ->
               /\ sessions' = UpdateSession(S, ag.conv, "antigravity",
                                            IF st = "RUNNING" THEN "running_tool" ELSE "thinking")
               /\ lastStatus' = st
          [] Verdict(st, last, ag.quiet, g) ->
               /\ sessions' = UpdateSession(S, ag.conv, "antigravity", "completed")
               /\ lastStatus' = st
          [] OTHER -> sessions' = S /\ lastStatus' = last
     \* nextDelayOverride: an idle conversation is looked at again when its
     \* grace ends (a time that has passed is at once; 0 is no override).
     /\ timer' = IF st = "IDLE" /\ st # last /\ until < ActiveEvery /\ until # 0
               THEN Max({0, until}) ELSE ActiveEvery
     /\ pause' = IF st # "IDLE" THEN -1
                 ELSE IF was THEN 0 ELSE IF new THEN -1 ELSE pause

Poll == timer = 0 /\ (PollFindsNothing \/ PollConversation) /\ UNCHANGED ag

TimePasses ==
  /\ timer > 0 /\ timer' = timer - 1
  /\ ag' = [ag EXCEPT !.quiet = Min({Cap, @ + 1})]
  /\ idleFor' = IF idleFor = -1 THEN -1 ELSE Min({Cap, idleFor + 1})
  /\ pause' = IF pause = -1 THEN -1 ELSE Min({Cap, pause + 1})
  /\ UNCHANGED <<sessions, current, lastStatus, prevRaw, grace>>

Antigravity ==
  /\ ag' \in [up : BOOLEAN, conv : Convs \cup {NoConv}, status : RawStatuses, quiet : {0}]
  /\ UNCHANGED <<sessions, timer, current, lastStatus, prevRaw, grace, idleFor, pause>>

AntigravityNext == Poll \/ TimePasses \/ Antigravity
AntigravityFairness == WF_agVars(Poll) /\ WF_agVars(TimePasses)

(***************************************************************************)
(* Properties.                                                             *)
(***************************************************************************)
ShownRunning == [id : Convs, agent : {"antigravity"}, status : Active]

\* However conversations come and go, only the one being followed is shown
\* as running: no other is left behind active.
OnlyCurrentRuns ==
  \A i \in DOMAIN sessions : sessions[i] \in ShownRunning => sessions[i].id = current

\* A pause that was sat out teaches the poller: once it has seen the
\* conversation run again, the grace covers the pause it measured, so that
\* the same measure is not taken for the end again.
PausesAreLearnt ==
  [][Poll /\ ag.up /\ ag.conv = current /\ ag.status # "IDLE" /\ pause # -1
       => grace' >= Min({GraceMax, pause + Margin})]_agVars

\* Once nothing happens any more at Antigravity and its conversation is not
\* running (or there is none, or the server has gone), no session is shown
\* as running for ever.
EndIsShown ==
  <>[](ag.up => ag.conv = NoConv \/ ag.status = "IDLE") /\ <>[][Poll \/ TimePasses]_agVars
     => <>[](Range(sessions) \cap ShownRunning = {})
=============================================================================

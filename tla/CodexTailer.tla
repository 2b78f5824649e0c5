---------------------------- MODULE CodexTailer ----------------------------
(***************************************************************************)
(* The tailer of Codex session logs (codex-tailer.ts): fs.watch, when it   *)
(* works, reads a file that changed; a poll every 500 ms reads every file  *)
(* known and finds today's new ones.  Both run to completion.              *)
(*                                                                         *)
(* A line is three units long: part of its text, the rest of its text, and *)
(* the newline; positions count units.  A read that starts inside a line   *)
(* gets a tail that does not parse.                                        *)
(*                                                                         *)
(* External: Codex, which appends to its logs; the user, who may delete    *)
(* one; midnight, after which the poll looks in another directory.         *)
(***************************************************************************)
EXTENDS AgentSessions

CONSTANTS
  Logs,       \* files; each is also the session id in its session_meta line
  DefaultId,  \* 'codex-active', for a log whose session_meta was not read
  MaxLines    \* bound: lines of a log

ASSUME CodexAssumption == MaxLines \in Nat /\ DefaultId \notin Logs

VARIABLES
  log,        \* log[f].lines: whole lines; .part: units of the next one;
              \* .next: its record; .dir: "none", "today" or "older"
  pos,        \* filePositions: a position, or Untracked
  ctx,        \* contexts[f]: the session id a log named, or DefaultId
  watching,   \* watchActive
  \* Read by properties only, for each log:
  read,       \* the numbers of the lines parsed, in order
  base,       \* where reading started
  cut         \* the line that was half written at the first full read, or 0

codexVars == <<sessions, log, pos, ctx, watching, read, base, cut>>

Untracked == -1
NoLog == [lines |-> <<>>, part |-> 0, next |-> "none", dir |-> "none"]
Records == {"session_meta", "task_started", "tool_begin", "task_complete", "turn_aborted"}

LogSize(f) == 3 * Len(log[f].lines) + log[f].part
Exists(f) == log[f].dir # "none"

\* parseLine.
ParseLine(S, id, r) ==
  CASE r = "task_complete" -> EndSession(S, id, "completed")
    [] r = "turn_aborted" -> EndSession(S, id, "error")
    [] r = "tool_begin" -> UpdateSession(S, id, "codex", "running_tool")
    [] OTHER -> UpdateSession(S, id, "codex", "thinking")

\* The lines of a chunk, parsed one after the other under a context that
\* session_meta sets; rs are the records, id the context's session.
ParseLines(S, f, id, rs) ==
  FoldLeft(LAMBDA a, r :
             LET i == IF r = "session_meta" THEN f ELSE a.id
             IN [id |-> i, S |-> ParseLine(a.S, i, r)],
           [id |-> id, S |-> S], rs)

Parse(f, id, first, rs) ==
  LET a == ParseLines(sessions, f, id, rs) IN
  /\ sessions' = a.S
  /\ ctx' = [ctx EXCEPT ![f] = a.id]
  /\ read' = [read EXCEPT ![f] = @ \o [i \in 1..Len(rs) |-> first + i - 1]]

\* The position a full read leaves: the length of what was read.
FullReadEnd(f) == LogSize(f)

(***************************************************************************)
(* readFullFile: every line, the last one too if its text is whole.  (If   *)
(* it is not, it will never be read: the position is past its beginning.)  *)
(***************************************************************************)
ReadFullFile(f) ==
  LET rs == log[f].lines \o (IF log[f].part = 2 THEN <<log[f].next>> ELSE <<>>) IN
  /\ Parse(f, DefaultId, 1, rs)
  /\ pos' = [pos EXCEPT ![f] = FullReadEnd(f)]
  /\ base' = [base EXCEPT ![f] = 0]
  /\ cut' = [cut EXCEPT ![f] = IF log[f].part = 1 THEN Len(log[f].lines) + 1 ELSE 0]

\* Mutant: the position is moved to the end of the file, half line and all.
NewPosition_FileEnd(f) == LogSize(f)
NewPosition(f) == 3 * Len(log[f].lines)

(***************************************************************************)
(* readNewLines: from the position (0 for a file that is not known) to the *)
(* last newline; without a newline nothing happens.                        *)
(***************************************************************************)
ReadNewLines(f) ==
  LET from == IF pos[f] \in 0..LogSize(f) THEN pos[f] ELSE 0
      first == (from + 2) \div 3 + 1
  IN IF 3 * Len(log[f].lines) <= from THEN UNCHANGED <<sessions, pos, ctx, read>>
     ELSE /\ pos' = [pos EXCEPT ![f] = NewPosition(f)]
          /\ Parse(f, ctx[f], first, SubSeq(log[f].lines, first, Len(log[f].lines)))

\* fs.watch: an event for f; while the watch lives any file may have one.
WatchEvent(f) ==
  /\ watching /\ Exists(f)
  /\ ReadNewLines(f)
  /\ UNCHANGED <<log, watching, base, cut>>

\* Mutant: the poll leaves the known files to the watch while that lives.
Polled_WithoutWatch(f) == Exists(f) /\ ~watching
Polled(f) == Exists(f)

(***************************************************************************)
(* checkActiveFiles, one file at a time: the known files are read, those   *)
(* that are gone forgotten, and today's unknown ones read in full.         *)
(***************************************************************************)
CheckFile(f) ==
  \/ /\ pos[f] # Untracked /\ Polled(f)
     /\ ReadNewLines(f)
     /\ UNCHANGED <<base, cut>>
  \/ /\ pos[f] # Untracked /\ ~Exists(f)
     /\ pos' = [pos EXCEPT ![f] = Untracked]
     /\ ctx' = [ctx EXCEPT ![f] = DefaultId]
     /\ read' = [read EXCEPT ![f] = <<>>]
     /\ UNCHANGED <<sessions, base, cut>>
  \/ /\ pos[f] = Untracked /\ log[f].dir = "today"
     /\ ReadFullFile(f)

CheckActiveFiles(f) == CheckFile(f) /\ UNCHANGED <<log, watching>>

WatchFails == watching /\ watching' = FALSE /\ UNCHANGED <<sessions, log, pos, ctx, read, base, cut>>

(***************************************************************************)
(* Codex and the world.                                                    *)
(***************************************************************************)
MayFollow(r, f) ==
  LET all == log[f].lines IN
  IF all = <<>> THEN r = "session_meta"
  ELSE CASE r = "task_started" -> Last(all) \notin {"task_started", "tool_begin"}
         [] r = "session_meta" -> FALSE
         [] OTHER -> Last(all) \in {"task_started", "tool_begin"}

\* A log's name holds the time of its creation and is not used again (here:
\* not before the poll has forgotten it).
Create(f) ==
  /\ log[f] = NoLog /\ pos[f] = Untracked
  /\ log' = [log EXCEPT ![f].dir = "today"]
  /\ UNCHANGED <<sessions, pos, ctx, watching, read, base, cut>>

CodexWrites(f) ==
  /\ Exists(f) /\ Len(log[f].lines) < MaxLines
  /\ \/ /\ log[f].part = 0
        /\ \E r \in Records : MayFollow(r, f) /\ log' = [log EXCEPT ![f].next = r, ![f].part = 1]
     \/ /\ log[f].part = 1
        /\ log' = [log EXCEPT ![f].part = 2]
     \/ /\ log[f].part = 2
        /\ log' = [log EXCEPT ![f].lines = Append(@, log[f].next), ![f].part = 0, ![f].next = "none"]
  /\ UNCHANGED <<sessions, pos, ctx, watching, read, base, cut>>

Delete(f) ==
  /\ Exists(f) /\ pos[f] # Untracked
  /\ log' = [log EXCEPT ![f] = NoLog]
  /\ UNCHANGED <<sessions, pos, ctx, watching, read, base, cut>>

Midnight ==
  /\ log' = [f \in Logs |-> IF log[f].dir = "today" THEN [log[f] EXCEPT !.dir = "older"] ELSE log[f]]
  /\ UNCHANGED <<sessions, pos, ctx, watching, read, base, cut>>

(***************************************************************************)
(* start with scanInitialFiles: every log there is starts at its end, but  *)
(* the newest is read in full if it changed in the last five minutes.      *)
(***************************************************************************)
Histories == {<<"session_meta">>}
ScanInitialFiles(olds, h, part, recent) ==
  LET old == [lines |-> h, part |-> part,
              next |-> IF part = 0 THEN "none" ELSE "task_complete", dir |-> "today"]
      shown == h \o (IF part = 2 THEN <<"task_complete">> ELSE <<>>)
  IN
  /\ log = [f \in Logs |-> IF f \in olds THEN old ELSE NoLog]
  /\ pos = [f \in Logs |-> IF f \in olds THEN 3 * Len(h) + part ELSE Untracked]
  /\ ctx = [f \in Logs |-> IF f \in recent THEN f ELSE DefaultId]
  /\ read = [f \in Logs |-> IF f \in recent THEN [i \in 1..Len(shown) |-> i] ELSE <<>>]
  /\ base = [f \in Logs |-> IF f \in olds \ recent THEN 3 * Len(h) + part ELSE 0]
  /\ cut = [f \in Logs |-> IF f \in recent /\ part = 1 THEN Len(h) + 1 ELSE 0]
  /\ sessions = IF recent = {} THEN <<>>
                ELSE ParseLines(<<>>, CHOOSE f \in Logs : recent = {f}, DefaultId, shown).S

CodexInit ==
  /\ watching \in BOOLEAN
  /\ \E olds \in SUBSET Logs, h \in Histories, part \in 0..2 :
     \E recent \in {{}} \cup {{f} : f \in olds} : ScanInitialFiles(olds, h, part, recent)

CodexNext ==
  \/ WatchFails \/ Midnight
  \/ \E f \in Logs : WatchEvent(f) \/ CheckActiveFiles(f) \/ Create(f) \/ CodexWrites(f) \/ Delete(f)

\* Whether the poll has something to do for f.
Due(f) ==
  \/ pos[f] = Untracked /\ log[f].dir = "today"
  \/ pos[f] # Untracked /\ ~Exists(f)
  \/ pos[f] # Untracked /\ Polled(f)
       /\ 3 * Len(log[f].lines) > (IF pos[f] <= LogSize(f) THEN pos[f] ELSE 0)

\* Weak fairness of the poll, which its timer runs every 500 ms, with the
\* condition under which it changes anything written out.
CodexFairness == \A f \in Logs : []<>~Due(f) \/ []<><<CheckActiveFiles(f)>>_codexVars

(***************************************************************************)
(* Properties.                                                             *)
(***************************************************************************)
Tracked(f) == pos[f] # Untracked /\ Exists(f) /\ pos[f] <= LogSize(f)
\* The lines of f that lie whole between where reading began and position p.
Between(f, p) == {i \in 1..Len(log[f].lines) : 3 * (i - 1) >= base[f] /\ 3 * i <= p}

\* Every line is parsed once and in order, through restarts of the watch,
\* the poll reading behind it, and the first full read of a new log ("we
\* NEVER replay past notifications").
LinesReadOnce ==
  \A f \in Logs : \A i, j \in DOMAIN read[f] : i < j => read[f][i] < read[f][j]

\* No line is passed over, except the one a first full read found half
\* written.
NoLinePassedOver ==
  \A f \in Logs : Tracked(f) => Between(f, pos[f]) \subseteq Range(read[f]) \cup {cut[f]}

\* What the list says of a log that was read from its beginning is what its
\* last line says.
SessionFollowsLog ==
  \A f \in Logs :
    Tracked(f) /\ ctx[f] = f /\ base[f] = 0 /\ cut[f] = 0 /\ read[f] # <<>> /\ pos[f] = LogSize(f)
       /\ log[f].part = 0 /\ Known(sessions, f) =>
      Session(sessions, f).status =
        CASE Last(log[f].lines) = "tool_begin" -> "running_tool"
          [] Last(log[f].lines) = "task_complete" -> "completed"
          [] Last(log[f].lines) = "turn_aborted" -> "error"
          [] OTHER -> "thinking"

\* A whole line of a log that is known is read in the end, watch or no watch.
KnownLogsAreRead ==
  \A f \in Logs, n \in 1..MaxLines :
    (Tracked(f) /\ Len(log[f].lines) = n) ~> (~Exists(f) \/ pos[f] >= 3 * n)

\* Every whole line of a log reaches the session list once, in order, and the
\* list says what the last line says (codex-tailer.ts, readNewLines, parseLine).
LogIsFollowed == LinesReadOnce /\ NoLinePassedOver /\ SessionFollowsLog
=============================================================================

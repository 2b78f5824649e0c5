--------------------------- MODULE ClaudeActivity ---------------------------
(***************************************************************************)
(* Claude as Pulse sees it, through two sources that do not know of each   *)
(* other: hooks, which Claude Code runs as processes that post an event to *)
(* claude-hook-server.ts (scripts/claude-hook.cjs), and the transcripts,   *)
(* which claude-desktop-tailer.ts reads every 500 ms.  The hooks report a  *)
(* session under its own id, the tailer every session as DesktopId.        *)
(*                                                                         *)
(* A transcript line is two units long: its text up to some point and the  *)
(* rest with the newline.  Positions count units; a read that starts in    *)
(* the middle of a line gets a tail that does not parse.                   *)
(*                                                                         *)
(* External: Claude Code, which runs a hook and then writes the line of    *)
(* the same event, one event after the other.                              *)
(***************************************************************************)
EXTENDS AgentSessions

CONSTANTS
  Transcripts,  \* files; each is also the session id of its hooks
  DesktopId,    \* 'claude-desktop'
  Window,       \* units read of a file that becomes the newest (64 KB):
                \* three lines, or two while one is being written
  MaxEvents     \* bound: events Claude produces

ASSUME ClaudeAssumption ==
  Window \in Nat /\ Window >= 6 /\ MaxEvents \in Nat
  /\ DesktopId \notin Transcripts /\ "none" \notin Transcripts

VARIABLES
  lines,      \* lines[f]: the events written to transcript f
  half,       \* half[f]: the next line is partly written
  writing,    \* the event Claude has still to write, or "none"
  newest,     \* the file written last
  hook,       \* a hook process is running: Claude waits for it
  posts,      \* events posted and not yet handled, oldest first
  active,     \* activeJsonlPath, or "none"
  position,   \* filePosition
  stray       \* read by properties only: since Claude's last report a post was
              \* handled whose hook had given up

claudeVars == <<sessions, lines, half, writing, newest, hook, posts, active, position, stray>>

EventKinds == {"prompt", "tool", "toolResult", "stop", "text"}

\* handleClaudeEvent, by the hook's event.
HookStatus(ev) ==
  CASE ev \in {"prompt", "toolResult"} -> "thinking"
    [] ev = "tool" -> "running_tool"

\* Mutant: Stop updates the session instead of ending it.
HandleClaudeEvent_StopUpdates(S, id, ev) ==
  UpdateSession(S, id, "claude", IF ev = "stop" THEN "keep" ELSE HookStatus(ev))
HandleClaudeEvent(S, id, ev) ==
  IF ev = "stop" THEN EndSession(S, id, "completed")
  ELSE UpdateSession(S, id, "claude", HookStatus(ev))

\* parseJsonLine: plain text of the assistant changes nothing.
ParseJsonLine(S, ev) ==
  CASE ev = "text" -> S
    [] ev = "stop" -> EndSession(S, DesktopId, "completed")
    [] ev = "tool" -> UpdateSession(S, DesktopId, "claude", "running_tool")
    [] OTHER -> UpdateSession(S, DesktopId, "claude", "thinking")

TranscriptSize(f) == 2 * Len(lines[f]) + (IF half[f] THEN 1 ELSE 0)
LastNewline(f) == 2 * Len(lines[f])

(***************************************************************************)
(* readNewLines from position p of f: a file shorter than p is read anew,  *)
(* and what follows the last newline is left for the next time.            *)
(***************************************************************************)
ReadFrom(f, p) == IF TranscriptSize(f) < p THEN 0 ELSE p
ReadTranscript(f, p) ==
  LET from == ReadFrom(f, p)
      first == (from + 1) \div 2 + 1
  IN IF LastNewline(f) <= from
     THEN position' = from /\ UNCHANGED sessions
     ELSE /\ position' = LastNewline(f)
          /\ sessions' = FoldLeft(ParseJsonLine, sessions, SubSeq(lines[f], first, Len(lines[f])))

StartOf(f) == IF TranscriptSize(f) > Window THEN TranscriptSize(f) - Window ELSE 0

\* tick: findAndTailNewestProject, which reads a file it switches to, and
\* the read of the active file (which finds nothing more after a switch).
TailerTick ==
  /\ newest # "none"
  /\ active' = newest
  /\ ReadTranscript(newest, IF active = newest THEN position ELSE StartOf(newest))
  /\ UNCHANGED <<lines, half, writing, newest, hook, posts, stray>>

(***************************************************************************)
(* The environment: Claude's events, their hooks and lines.                *)
(***************************************************************************)
Events == LET n(f) == Len(lines[f]) IN
  FoldSet(LAMBDA f, s : s + n(f), 0, Transcripts) + (IF writing.ev = "none" THEN 0 ELSE 1)
Nothing == [f |-> "none", ev |-> "none"]
LastEvent(f) ==
  LET told == {i \in DOMAIN lines[f] : lines[f][i] # "text"}
  IN IF told = {} THEN "stop" ELSE lines[f][Max(told)]
InTurn(f) == LastEvent(f) # "stop"

\* What may follow what; one session is in a turn at a time, and a line
\* that says nothing of the turn is not followed by another, so that the
\* last 64 KB of a file hold the last line that does.
Follows(ev, f) ==
  CASE ev = "prompt" -> \A g \in Transcripts : ~InTurn(g)
    [] ev = "toolResult" -> LastEvent(f) = "tool"
    [] ev = "text" -> InTurn(f) /\ Last(lines[f]) # "text"
    [] OTHER -> LastEvent(f) \in {"prompt", "toolResult"}

ClaudeOwnInit ==
  \* Pulse starts after a turn that ended (the rest of which lies further
  \* back than Pulse reads), or before there is any.
  /\ \E old \in {<<>>, <<"stop">>}, g \in Transcripts :
       /\ lines = [f \in Transcripts |-> IF f = g THEN old ELSE <<>>]
       /\ newest = IF old = <<>> THEN "none" ELSE g
  /\ half = [f \in Transcripts |-> FALSE]
  /\ writing = Nothing
  /\ hook = FALSE
  /\ posts = <<>>
  /\ active = "none"
  /\ position = 0
  /\ stray = FALSE
ClaudeInit == SessionsInit /\ ClaudeOwnInit

Act(f, ev) ==
  /\ writing = Nothing /\ ~hook
  /\ Events < MaxEvents
  /\ Follows(ev, f)
  /\ writing' = [f |-> f, ev |-> ev]
  /\ IF ev = "text" THEN UNCHANGED <<hook, posts>>
     ELSE hook' = TRUE /\ posts' = Append(posts, [f |-> f, ev |-> ev, waited |-> TRUE])
  /\ stray' = (stray /\ ev = "text")
  /\ UNCHANGED <<sessions, lines, half, newest, active, position>>

WriteHalf ==
  /\ writing # Nothing /\ ~half[writing.f]
  /\ half' = [half EXCEPT ![writing.f] = TRUE]
  /\ newest' = writing.f
  /\ UNCHANGED <<sessions, lines, writing, hook, posts, active, position, stray>>

WriteRest ==
  /\ writing # Nothing /\ half[writing.f]
  /\ lines' = [lines EXCEPT ![writing.f] = Append(@, writing.ev)]
  /\ half' = [half EXCEPT ![writing.f] = FALSE]
  /\ newest' = writing.f
  /\ writing' = Nothing
  /\ UNCHANGED <<sessions, hook, posts, active, position, stray>>

\* The server handles a post, or refuses it (413, 415, 400).
HookServer(i) ==
  /\ i \in DOMAIN posts
  /\ posts' = RemoveAt(posts, i)
  /\ \/ sessions' = HandleClaudeEvent(sessions, posts[i].f, posts[i].ev)
     \/ UNCHANGED sessions
  /\ stray' = (stray \/ ~posts[i].waited)
  /\ hook' = (hook /\ ~posts[i].waited)
  /\ UNCHANGED <<lines, half, writing, newest, active, position>>

\* The hook process exits on its timeout; the post is lost or still comes.
HookTimesOut ==
  /\ hook
  /\ hook' = FALSE
  /\ posts' \in {Front(posts), [posts EXCEPT ![Len(posts)].waited = FALSE]}
  /\ UNCHANGED <<sessions, lines, half, writing, newest, active, position, stray>>

ClaudeNext ==
  \/ TailerTick \/ WriteHalf \/ WriteRest \/ HookTimesOut
  \/ \E f \in Transcripts, ev \in EventKinds : Act(f, ev)
  \/ \E i \in 1..Len(posts) : HookServer(i)

(***************************************************************************)
(* Properties.                                                             *)
(***************************************************************************)
Told(ev) == IF ev = "stop" THEN "completed" ELSE HookStatus(ev)
Settled ==
  /\ posts = <<>> /\ writing = Nothing
  /\ active = newest /\ newest # "none" /\ position = TranscriptSize(newest)

\* Once all is read, the band shows what Claude did last, although either
\* source alone may have missed it (a lost hook, a line read in two pieces,
\* a switch of transcripts).  Only a post that outlives its hook's timeout
\* can mislead it, and no longer than until Claude's next event.
\* A turn Pulse never saw running need not be shown as completed.
BandShowsTurn ==
  Settled /\ ~stray =>
    LET truth == Told(LastEvent(newest)) IN
    \/ LeanSession(sessions, "claude") = truth
    \/ LeanSession(sessions, "claude") = "none" /\ truth = "completed"
=============================================================================

------------------------------ MODULE QuotaLog ------------------------------
(***************************************************************************)
(* What Pulse counts in Claude Code's logs (claudeBlockTokens,             *)
(* claudeFallbackBlockTokens) and how it carries the last reading of the   *)
(* 5-hour window on with it (claudeAnchor and extrapolateClaude5h of       *)
(* quota-collector.ts).                                                    *)
(*                                                                         *)
(* A log line is the usage of one message so far: a message is logged      *)
(* several times while it is streamed, and a session that is resumed has   *)
(* its lines in a second file.  Time is in ticks, Hour and Block of which  *)
(* stand for an hour and for five.                                         *)
(***************************************************************************)
EXTENDS Integers, FiniteSets, SequencesExt, FiniteSetsExt, Functions, Folds

CONSTANTS
  Messages, LogFiles,
  Hour, Block,
  TokenTtl,  \* TOKEN_TTL_MS
  MaxNow,    \* bound: ticks
  MaxIo      \* bound: tokens of one message

ASSUME QuotaLogAssumption ==
  /\ {Hour, Block, TokenTtl, MaxNow, MaxIo} \subseteq Nat \ {0}
  /\ Block % Hour = 0
  /\ IsFiniteSet(Messages) /\ IsFiniteSet(LogFiles)

VARIABLES
  now,
  log,         \* the lines of each file
  anchor,      \* [pct, start, tokens] of the last reading, or NoAnchor
  tokenCache,  \* [start, at, value]
  pct5h,       \* the percentage last computed, and the window it is of
  usage        \* read by properties only: what each message used, and when

logVars == <<now, log, anchor, tokenCache, pct5h, usage>>

NoAnchor == [pct |-> 0, start |-> -1, tokens |-> 0]
NoShown == [pct |-> 0, start |-> -1]
NoTokens == [start |-> -1, at |-> 0, value |-> 0]

LogInit ==
  /\ now = 0 /\ log = [f \in LogFiles |-> <<>>]
  /\ anchor = NoAnchor /\ tokenCache = NoTokens /\ pct5h = NoShown
  /\ usage = [m \in Messages |-> [ts |-> -1, io |-> 0]]

(***************************************************************************)
(* Counting.                                                               *)
(***************************************************************************)
AllLines == FoldSet(LAMBDA f, lines : lines \o log[f], <<>>, LogFiles)

InWindow(lines, from) == {i \in DOMAIN lines : from <= lines[i].ts /\ lines[i].ts <= now}

\* Mutant: the first line of a message stays.
LastOfEach_First(lines, from) ==
  LET is == InWindow(lines, from) IN
  [k \in {lines[i].key : i \in is} |->
     LET i == Min({j \in is : lines[j].key = k})
     IN [ts |-> lines[i].ts, io |-> lines[i].io]]
\* The map of what each message used since a time: of its lines the latest, and
\* of those the last one read.
LastOfEach(lines, from) ==
  LET is == InWindow(lines, from) IN
  [k \in {lines[i].key : i \in is} |->
     LET i == CHOOSE i \in is :
                /\ lines[i].key = k
                /\ \A j \in is : lines[j].key = k =>
                     lines[j].ts < lines[i].ts \/ (lines[j].ts = lines[i].ts /\ j <= i)
     IN [ts |-> lines[i].ts, io |-> lines[i].io]]

Io(last) == FoldFunction(LAMBDA l, n : n + l.io, 0, last)

ClaudeBlockTokens(start) == Io(LastOfEach(AllLines, start))

BlockStart(ts) == ts - (ts % Hour)

\* The message starts a new block.
Follows(b, l) == l.ts - b.last >= Block \/ l.ts >= b.start + Block

NoBlock == [start |-> -1, last |-> -1, tokens |-> 0]
InBlock(l, b) ==
  IF b = NoBlock \/ Follows(b, l)
  THEN [start |-> BlockStart(l.ts), last |-> l.ts, tokens |-> l.io]
  ELSE [b EXCEPT !.last = l.ts, !.tokens = @ + l.io]

\* The messages in the order of their times; the fold takes the last one first.
LastBlock ==
  LET all == LastOfEach(AllLines, 0)
      Latest(ks) == CHOOSE k \in ks : \A j \in ks : all[j].ts <= all[k].ts
  IN MapThenFoldSet(InBlock, NoBlock, LAMBDA k : all[k], Latest, DOMAIN all)

ClaudeFallbackBlockTokens ==
  IF LastBlock = NoBlock \/ now >= LastBlock.start + Block
  THEN [tokens |-> 0, start |-> -1]
  ELSE [tokens |-> LastBlock.tokens, start |-> LastBlock.start]

\* blockTokensCached, as what it returns and the cache it leaves.
BlockTokensCached(start) ==
  IF tokenCache.start = start /\ now - tokenCache.at < TokenTtl THEN tokenCache
  ELSE [start |-> start, at |-> now, value |-> ClaudeBlockTokens(start)]

(***************************************************************************)
(* The reading and what is made of it.                                     *)
(***************************************************************************)
Rounded(a, b) == (2 * a + b) \div (2 * b)

Usable(nowTokens) == anchor.tokens > 0 /\ nowTokens >= anchor.tokens

\* A reading: the account used the tokens here and some elsewhere since start.
Reading ==
  \E start \in {t \in 0..now : t % Hour = 0 /\ t > now - Block} :
    LET c == BlockTokensCached(start) IN
    /\ start >= anchor.start
    /\ start > anchor.start \/ 1 + c.value >= anchor.pct
    /\ anchor' = [pct |-> 1 + c.value, start |-> start, tokens |-> c.value]
    /\ tokenCache' = c
    /\ pct5h' = [pct |-> 1 + c.value, start |-> start]
    /\ UNCHANGED <<now, log, usage>>

\* collectClaudeQuota with a reading whose window is not over.
ExtrapolateClaude5h ==
  /\ anchor # NoAnchor /\ anchor.start + Block > now
  /\ LET c == BlockTokensCached(anchor.start) IN
     /\ tokenCache' = IF anchor.tokens > 0 THEN c ELSE tokenCache
     /\ pct5h' = [start |-> anchor.start,
                  pct |-> IF Usable(c.value) THEN Rounded(anchor.pct * c.value, anchor.tokens)
                          ELSE anchor.pct]
  /\ UNCHANGED <<now, log, anchor, usage>>

(***************************************************************************)
(* Claude Code.                                                            *)
(***************************************************************************)
Line(m, io) == [key |-> m, ts |-> now, io |-> io]
Write(f, m) ==
  /\ usage[m].io < MaxIo
  \* It is written to the file of its session, and not streamed for ever.
  /\ \A g \in LogFiles \ {f} : \A l \in ToSet(log[g]) : l.key # m
  /\ usage[m].ts = -1 \/ now < usage[m].ts + Hour
  /\ log' = [log EXCEPT ![f] = Append(@, Line(m, usage[m].io + 1))]
  /\ usage' = [usage EXCEPT ![m] = [ts |-> now, io |-> @.io + 1]]
  /\ UNCHANGED <<now, anchor, tokenCache, pct5h>>
\* A session is resumed: the new file begins with the lines of the old one.
Resume(f, g) ==
  /\ log[f] # <<>> /\ log[g] = <<>>
  /\ log' = [log EXCEPT ![g] = log[f]]
  /\ UNCHANGED <<now, anchor, tokenCache, pct5h, usage>>
\* An old session is removed.
RemoveLog(f) ==
  /\ log[f] # <<>>
  /\ log' = [log EXCEPT ![f] = <<>>]
  /\ usage' = [m \in Messages |->
       IF \E g \in LogFiles \ {f} : \E l \in ToSet(log[g]) : l.key = m THEN usage[m]
       ELSE [ts |-> -1, io |-> 0]]
  /\ UNCHANGED <<now, anchor, tokenCache, pct5h>>
LogTick == now < MaxNow /\ now' = now + 1 /\ UNCHANGED <<log, anchor, tokenCache, pct5h, usage>>

LogNext ==
  \/ Reading \/ ExtrapolateClaude5h \/ LogTick
  \/ \E f \in LogFiles, m \in Messages : Write(f, m)
  \/ \E f \in LogFiles : RemoveLog(f)
  \/ \E f, g \in LogFiles : Resume(f, g)

(***************************************************************************)
(* Properties.                                                             *)
(***************************************************************************)
Used(from) == { m \in Messages : usage[m].ts >= from /\ usage[m].ts >= 0 }
UsedSince(from) == Io([m \in Used(from) |-> usage[m]])

\* Each message counts once, with what it used in the end, in whichever
\* files and however many times it was logged.
EachMessageOnce ==
  \A start \in 0..now : ClaudeBlockTokens(start) = UsedSince(start)

\* Without a reading the block of the logs is one of five hours from a full
\* hour that holds the present, and its tokens are those of all messages in it.
FallbackIsABlock ==
  LET b == ClaudeFallbackBlockTokens IN
  IF b.start = -1 THEN b.tokens = 0
  ELSE b.start % Hour = 0 /\ b.start <= now /\ now < b.start + Block
       /\ b.tokens = UsedSince(b.start)

\* The percentage carried on from a reading never falls below the reading,
\* though logs are removed.
NeverBelowTheReading ==
  pct5h.start # -1 /\ pct5h.start = anchor.start => pct5h.pct >= anchor.pct
=============================================================================

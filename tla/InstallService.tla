--------------------------- MODULE InstallService ---------------------------
(***************************************************************************)
(* The desktop's app install service (app-install-service.ts), which keeps *)
(* one install session in memory, with the two pages of the renderer that  *)
(* use it: the setup wizard's step, which installs the bundled package in  *)
(* one call, and the page for other packages, which prepares a file, then  *)
(* sends it or cancels it.  Every function that awaits is a call of its    *)
(* own whose steps are the code between two awaits, so that calls of both  *)
(* pages interleave; they all read and write the one field this.session.   *)
(*                                                                         *)
(* Abstracted: a chunk is its index and length; progress events; hashes (a *)
(* file that cannot be read is a step that may happen); and the core       *)
(* behind core-app-install-bridge.ts, which answers the requests of its    *)
(* one socket in order and any of which may fail or time out first (what   *)
(* the core does with them is module AppInstall).                          *)
(***************************************************************************)
EXTENDS Integers, Sequences, FiniteSetsExt, SequencesExt

CONSTANTS
  Packages,   \* the page offers any of them
  Bundled,    \* the package that ships with the desktop
  Bytes,      \* the length of a file
  ChunkSize,
  Ids,        \* bound: install ids; one in use is never given out again
  NoId,
  PageCalls   \* bound: calls of the page in flight at a time

ASSUME FileAssumption == Bundled \in Packages /\ Bytes \in [Packages -> Nat \ {0}]
ASSUME ChunkAssumption == ChunkSize \in Nat \ {0}
ASSUME NameAssumption == NoId \notin Ids /\ "wizard" \notin PageCalls

VARIABLES
  current,    \* this.session, or NoSession
  call,       \* the calls in flight: the wizard's and the page's
  ipc,        \* calls the main process has not taken up, oldest first
  wire,       \* calls whose request the core has not answered, oldest first
  step,       \* the state of InstallAppStep
  form,       \* OtherAppInstall: busy, prepared, and whether it says "installed"
  \* Read by properties only:
  dropped     \* core sessions the user has cancelled

installVars == <<current, call, ipc, wire, step, form, dropped>>

Callers == PageCalls \cup {"wizard"}
NoSession == [id |-> NoId]
Idle == [pc |-> "idle"]
FreshForm == [busy |-> FALSE, prepared |-> NoId, ok |-> FALSE]
Conclusions == {"completed", "failed", "unknown"}

\* Reading a file in pieces (readChunk).
Total(f) == (Bytes[f] + ChunkSize - 1) \div ChunkSize
ChunkLen(f, i) == Min({ChunkSize, Bytes[f] - i * ChunkSize})

InstallInit ==
  /\ current = NoSession
  /\ call = [c \in Callers |-> Idle]
  /\ ipc = <<>>
  /\ wire = <<>>
  /\ step = "idle"
  /\ form = FreshForm
  /\ dropped = {}

Alive(s) == s # NoSession
\* The single-session check at the head of prepareFromFile.
Occupied == Alive(current) /\ current.status \in {"preparing", "transferring", "verifying"}
CoreId(s) == IF s.core # NoId THEN s.core ELSE s.id

\* Any id but those the page and the calls know; the current session is
\* about to be replaced.
InUse == {form.prepared} \cup UNION {{call[c].id, call[c].to} : c \in {d \in Callers : call[d] # Idle}}
FreshId == CHOOSE i \in Ids : i \notin InUse

NewSession(i, f) ==
  [id |-> i, file |-> f, status |-> "preparing", got |-> {}, bytes |-> 0,
   core |-> NoId, concluded |-> "none"]

\* The catch blocks, which mark whatever session is current.
Fail(s) == IF Alive(s) THEN [s EXCEPT !.status = "failed"] ELSE s

(***************************************************************************)
(* How a call ends, for the page that made it.  Only the conclusion of the *)
(* core counts as installed; the page's finally clears busy whichever of   *)
(* its calls ends; a page that has been left is told nothing.              *)
(***************************************************************************)
EndBundled(v) == step' = (IF v = "completed" THEN "done" ELSE "failed") /\ UNCHANGED form
EndSelect(i) ==
  /\ form' = [form EXCEPT !.busy = FALSE, !.prepared = IF i = NoId THEN @ ELSE i]
  /\ UNCHANGED step
EndSend(v) == form' = [form EXCEPT !.busy = FALSE, !.ok = v = "completed"] /\ UNCHANGED step

Return(c, i, v) ==
  /\ call' = [call EXCEPT ![c] = Idle]
  /\ CASE ~call[c].seen -> UNCHANGED <<step, form>>
       [] call[c].kind = "bundled" -> EndBundled(v)
       [] call[c].kind = "select" -> EndSelect(i)
       [] call[c].kind = "send" -> EndSend(v)
       [] OTHER -> form' = FreshForm /\ UNCHANGED step  \* reset() of cancel

Throw(c) == Return(c, NoId, "none")
Await(c, r) == call' = [call EXCEPT ![c] = r] /\ UNCHANGED <<step, form>>
Answered(c) == wire' = RemoveFirst(wire, c)
AskAgain(c) == wire' = Append(RemoveFirst(wire, c), c)

TakeUp(c, kinds) ==
  /\ ipc # <<>> /\ Head(ipc) = c
  /\ call[c].kind \in kinds
  /\ ipc' = Tail(ipc)

(***************************************************************************)
(* handleChunk: whether a session takes chunk i of n bytes, and the        *)
(* session after it.  A chunk it has already is not counted again.         *)
(***************************************************************************)
Takes(s, i, n) ==
  /\ s.status \in {"preparing", "transferring"}
  /\ i < Total(s.file)
  /\ n = ChunkLen(s.file, i)

Counted(s, i, n) == IF i \in s.got THEN 0 ELSE n

WithChunk(s, i, n) ==
  [s EXCEPT !.got = @ \cup {i}, !.status = "transferring",
     !.bytes = Min({Bytes[s.file], @ + Counted(s, i, n)})]

\* commit's checks of the stage and of completeness.
MayCommit(s) ==
  /\ s.status \in {"preparing", "transferring"}
  /\ Cardinality(s.got) = Total(s.file)
  /\ s.bytes = Bytes[s.file]

(***************************************************************************)
(* The body of sendFileChunks from one await to the next, on the session s *)
(* that is current then.  The loop keeps the file and the number of chunks *)
(* it started with; everything else it reads anew.                         *)
(***************************************************************************)
SendAborts(c, s) == current' = Fail(s) /\ Throw(c) /\ Answered(c)

SendChunk(c, r, s) ==
  LET n == ChunkLen(r.file, r.next) IN
  \/ /\ Takes(s, r.next, n)
     /\ current' = WithChunk(s, r.next, n)
     /\ Await(c, [r EXCEPT !.pc = "chunk", !.to = CoreId(s)])
     /\ AskAgain(c)
  \/ SendAborts(c, s)   \* refused by handleChunk, or the file cannot be read

SendCommit(c, r, s) ==
  IF MayCommit(s)
  THEN /\ current' = [s EXCEPT !.status = "verifying"]
       /\ Await(c, [r EXCEPT !.pc = "commit", !.to = CoreId(s)])
       /\ AskAgain(c)
  ELSE SendAborts(c, s)

Continue(c, r, s) ==
  /\ IF ~Alive(s) THEN SendAborts(c, s)
     ELSE IF r.next < Total(r.file) THEN SendChunk(c, r, s)
     ELSE SendCommit(c, r, s)
  /\ UNCHANGED <<dropped>>

\* sendFileChunks up to its first await: the checks before the try block
\* leave the session alone.
SendFileChunks(c, r, s) ==
  IF Alive(s) /\ s.id = r.id /\ s.status \in {"preparing", "transferring"}
  THEN Continue(c, [r EXCEPT !.file = s.file, !.next = 0], s)
  ELSE /\ Throw(c)
       /\ Answered(c)
       /\ current' = s
       /\ UNCHANGED <<dropped>>

(***************************************************************************)
(* prepareFromFile.  Its check and its reads of the file; then, after the  *)
(* hashes, the new session and the request to the core.                    *)
(***************************************************************************)
PrepareFromFile(c) ==
  /\ TakeUp(c, {"bundled", "select"})
  /\ \/ ~Occupied /\ Await(c, [call[c] EXCEPT !.pc = "hash"])
     \/ Throw(c)   \* occupied, or not a package
  /\ UNCHANGED <<current, wire, dropped>>

Hashed(c) ==
  /\ call[c].pc = "hash" /\ Ids \ InUse # {}
  /\ current' = NewSession(FreshId, call[c].file)
  /\ Await(c, [call[c] EXCEPT !.pc = "prepare", !.id = FreshId])
  /\ dropped' = dropped \ {FreshId}
  /\ wire' = Append(wire, c)
  /\ UNCHANGED ipc

HashFails(c) ==
  /\ call[c].pc = "hash"
  /\ Throw(c)
  /\ UNCHANGED <<ipc, current, wire, dropped>>

\* The core's session id goes to the session that is current by then; with
\* none there the assignment throws, and so does the catch block.
Prepared(c) ==
  /\ call[c].pc = "prepare" /\ Head(wire) = c
  /\ IF ~Alive(current) THEN SendAborts(c, current) /\ UNCHANGED <<dropped>>
     ELSE LET s == [current EXCEPT !.core = call[c].id] IN
          IF call[c].kind = "bundled" THEN SendFileChunks(c, call[c], s)
          ELSE /\ current' = s
               /\ Return(c, call[c].id, "none")
               /\ Answered(c)
               /\ UNCHANGED <<dropped>>
  /\ UNCHANGED ipc

(***************************************************************************)
(* The other requests of a call, and what becomes of it when one fails.    *)
(***************************************************************************)
SendStarts(c) ==
  /\ TakeUp(c, {"send"})
  /\ SendFileChunks(c, call[c], current)

ChunkAcked(c) ==
  /\ call[c].pc = "chunk" /\ Head(wire) = c
  /\ Continue(c, [call[c] EXCEPT !.next = @ + 1], current)
  /\ UNCHANGED ipc

\* A request is refused, times out, or dies with its connection.
CoreFails(c) ==
  /\ call[c].pc \in {"prepare", "chunk", "commit"}
  /\ SendAborts(c, current)
  /\ UNCHANGED <<ipc, dropped>>

\* The conclusion goes to the session that is current by then.  Anything but
\* a success becomes its status too; a success leaves it verifying.
Conclude(s, v) ==
  [s EXCEPT !.concluded = v, !.status = IF v = "completed" THEN @ ELSE v]

Concluded(c, v) ==
  /\ call[c].pc = "commit" /\ Head(wire) = c
  /\ current' = IF Alive(current) THEN Conclude(current, v) ELSE current
  /\ Return(c, NoId, IF Alive(current) THEN current'.concluded ELSE "none")
  /\ Answered(c)
  /\ UNCHANGED <<ipc, dropped>>

\* Mutant: the session outlives its cancellation.
Cleanup_Keeps(s) == s
Cleanup(s) == NoSession

\* cancelFileTransfer and cleanup; the core is told, and its answer, or that
\* there is none, only ends the call.
CancelFileTransfer(c) ==
  /\ TakeUp(c, {"cancel"})
  /\ IF Alive(current) /\ current.id = call[c].id
     THEN /\ dropped' = dropped \cup {CoreId(current)}
          /\ current' = Cleanup(current)
          /\ Await(c, [call[c] EXCEPT !.pc = "cancel"])
          /\ wire' = Append(wire, c)
     ELSE Throw(c) /\ UNCHANGED <<current, wire, dropped>>

CancelReturns(c) ==
  /\ call[c].pc = "cancel"
  /\ Throw(c)
  /\ Answered(c)
  /\ UNCHANGED <<ipc, current, dropped>>

(***************************************************************************)
(* The two pages.  The wizard's button is off while it installs.  The      *)
(* buttons of the other page are off while it is busy, but a file may be   *)
(* dropped on it at any time, and leaving it forgets what it prepared.     *)
(***************************************************************************)
Invoke(c, kind, f, i) ==
  /\ call[c] = Idle
  /\ call' = [call EXCEPT ![c] = [pc |-> "invoked", kind |-> kind, file |-> f,
                                  id |-> i, next |-> 0, to |-> NoId, seen |-> TRUE]]
  /\ ipc' = Append(ipc, c)
  /\ UNCHANGED <<current, wire, dropped>>

InstallBundled ==
  /\ step # "installing"
  /\ step' = "installing"
  /\ Invoke("wizard", "bundled", Bundled, NoId)
  /\ UNCHANGED form

SelectFile(c, f) ==
  /\ form' = [busy |-> TRUE, prepared |-> NoId, ok |-> FALSE]
  /\ Invoke(c, "select", f, NoId)
  /\ UNCHANGED step

CanAct == form.prepared # NoId /\ ~form.busy

InstallOther(c) ==
  /\ CanAct
  /\ form' = [form EXCEPT !.busy = TRUE, !.ok = FALSE]
  /\ Invoke(c, "send", Bundled, form.prepared)
  /\ UNCHANGED step

CancelOther(c) ==
  /\ CanAct
  /\ Invoke(c, "cancel", Bundled, form.prepared)
  /\ UNCHANGED <<step, form>>

LeavePage ==
  /\ form' = FreshForm
  /\ call' = [c \in Callers |-> IF c \in PageCalls /\ call[c] # Idle
                                THEN [call[c] EXCEPT !.seen = FALSE] ELSE call[c]]
  /\ UNCHANGED <<current, ipc, wire, step, dropped>>

-----------------------------------------------------------------------------
MainStep(c) ==
  \/ PrepareFromFile(c) \/ Hashed(c) \/ HashFails(c) \/ SendStarts(c)
  \/ CancelFileTransfer(c)
Answer(c) ==
  \/ Prepared(c) \/ ChunkAcked(c) \/ CoreFails(c) \/ CancelReturns(c)
  \/ \E v \in Conclusions : Concluded(c, v)
User ==
  \/ InstallBundled \/ LeavePage
  \/ \E c \in PageCalls : InstallOther(c) \/ CancelOther(c) \/ \E f \in Packages : SelectFile(c, f)

InstallNext == User \/ \E c \in Callers : MainStep(c) \/ Answer(c)

-----------------------------------------------------------------------------
\* The length of some chunks of a file: each is full, but the last may lack something.
LengthOf(f, chunks) ==
  Cardinality(chunks) * ChunkSize
    - (IF Total(f) - 1 \in chunks THEN Total(f) * ChunkSize - Bytes[f] ELSE 0)

\* receivedBytes is exactly the length of the chunks received, however often
\* and by however many loops a chunk is handed in, so that commit's check of
\* the byte count means what it says.
BytesMatchChunks == Alive(current) => current.bytes = LengthOf(current.file, current.got)

\* The wizard is done, and the page says installed, only by a call whose own
\* commit the core has just concluded with "completed": never by what is
\* known locally, nor by the conclusion of another call.
InstalledIsConcluded ==
  [][/\ step' = "done" /\ step # "done" => Concluded("wizard", "completed")
     /\ form'.ok /\ ~form.ok => \E c \in PageCalls : Concluded(c, "completed")]_installVars

\* Once the user has cancelled an install, no chunk and no commit goes to its
\* core session any more, whichever calls were in flight.
CancelledGetsNothing ==
  [][\A c \in Callers :
       /\ call'[c] # Idle /\ call'[c].pc \in {"chunk", "commit"}
       /\ call[c] = Idle \/ call[c].pc # call'[c].pc \/ call[c].next # call'[c].next
       =>
         call'[c].to \notin dropped]_installVars

\* No two commits of the same core session are in flight, and no chunk of a
\* session is on its way to the core behind its commit.
CommitComesLast ==
  \A c, d \in Callers :
    /\ c # d
    /\ call[c].pc = "commit"
    /\ call[d].pc \in {"chunk", "commit"}
    /\ call[c].to = call[d].to
    => \E i, j \in DOMAIN wire : wire[i] = d /\ wire[j] = c /\ i < j

\* An install that is said to be done was sent whole, committed once and
\* concluded by the core, and one that was cancelled is left alone, whichever
\* calls of the two pages were in flight on the one session
\* (app-install-service.ts, this.session).
InstallIsTrue ==
  /\ []BytesMatchChunks /\ []CommitComesLast
  /\ InstalledIsConcluded /\ CancelledGetsNothing
=============================================================================

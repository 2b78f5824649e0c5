----------------------------- MODULE AppInstall -----------------------------
(***************************************************************************)
(* Installing a quick app through pulse-core --live: the install transport *)
(* of core/src/install/xiaomi, which RPC threads run one call at a time    *)
(* under the install mutex, the data pump that feeds it through a gate and *)
(* a global queue, the link that may go down and come back between and     *)
(* during calls, and the desktop's install service, which makes the calls  *)
(* (one session at a time, chunks in order, a cancel whenever the user     *)
(* asks).                                                                  *)
(*                                                                         *)
(* Abstracted: the bytes (a chunk is its file and index), the frame codec  *)
(* and ciphers, the flow control of the transfer (module MassTransfer) and *)
(* its acknowledgements, time (a timeout is a step that may happen), and   *)
(* the band, which answers a request once, or never.                       *)
(***************************************************************************)
EXTENDS Integers, Sequences

CONSTANTS
  Files,       \* packages the user may install
  NoFile,
  Size,        \* chunks of a file, which is also the file_size it declares
  QueueMax,    \* MAX_INSTALL_EVENT_QUEUE
  MaxAir,      \* bound: frames of the band the pump has not read
  MaxLinks,    \* bound: links
  MaxPrepares, \* bound: installs begun
  MaxVisits    \* bound: calls of the watchface page

ASSUME FilesAssumption == NoFile \notin Files /\ Size \in [Files -> Nat \ {0}]
ASSUME QueueAssumption == QueueMax \in Nat \ {0}

VARIABLES
  link,        \* "up", "closing" (the pump has returned, Core.bt still set), "down"
  air,         \* frames the band has sent and the pump has not read
  gate,        \* INSTALL_PIPELINE_ACTIVE
  events,      \* GLOBAL_INSTALL_EVENT_QUEUE
  inq,         \* incoming_install_queue
  meta,        \* metadata
  session,     \* active_session
  sent,        \* sent_chunks
  prepared,    \* mass_prepared
  buffer,      \* transfer_buffer
  op,          \* what the call that holds the install mutex waits for
  job,         \* the body the band is installing, or NoFile
  installed,   \* packages the band has
  cfile,       \* the install service's session: its file, or NoFile
  cnext,       \* the index of its sending loop
  cstat,       \* its status
  \* Read by properties only:
  outcome,     \* conclusion of the last commit
  heard,       \* kinds of frames the pump has read since the last prepare
  \* Read by the bounds only:
  used         \* links, installs and visits so far

queues == <<events, inq>>
radio == <<link, air>>
proto == <<meta, session, sent, prepared, buffer>>
band == <<job, installed>>
service == <<cfile, cnext, cstat>>
history == <<outcome, heard>>
vars == <<radio, gate, queues, proto, op, band, service, history, used>>

Kinds == {"ready", "mass", "result", "list", "faces"}
Frame(k, apps, ok) == [kind |-> k, apps |-> apps, ok |-> ok]

\* The kind of frame each waiting loop takes; it drops every other.
Awaited == [waitReady |-> "ready", waitMass |-> "mass", waitResult |-> "result",
            waitList |-> "list", waitFaces |-> "faces"]

Body(f) == [i \in 1..Size[f] |-> <<f, i>>]

Bounds == [links |-> MaxLinks, prepares |-> MaxPrepares, visits |-> MaxVisits]
Use(what) == used[what] < Bounds[what] /\ used' = [used EXCEPT ![what] = @ + 1]

Init ==
  /\ link = "down" /\ air = <<>>
  /\ gate = FALSE /\ events = <<>> /\ inq = <<>>
  /\ meta = NoFile /\ session = NoFile
  /\ sent = 0 /\ prepared = FALSE /\ buffer = <<>>
  /\ op = "none"
  /\ job = NoFile /\ installed = {}
  /\ cfile = NoFile /\ cnext = 0 /\ cstat = "none"
  /\ outcome = "none" /\ heard = {}
  /\ used = [b \in DOMAIN Bounds |-> 0]

(***************************************************************************)
(* The link and the data pump                                              *)
(***************************************************************************)
LinkUp ==
  /\ link = "down" /\ link' = "up" /\ Use("links")
  /\ UNCHANGED <<air, gate, queues, proto, op, band, service, history>>

\* run_pump_loop returned: on_live_pump_exit, without the install mutex.
PumpExits ==
  /\ link = "up" /\ link' = "closing"
  /\ air' = <<>>
  /\ gate' = FALSE
  /\ events' = <<>>
  /\ UNCHANGED <<inq, proto, op, band, service, history, used>>

\* Core.bt is taken.
LinkReleased ==
  /\ link = "closing" /\ link' = "down"
  /\ UNCHANGED <<air, gate, queues, proto, op, band, service, history, used>>

\* Mutant: the queue that nobody drains grows without bound.
Dispatched_Unbounded(f) == Append(events, f)

Dispatched(f) ==
  LET q == Append(events, f)
  IN  IF Len(q) > QueueMax THEN Tail(q) ELSE q

Accepts(f) == f.ok /\ (f.apps = {} \/ meta \in f.apps)

\* The pump reads a frame and dispatches it if the gate is open.
PumpReads ==
  /\ link = "up" /\ air # <<>>
  /\ air' = Tail(air)
  /\ events' = IF gate THEN Dispatched(Head(air)) ELSE events
  /\ heard' = heard \cup {f.kind : f \in {g \in {Head(air)} : Accepts(g)}}
  /\ UNCHANGED <<link, gate, inq, proto, op, band, service, outcome, used>>

\* The band has checked the body it received.  package_name is optional.
BandReports ==
  /\ job # NoFile /\ link = "up" /\ Len(air) < MaxAir
  /\ \E ok \in BOOLEAN, apps \in {{job.file}, {}} :
        /\ air' = Append(air, Frame("result", apps, ok))
        /\ installed' = IF ok THEN installed \cup {job.file} ELSE installed
  /\ job' = NoFile
  /\ UNCHANGED <<link, gate, queues, proto, op, service, history, used>>

\* A request went out: the band answers it with one of the frames of S, or never.
BandMayAnswer(S) ==
  \/ UNCHANGED air
  \/ /\ link = "up" /\ Len(air) < MaxAir
     /\ \E f \in S : air' = Append(air, f)

(***************************************************************************)
(* The calls                                                               *)
(***************************************************************************)
Linked == link # "down"

\* drain_live_ingress, then the first frame is taken.
Incoming == inq \o events
TakeFrame(k) ==
  /\ Incoming # <<>>
  /\ Head(Incoming).kind = k
  /\ inq' = Tail(Incoming)
  /\ events' = <<>>

\* A call of the running install returns an error: the gate closes, the service
\* leaves its sending loop and marks its session failed.
Fails ==
  /\ op' = "none"
  /\ gate' = FALSE
  /\ cstat' = "failed" /\ cnext' = 0
  /\ UNCHANGED cfile

SkipFrame ==
  /\ op \in DOMAIN Awaited
  /\ \E k \in Kinds \ {Awaited[op]} : TakeFrame(k)
  /\ UNCHANGED <<radio, gate, proto, op, band, service, history, used>>

\* Mutant: an error path that forgets the gate.
WaitFails_GateStaysOpen ==
  /\ op \in {"waitReady", "waitMass", "waitList"} \/ (op = "waitResult" /\ ~Linked)
  /\ op' = "none" /\ cstat' = "failed" /\ cnext' = 0
  /\ UNCHANGED <<radio, gate, queues, proto, band, cfile, history, used>>

\* The waiting loop runs out of time, or finds the link gone.
WaitFails ==
  /\ op \in {"waitReady", "waitMass", "waitList"} \/ (op = "waitResult" /\ ~Linked)
  /\ Fails
  /\ UNCHANGED <<radio, queues, proto, band, history, used>>

\* The service accepts a new install: none running, or the last one ended badly.
MayPrepare == cstat \in {"none", "failed", "unknown"} /\ Use("prepares")

\* Mutant: what an earlier install left in the queues is not discarded.
Prepare_KeepsFrames(f) ==
  /\ op = "none" /\ MayPrepare /\ Linked
  /\ cfile' = f /\ cnext' = 0 /\ cstat' = "preparing"
  /\ outcome' = "none" /\ heard' = {}
  /\ meta' = f
  /\ gate' = TRUE
  /\ op' = "waitReady"
  /\ BandMayAnswer({Frame("ready", {}, ok) : ok \in BOOLEAN})
  /\ UNCHANGED <<link, queues, session, sent, prepared, buffer, band>>

\* prepare: open the gate, discard stale frames, send the install request.  An
\* error leaves the new metadata behind when the link was there.
Prepare(f) ==
  /\ op = "none" /\ MayPrepare
  /\ cfile' = f /\ cnext' = 0
  /\ outcome' = "none" /\ heard' = {}
  /\ events' = <<>> /\ inq' = <<>>
  /\ meta' = IF Linked THEN f ELSE meta
  /\ \/ /\ gate' = FALSE /\ op' = "none" /\ cstat' = "failed"
        /\ UNCHANGED air
     \/ /\ Linked
        /\ gate' = TRUE /\ op' = "waitReady" /\ cstat' = "preparing"
        /\ BandMayAnswer({Frame("ready", {}, ok) : ok \in BOOLEAN})
  /\ UNCHANGED <<link, session, sent, prepared, buffer, band>>

\* transfer_buffer is not among the fields a new session resets.
PrepareReady ==
  /\ op = "waitReady" /\ TakeFrame("ready") /\ Head(Incoming).ok
  /\ session' = meta
  /\ sent' = 0
  /\ prepared' = FALSE
  /\ op' = "none"
  /\ cstat' = "transferring"
  /\ UNCHANGED <<radio, gate, meta, buffer, band, cfile, cnext, history, used>>

\* The band is not ready for the install, or for the Mass transfer.
BandRefuses ==
  /\ \/ op = "waitReady" /\ TakeFrame("ready")
     \/ op = "waitMass" /\ TakeFrame("mass")
  /\ ~Head(Incoming).ok
  /\ Fails
  /\ UNCHANGED <<radio, proto, band, history, used>>

\* send_chunk takes the chunk in, then works on the first and on the last one.
NextChunk == op = "none" /\ cstat = "transferring" /\ cnext < Size[cfile]

ChunkRejected ==
  /\ NextChunk
  /\ ~Linked \/ session # cfile
  /\ Fails
  /\ UNCHANGED <<radio, queues, proto, band, history, used>>

TakeChunk ==
  /\ NextChunk /\ Linked /\ session = cfile
  /\ buffer' = Append(buffer, <<cfile, cnext + 1>>)
  /\ sent' = sent + 1
  /\ UNCHANGED <<link, queues, meta, session, prepared, band, history, used>>

FirstChunk ==
  /\ TakeChunk /\ ~prepared
  /\ \/ Fails /\ UNCHANGED air
     \/ /\ op' = "waitMass" /\ gate' = TRUE
        /\ BandMayAnswer({Frame("mass", {}, ok) : ok \in BOOLEAN})
        /\ UNCHANGED service

LaterChunk ==
  /\ TakeChunk /\ prepared
  /\ gate' = TRUE
  /\ IF sent + 1 >= Size[session]
       THEN op' = "transfer" /\ UNCHANGED cnext
       ELSE op' = "none" /\ cnext' = cnext + 1
  /\ UNCHANGED <<air, cfile, cstat>>

MassReady ==
  /\ op = "waitMass" /\ TakeFrame("mass") /\ Head(Incoming).ok
  /\ prepared' = TRUE
  /\ IF sent >= Size[session]
       THEN op' = "transfer" /\ UNCHANGED cnext
       ELSE op' = "none" /\ cnext' = cnext + 1
  /\ UNCHANGED <<radio, gate, meta, session, sent, buffer, band, cfile, cstat,
                 history, used>>

\* Mutant: the body is assembled from whatever the buffer holds.
SizeMatches_Unchecked == TRUE

\* transfer_mass_body refuses a buffer that is not as long as the declared file.
SizeMatches == Len(buffer) = Size[meta]

SizeMismatch ==
  /\ op = "transfer" /\ ~SizeMatches
  /\ Fails
  /\ UNCHANGED <<radio, queues, proto, band, history, used>>

\* The band has the whole body.  Its acknowledgements reach the transfer only
\* through the gate.
BodyArrives ==
  /\ op = "transfer" /\ SizeMatches /\ link = "up"
  /\ job' = [file |-> meta, body |-> buffer]
  /\ op' = IF gate THEN "acked" ELSE "unacked"
  /\ UNCHANGED <<radio, gate, queues, proto, installed, service, history, used>>

\* While it waits, the flow control drains what else arrives into inq.
TransferDone ==
  /\ op = "acked"
  /\ inq' = Incoming /\ events' = <<>>
  /\ op' = "none"
  /\ cstat' = "sent" /\ cnext' = 0
  /\ UNCHANGED <<radio, gate, proto, band, cfile, history, used>>

\* An acknowledgement does not come, or the link is gone.
TransferBreaks ==
  /\ op \in {"transfer", "acked", "unacked"} /\ SizeMatches
  /\ inq' = Incoming /\ events' = <<>>
  /\ Fails
  /\ UNCHANGED <<radio, proto, band, history, used>>

Commit ==
  /\ op = "none" /\ cstat = "sent"
  /\ IF Linked /\ session = cfile
       THEN op' = "waitResult" /\ gate' = TRUE /\ cstat' = "verifying"
       ELSE op' = "none" /\ gate' = FALSE /\ cstat' = "failed"
  /\ UNCHANGED <<radio, queues, proto, band, cfile, cnext, history, used>>

\* The band says the install failed, or names another package.
ResultIsBad ==
  /\ op = "waitResult" /\ TakeFrame("result") /\ ~Accepts(Head(Incoming))
  /\ Fails
  /\ UNCHANGED <<radio, proto, band, history, used>>

\* Success is not believed before the installed list shows the package.
ResultIsGood ==
  /\ op = "waitResult" /\ TakeFrame("result") /\ Accepts(Head(Incoming))
  /\ \/ Fails /\ UNCHANGED air
     \/ /\ Linked
        /\ op' = "waitList"
        /\ BandMayAnswer({Frame("list", installed, TRUE)})
        /\ UNCHANGED <<gate, service>>
  /\ UNCHANGED <<link, proto, band, history, used>>

ResultTimesOut ==
  /\ op = "waitResult"
  /\ op' = "none" /\ gate' = FALSE
  /\ outcome' = "unknown" /\ cstat' = "unknown"
  /\ UNCHANGED <<radio, queues, proto, band, cfile, cnext, heard, used>>

ListShowsIt ==
  /\ op = "waitList" /\ TakeFrame("list") /\ meta \in Head(Incoming).apps
  /\ op' = "none" /\ gate' = FALSE
  /\ outcome' = "completed"
  /\ UNCHANGED <<radio, proto, band, service, heard, used>>

ListLacksIt ==
  /\ op = "waitList" /\ TakeFrame("list") /\ meta \notin Head(Incoming).apps
  /\ Fails
  /\ UNCHANGED <<radio, proto, band, history, used>>

\* cancel, behind the call that is running: the only place that empties the
\* transfer buffer.  The band may or may not act on the Mass cancel.
Cancel ==
  /\ op = "none" /\ cstat # "none"
  /\ job' \in {job} \cup (IF link = "up" /\ session = cfile THEN {NoFile} ELSE {})
  /\ meta' = NoFile /\ session' = NoFile
  /\ sent' = 0 /\ prepared' = FALSE /\ buffer' = <<>>
  /\ gate' = FALSE
  /\ cfile' = NoFile /\ cnext' = 0 /\ cstat' = "none"
  /\ UNCHANGED <<radio, queues, op, installed, history, used>>

\* The watchface page: fetch_installed_watchfaces and set_current_watchface send
\* a query and wait; install_watchface_file discards stale frames before.
Faces ==
  /\ op = "none" /\ Use("visits")
  /\ \E discard \in BOOLEAN :
        IF discard /\ Linked THEN events' = <<>> /\ inq' = <<>>
                             ELSE UNCHANGED queues
  /\ \/ gate' = FALSE /\ UNCHANGED <<op, air>>
     \/ /\ Linked
        /\ gate' = TRUE /\ op' = "waitFaces"
        /\ BandMayAnswer({Frame("faces", {}, TRUE)})
  /\ UNCHANGED <<link, proto, band, service, history>>

FacesEnd ==
  /\ op = "waitFaces"
  /\ TakeFrame("faces") \/ UNCHANGED queues
  /\ op' = "none" /\ gate' = FALSE
  /\ UNCHANGED <<radio, proto, band, service, history, used>>

-----------------------------------------------------------------------------
Calls ==
  \/ \E f \in Files : Prepare(f)
  \/ SkipFrame \/ WaitFails \/ PrepareReady \/ BandRefuses
  \/ ChunkRejected \/ FirstChunk \/ LaterChunk \/ MassReady
  \/ SizeMismatch \/ BodyArrives \/ TransferDone \/ TransferBreaks
  \/ Commit \/ ResultIsBad \/ ResultIsGood \/ ResultTimesOut
  \/ ListShowsIt \/ ListLacksIt \/ Cancel \/ Faces \/ FacesEnd

Next == LinkUp \/ PumpExits \/ LinkReleased \/ PumpReads \/ BandReports \/ Calls

Spec == Init /\ [][Next]_vars

(***************************************************************************)
(* Properties                                                              *)
(***************************************************************************)
Frames == [kind : Kinds, apps : SUBSET Files, ok : BOOLEAN]

\* Types of the variables; the queue that crosses threads never outgrows
\* MAX_INSTALL_EVENT_QUEUE, and what a call waits for is one of the loops.
TypeOK ==
  /\ link \in {"up", "closing", "down"}
  /\ gate \in BOOLEAN /\ prepared \in BOOLEAN
  /\ air \in Seq(Frames) /\ inq \in Seq(Frames) /\ events \in Seq(Frames)
  /\ Len(events) <= QueueMax
  /\ meta \in Files \cup {NoFile} /\ session \in Files \cup {NoFile}
  /\ sent \in Nat /\ cnext \in Nat
  /\ buffer \in Seq(Files \X Nat)
  /\ op \in DOMAIN Awaited \cup {"none", "transfer", "acked", "unacked"}
  /\ \/ job = NoFile
     \/ job \in [file : Files, body : Seq(Files \X Nat)]
  /\ installed \subseteq Files
  /\ cfile \in Files \cup {NoFile}
  /\ cstat \in {"none", "preparing", "transferring", "sent", "verifying",
               "failed", "unknown"}
  /\ outcome \in {"none", "completed", "unknown"}
  /\ heard \subseteq Kinds

\* Whatever failed, was cancelled or was left in the buffer by an earlier
\* install, and however the link broke in between, the body handed to the band
\* is the declared file: all of its chunks, in order, and nothing of another.
WholeFile == job # NoFile => job.body = Body(job.file)

\* What the band says is believed only of this install: it is reported completed
\* only if, since it began, the band itself reported success for this package and
\* sent a list that shows it, and the body goes out only after the band agreed to
\* this install and, again for this install, to the Mass transfer. Replies to an
\* earlier install, left in either queue, never stand in for them.
RepliesAreItsOwn ==
  /\ outcome = "completed" => {"result", "list"} \subseteq heard
  /\ op = "transfer" => {"ready", "mass"} \subseteq heard

\* The gate is open only while a call runs or an install is between its calls:
\* whichever way the calls end, an idle link copies nothing into the queue.
GateOnlyDuringInstall == op = "none" /\ cstat \notin {"transferring", "sent"} => ~gate
=============================================================================

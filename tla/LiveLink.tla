------------------------------ MODULE LiveLink ------------------------------
(***************************************************************************)
(* The Bluetooth link of pulse-core --live (core/src/live.rs).             *)
(*                                                                         *)
(* One live thread (run_live) dials the band, publishes the authenticated  *)
(* socket in Core.bt, runs the data pump and reconnects; one thread per    *)
(* RPC connection (rpc.rs serve) runs device.connect, device.disconnect    *)
(* and daemon.stop.  They share two atomic flags, a mutex around the       *)
(* status and a mutex around the socket owner; a step below is what one    *)
(* thread does between two points where another thread can be seen.        *)
(*                                                                         *)
(* Abstracted: the bytes on the link, the keys, what the pump does with a  *)
(* frame, and time (a sleep or a timeout is a step that may happen).       *)
(***************************************************************************)
EXTENDS Integers, FiniteSets

CONSTANTS
  Handles,     \* socket handles the operating system can hand out
  NoSock,      \* "no socket": INVALID_SOCKET, or None in Core.bt
  Rpc,         \* RPC connection threads
  MaxRetries   \* MAX_CONNECT_RETRIES

ASSUME HandlesAssumption == NoSock \notin Handles
ASSUME RetriesAssumption == MaxRetries \in Nat \ {0}

VARIABLES
  desired,     \* Core.desired_connected
  shutdown,    \* Core.shutdown_requested
  liveState,   \* Core.live_state
  bt,          \* Core.bt: the handle its DownlinkCtx owns, or NoSock
  pc,          \* where the live thread is
  sock,        \* the live thread's own copy of the socket number
  attempt,     \* ReconnectPolicy.current_attempt
  open,        \* radio sockets the process has open
  wsa,         \* WSAStartup calls not yet balanced by WSACleanup
  rpc,         \* where each RPC thread is
  seen,        \* the status device.connect has read
  shown,       \* protocolState of the last device.state broadcast
  exited,      \* the process is gone
  \* History, read by properties only:
  losses       \* failed attempts since the last success or the last request taken up

live == <<pc, sock, attempt>>
radio == <<open, wsa>>
vars == <<desired, shutdown, liveState, bt, pc, sock, attempt, open, wsa,
          rpc, seen, shown, exited, losses>>

LiveStatus == {"Disconnected", "Connecting", "Ready", "Reconnecting", "Error"}
ProtocolState == {"disconnected", "connecting", "ready", "error"}

LivePc == {"gate", "loop", "announce", "announced", "dial", "socket",
           "connecting", "preamble", "auth", "authed", "failed", "err",
           "errTell", "backoff", "publish", "ready", "readyTell", "pump",
           "exit", "after", "re", "reTell", "quit", "quitTell", "finish",
           "finishTell", "done"}
RpcPc == {"idle", "cRead", "cWrite", "cTell", "dTake", "dWrite", "dTell",
          "sTake", "sExit"}

Init ==
  /\ desired = FALSE
  /\ shutdown = FALSE
  /\ liveState = "Disconnected"
  /\ bt = NoSock
  /\ pc = "gate"
  /\ sock = NoSock
  /\ attempt = 0
  /\ open = {}
  /\ wsa = 0
  /\ rpc = [r \in Rpc |-> "idle"]
  /\ seen = [r \in Rpc |-> "Disconnected"]
  /\ shown = "disconnected"
  /\ exited = FALSE
  /\ losses = 0

(***************************************************************************)
(* The live thread                                                         *)
(***************************************************************************)
LiveAt(here, there) == /\ ~exited
                       /\ pc = here
                       /\ pc' = there

\* The two flags as every loop head of run_live reads them.
Wanted == desired /\ ~shutdown

\* closesocket + WSACleanup on a set of handles, which is empty or a singleton.
CloseAll(S) == /\ open' = open \ S
               /\ wsa' = wsa - Cardinality(S)

Held == IF bt = NoSock THEN {} ELSE {bt}

\* core.bt.lock().take(): the context is dropped, and Drop closes its socket.
TakeBt == /\ bt' = NoSock
          /\ CloseAll(Held)

\* *core.live_state.lock() = s, then the thread is about to broadcast.
WriteState(here, s, there) ==
  /\ LiveAt(here, there)
  /\ liveState' = s
  /\ UNCHANGED <<desired, shutdown, bt, sock, attempt, radio, rpc, seen, shown,
                 exited, losses>>

Tell(here, p, there) ==
  /\ LiveAt(here, there)
  /\ shown' = p
  /\ UNCHANGED <<desired, shutdown, liveState, bt, sock, attempt, radio, rpc,
                 seen, exited, losses>>

\* A step of the live thread that only moves on.
Move(here, there) ==
  /\ LiveAt(here, there)
  /\ UNCHANGED <<desired, shutdown, liveState, bt, sock, attempt, radio, rpc,
                 seen, shown, exited, losses>>

\* The gate of the outer loop: a request is taken up with a new policy.
TakeUpRequest ==
  /\ Wanted
  /\ LiveAt("gate", "loop")
  /\ attempt' = 0
  /\ losses' = 0
  /\ UNCHANGED <<desired, shutdown, liveState, bt, sock, radio, rpc, seen,
                 shown, exited>>

LeaveOuterLoop == shutdown /\ Move("gate", "finish")

\* Head of the inner loop: next_attempt gives a number, or None, which gives up
\* on the spot.
NextAttempt ==
  /\ Wanted
  /\ IF attempt < MaxRetries
       THEN /\ LiveAt("loop", "announce")
            /\ attempt' = attempt + 1
            /\ UNCHANGED desired
       ELSE /\ LiveAt("loop", "err")
            /\ desired' = FALSE
            /\ UNCHANGED attempt
  /\ UNCHANGED <<shutdown, liveState, bt, sock, radio, rpc, seen, shown,
                 exited, losses>>

LeaveInnerLoop == ~Wanted /\ Move("loop", "gate")

Announce ==
  WriteState("announce", IF attempt = 1 THEN "Connecting" ELSE "Reconnecting",
             "announced")
TellConnecting == Tell("announced", "connecting", "dial")

\* connect_and_authenticate: device.json or WSAStartup fails before any socket.
FailBeforeSocket ==
  /\ LiveAt("dial", "failed")
  /\ losses' = losses + 1
  /\ UNCHANGED <<desired, shutdown, liveState, bt, sock, attempt, radio, rpc,
                 seen, shown, exited>>

StartWsa ==
  /\ LiveAt("dial", "socket")
  /\ wsa' = wsa + 1
  /\ UNCHANGED <<desired, shutdown, liveState, bt, sock, attempt, open, rpc,
                 seen, shown, exited, losses>>

OpenSocket ==
  /\ LiveAt("socket", "connecting")
  /\ \E h \in Handles \ open :
        /\ sock' = h
        /\ open' = open \cup {h}
  /\ UNCHANGED <<desired, shutdown, liveState, bt, attempt, wsa, rpc, seen,
                 shown, exited, losses>>

SocketFails ==
  /\ LiveAt("socket", "failed")
  /\ wsa' = wsa - 1
  /\ losses' = losses + 1
  /\ UNCHANGED <<desired, shutdown, liveState, bt, sock, attempt, open, rpc,
                 seen, shown, exited>>

\* connect() succeeds; the thread sends the preamble and reads its reply with
\* no receive timeout set.
Connected == Move("connecting", "preamble")

PreambleReply == Move("preamble", "auth")

\* Any failure after the socket exists closes it and balances WSAStartup.
FailAt(here) ==
  /\ LiveAt(here, "failed")
  /\ CloseAll({sock})
  /\ losses' = losses + 1
  /\ UNCHANGED <<desired, shutdown, liveState, bt, sock, attempt, rpc, seen,
                 shown, exited>>

Authenticate == Move("auth", "authed")

\* Mutant: giving up leaves desired_connected set.
GiveUp_KeepsIntent ==
  /\ attempt >= MaxRetries
  /\ Move("failed", "err")

\* After a failed attempt: the last one gives up, the others back off.
GiveUp ==
  /\ attempt >= MaxRetries
  /\ LiveAt("failed", "err")
  /\ desired' = FALSE
  /\ UNCHANGED <<shutdown, liveState, bt, sock, attempt, radio, rpc, seen,
                 shown, exited, losses>>

\* Mutant: a new ReconnectPolicy for every attempt.
StartBackoff_NewPolicy ==
  /\ attempt < MaxRetries
  /\ LiveAt("failed", "backoff")
  /\ attempt' = 0
  /\ UNCHANGED <<desired, shutdown, liveState, bt, sock, radio, rpc, seen,
                 shown, exited, losses>>

StartBackoff == attempt < MaxRetries /\ Move("failed", "backoff")
RecordError == WriteState("err", "Error", "errTell")
TellError == Tell("errTell", "error", "gate")

\* RECONNECT_INTERVAL is over, or the sleep saw the flags change.
EndBackoff == Move("backoff", "loop")

\* The request was withdrawn while dialing: the context is dropped unpublished.
AbandonLink ==
  /\ ~Wanted
  /\ LiveAt("authed", "quit")
  /\ CloseAll({sock})
  /\ UNCHANGED <<desired, shutdown, liveState, bt, sock, attempt, rpc, seen,
                 shown, exited, losses>>

\* Mutant: policy.reset() is forgotten.
AcceptLink_NoReset ==
  /\ Wanted
  /\ LiveAt("authed", "publish")
  /\ losses' = 0
  /\ UNCHANGED <<desired, shutdown, liveState, bt, sock, attempt, radio, rpc,
                 seen, shown, exited>>

AcceptLink ==
  /\ Wanted
  /\ LiveAt("authed", "publish")
  /\ attempt' = 0
  /\ losses' = 0
  /\ UNCHANGED <<desired, shutdown, liveState, bt, sock, radio, rpc, seen,
                 shown, exited>>

\* *bt = Some(ctx): a context that was still there would be dropped.
Publish ==
  /\ LiveAt("publish", "ready")
  /\ bt' = sock
  /\ CloseAll(Held)
  /\ UNCHANGED <<desired, shutdown, liveState, sock, attempt, rpc, seen, shown,
                 exited, losses>>

RecordReady == WriteState("ready", "Ready", "readyTell")
TellReady == Tell("readyTell", "ready", "pump")

\* Mutant: the pump looks at shutdown_requested only.
PumpToldToStop_ShutdownOnly == shutdown /\ Move("pump", "exit")

\* run_pump_loop returns when a flag changed ...
PumpToldToStop == ~Wanted /\ Move("pump", "exit")
\* ... or recv fails because device.disconnect closed the socket under it ...
PumpReadsClosed == sock \notin open /\ Move("pump", "exit")
\* ... or because the band went away.
PumpLosesLink == sock \in open /\ Move("pump", "exit")

ReleaseLink ==
  /\ LiveAt("exit", "after")
  /\ TakeBt
  /\ UNCHANGED <<desired, shutdown, liveState, sock, attempt, rpc, seen, shown,
                 exited, losses>>

StopAfterPump == ~Wanted /\ Move("after", "quit")
RetryAfterPump == Wanted /\ Move("after", "re")
RecordReconnecting == WriteState("re", "Reconnecting", "reTell")
TellReconnecting == Tell("reTell", "connecting", "backoff")
\* Mutant: the status is not written on the way out.
RecordQuit_Silent == Move("quit", "quitTell")

RecordQuit == WriteState("quit", "Disconnected", "quitTell")
TellQuit == Tell("quitTell", "disconnected", "gate")

RecordFinish == WriteState("finish", "Disconnected", "finishTell")
TellFinish == Tell("finishTell", "disconnected", "done")

\* main removes core.json and returns; the system closes what is open.
MainReturns ==
  /\ pc = "done"
  /\ ~exited
  /\ exited' = TRUE
  /\ open' = {}
  /\ wsa' = 0
  /\ bt' = NoSock
  /\ UNCHANGED <<desired, shutdown, liveState, live, rpc, seen, shown, losses>>

(***************************************************************************)
(* RPC threads                                                             *)
(***************************************************************************)
RpcAt(r, here, there) == /\ ~exited
                         /\ rpc[r] = here
                         /\ rpc' = [rpc EXCEPT ![r] = there]

\* device_connect_live: set the flag, read the status, act on what was read.
ConnectRequest(r) ==
  /\ RpcAt(r, "idle", "cRead")
  /\ desired' = TRUE
  /\ UNCHANGED <<shutdown, liveState, bt, live, radio, seen, shown, exited, losses>>

ConnectReads(r) ==
  /\ RpcAt(r, "cRead", "cWrite")
  /\ seen' = [seen EXCEPT ![r] = liveState]
  /\ UNCHANGED <<desired, shutdown, liveState, bt, live, radio, shown, exited,
                 losses>>

ConnectFoundReady(r) ==
  /\ seen[r] = "Ready"
  /\ RpcAt(r, "cWrite", "idle")
  /\ shown' = "ready"
  /\ UNCHANGED <<desired, shutdown, liveState, bt, live, radio, seen, exited,
                 losses>>

ConnectWrites(r) ==
  /\ seen[r] # "Ready"
  /\ RpcAt(r, "cWrite", "cTell")
  /\ liveState' = "Connecting"
  /\ UNCHANGED <<desired, shutdown, bt, live, radio, seen, shown, exited,
                 losses>>

ConnectTells(r) ==
  /\ RpcAt(r, "cTell", "idle")
  /\ shown' = "connecting"
  /\ UNCHANGED <<desired, shutdown, liveState, bt, live, radio, seen, exited,
                 losses>>

\* device_disconnect_live: clear the flag, drop the link, record it, tell.
DisconnectRequest(r) ==
  /\ RpcAt(r, "idle", "dTake")
  /\ desired' = FALSE
  /\ UNCHANGED <<shutdown, liveState, bt, live, radio, seen, shown, exited,
                 losses>>

\* Mutant: the socket is closed but its context stays in Core.bt.
DisconnectTakes_KeepsContext(r) ==
  /\ RpcAt(r, "dTake", "dWrite")
  /\ CloseAll(Held)
  /\ UNCHANGED <<desired, shutdown, liveState, bt, live, seen, shown, exited,
                 losses>>

DisconnectTakes(r) ==
  /\ RpcAt(r, "dTake", "dWrite")
  /\ TakeBt
  /\ UNCHANGED <<desired, shutdown, liveState, live, seen, shown, exited,
                 losses>>

DisconnectWrites(r) ==
  /\ RpcAt(r, "dWrite", "dTell")
  /\ liveState' = "Disconnected"
  /\ UNCHANGED <<desired, shutdown, bt, live, radio, seen, shown, exited,
                 losses>>

DisconnectTells(r) ==
  /\ RpcAt(r, "dTell", "idle")
  /\ shown' = "disconnected"
  /\ UNCHANGED <<desired, shutdown, liveState, bt, live, radio, seen, exited,
                 losses>>

\* daemon.stop, after its response line is on the wire (rpc.rs serve).
StopRequest(r) ==
  /\ RpcAt(r, "idle", "sTake")
  /\ shutdown' = TRUE
  /\ UNCHANGED <<desired, liveState, bt, live, radio, seen, shown, exited,
                 losses>>

StopTakes(r) ==
  /\ RpcAt(r, "sTake", "sExit")
  /\ TakeBt
  /\ UNCHANGED <<desired, shutdown, liveState, live, seen, shown, exited,
                 losses>>

StopExits(r) ==
  /\ RpcAt(r, "sExit", "idle")
  /\ exited' = TRUE
  /\ open' = {}
  /\ wsa' = 0
  /\ bt' = NoSock
  /\ UNCHANGED <<desired, shutdown, liveState, live, seen, shown, losses>>

-----------------------------------------------------------------------------
Requests(r) == ConnectRequest(r) \/ DisconnectRequest(r) \/ StopRequest(r)

Handling(r) ==
  \/ ConnectReads(r) \/ ConnectFoundReady(r) \/ ConnectWrites(r) \/ ConnectTells(r)
  \/ DisconnectTakes(r) \/ DisconnectWrites(r) \/ DisconnectTells(r)
  \/ StopTakes(r) \/ StopExits(r)

\* Steps of the live thread that the code itself bounds in time.
Bounded ==
  \/ TakeUpRequest \/ LeaveOuterLoop \/ NextAttempt
  \/ LeaveInnerLoop \/ Announce \/ TellConnecting \/ FailBeforeSocket
  \/ StartWsa \/ OpenSocket \/ SocketFails \/ Connected \/ FailAt("connecting")
  \/ Authenticate \/ FailAt("auth") \/ GiveUp \/ StartBackoff \/ RecordError
  \/ TellError \/ EndBackoff \/ AbandonLink \/ AcceptLink \/ Publish
  \/ RecordReady \/ TellReady \/ PumpToldToStop \/ PumpReadsClosed
  \/ ReleaseLink  \/ StopAfterPump \/ RetryAfterPump \/ RecordReconnecting \/ TellReconnecting
  \/ RecordQuit \/ TellQuit \/ RecordFinish \/ TellFinish \/ MainReturns

\* Steps that wait for the band.
BandDecides == PreambleReply \/ FailAt("preamble") \/ PumpLosesLink

Next == \/ Bounded
        \/ BandDecides
        \/ \E r \in Rpc : Requests(r) \/ Handling(r)

Spec == Init /\ [][Next]_vars

Fairness == WF_vars(Bounded) /\ \A r \in Rpc : WF_vars(Handling(r))
FairSpec == Spec /\ Fairness

(***************************************************************************)
(* Properties                                                              *)
(***************************************************************************)
TypeOK ==
  /\ desired \in BOOLEAN /\ shutdown \in BOOLEAN /\ exited \in BOOLEAN
  /\ liveState \in LiveStatus
  /\ bt \in Handles \cup {NoSock} /\ sock \in Handles \cup {NoSock}
  /\ pc \in LivePc
  /\ attempt \in 0..MaxRetries
  /\ losses \in 0..MaxRetries
  /\ open \in SUBSET Handles
  /\ wsa \in 0..1
  /\ rpc \in [Rpc -> RpcPc]
  /\ seen \in [Rpc -> LiveStatus]
  /\ shown \in ProtocolState

\* Where run_live itself, not Core.bt, must close the socket it dialed.
DialingPc == {"connecting", "preamble", "auth", "authed", "publish"}

Dialed == IF pc \in DialingPc THEN {sock} ELSE {}

\* Every radio socket of a running daemon has exactly one owner, the thread
\* that dials it or Core.bt, and WSAStartup is balanced by WSACleanup on every
\* path (the promise of connect_and_authenticate): no interleaving of the pump,
\* device.disconnect and daemon.stop closes a socket twice or leaks one.
LinkOwnership ==
  IF exited
    THEN open = {} /\ wsa = 0 /\ bt = NoSock
    ELSE /\ open = Held \cup Dialed
         /\ bt = NoSock \/ Dialed = {}
         /\ wsa = Cardinality(open) + (IF pc = "socket" THEN 1 ELSE 0)

\* When run_live waits for a request it has not left "Ready" behind, whatever
\* RPC threads did between its publishing the link and its recording it.
NoPhantomReady == pc = "gate" => liveState # "Ready"

\* run_live reports the connection as failed only after MaxRetries attempts in
\* a row lost since the last success or since the request was taken up
\* (ReconnectPolicy with its reset on success).
GivesUpOnlyAfterAllRetries == pc \in {"err", "errTell"} => losses = MaxRetries

\* A withdrawn request releases the radio: with every RPC thread and the live
\* thread scheduled, a daemon that is not to be connected ends with no socket
\* open, unless it is asked to connect again or waits for the preamble reply.
DisconnectReleases ==
  ~desired ~> (open = {} \/ desired \/ pc = "preamble")

\* A request to connect is resolved: the data pump serves a link, the request is
\* withdrawn (by a disconnect or by giving up), or the daemon stops; only a
\* band that accepts the connection and never answers the preamble delays it.
ConnectResolves ==
  desired ~> (pc = "pump" \/ ~desired \/ shutdown \/ pc = "preamble")
=============================================================================

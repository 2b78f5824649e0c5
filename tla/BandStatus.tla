----------------------------- MODULE BandStatus -----------------------------
\* What the user is told about the band's connection, and the buttons that
\* change it: the bridge in the main process (pulse-core-bridge.ts) copies the
\* daemon's state from two sources, the device.state events and the answers of
\* device.status, which travel on one socket; each page that shows it adds a
\* transition of its own (useBandConnection.ts, ConnectBandStep.tsx).
EXTENDS Naturals, Sequences, FiniteSets

CONSTANTS
  Hooks,      \* the mounted uses of useBandConnection
  Steps,      \* the mounted ConnectBandStep, if any
  MaxMoves,   \* bound: changes of the daemon's state it was not asked for, lost links
  MaxClicks,  \* bound: clicks of the user
  MaxPipe     \* bound: messages of the daemon not yet read

VARIABLES
  live,     \* the daemon's own state of the link to the band
  wish,     \* the client's _bandConnectionDesired
  up,       \* the socket to the daemon is connected
  wire,     \* requests on their way to the daemon
  pipe,     \* events and answers on their way back
  due,      \* answers read in this turn of the event loop, to be acted on
  shown,    \* state.connection.state, as pushed to every page
  ready,    \* the promise of ensureReady: no, starting, refreshing, yes
  call,     \* where each running handler stands
  pending,  \* the hooks whose pendingConnect is set
  busy,     \* the pages whose busy or connecting flag is set
  spent     \* the bounds used up

bandVars == <<live, wish, up, wire, pipe, due, shown, ready, call, pending, busy, spent>>

Pages == Hooks \cup Steps
LinkStates == {"disconnected", "connecting", "connected", "error"}
PollCaller == <<"main", "poll">>
Restore == <<"main", "restore">>
Callers == (Pages \X {"connect", "disconnect"}) \cup {PollCaller}
Idle == [at |-> "idle", sent |-> FALSE, ok |-> TRUE]
StandsAt(place, ok) == [at |-> place, sent |-> FALSE, ok |-> ok]

BandInit ==
  /\ live = "disconnected" /\ wish = FALSE /\ up = FALSE
  /\ wire = <<>> /\ pipe = <<>> /\ due = <<>>
  /\ shown = "disconnected" /\ ready = "no"
  /\ call = [c \in Callers |-> Idle]
  /\ pending = {} /\ busy = {}
  /\ spent = [moves |-> 0, clicks |-> 0]

-----------------------------------------------------------------------------
\* The daemon (external): it answers the requests in order, broadcasts every
\* change of its state, and connects in the background.

Event(s) == [kind |-> "event", state |-> s]
Answer(c, ok, s) == [kind |-> "answer", to |-> c, ok |-> ok, state |-> s]

\* A change in the background: the connection came up or failed, or the band
\* left and the daemon connects again.
DaemonMoves ==
  \E s \in CASE live = "connecting" -> {"connected", "error"}
            [] live = "connected" -> {"connecting"}
            [] OTHER -> {} :
    /\ up /\ spent.moves < MaxMoves /\ Len(pipe) < MaxPipe
    /\ live' = s
    /\ pipe' = Append(pipe, Event(s))
    /\ spent' = [spent EXCEPT !.moves = @ + 1]
    /\ UNCHANGED <<wish, up, wire, due, shown, ready, call, pending, busy>>

\* What the reconnected client asks of a daemon it knew before: its status, and
\* to connect the band if that says it is not connected. The answer and the
\* request it leads to are one step.
Recovers(s) == IF s = "connected" THEN <<>> ELSE <<[by |-> Restore, ask |-> "connect"]>>

\* device.status, device.connect, device.disconnect and device.sync.time.
\* Connecting and setting the clock may be refused.
DaemonAnswers ==
  /\ up /\ wire # <<>> /\ Len(pipe) < MaxPipe
  /\ LET c == Head(wire).by
         asked == Head(wire).ask
         becomes == CASE asked = "connect" /\ live # "connected" -> "connecting"
                      [] asked = "disconnect" -> "disconnected"
                      [] OTHER -> live
         news == IF becomes = live THEN <<>> ELSE <<Event(becomes)>>
     IN \E ok \in BOOLEAN :
          /\ asked \in {"refresh", "status", "disconnect"} => ok
          /\ live' = IF ok THEN becomes ELSE live
          /\ pipe' = pipe \o (IF ok THEN news ELSE <<>>)
                             \o (IF c = Restore THEN <<>> ELSE <<Answer(c, ok, live')>>)
       /\ wire' = Tail(wire) \o (IF c = Restore /\ asked = "status" THEN Recovers(live) ELSE <<>>)
  /\ UNCHANGED <<wish, up, due, shown, ready, call, pending, busy, spent>>

-----------------------------------------------------------------------------
\* What the pages show.

\* A snapshot of the state reaches the pages, and each hook's effect drops its
\* pendingConnect once the state has really moved.
Shows(s, waiting) ==
  /\ shown' = s
  /\ pending' = IF s \in {"connected", "error"} THEN {} ELSE waiting

\* What a page displays: a hook that has just been asked to connect says so
\* until the daemon does.
PageState(p) ==
  IF p \in pending /\ shown = "disconnected" THEN "connecting" ELSE shown

\* canConnectBand, and the step's own disabled condition.
CanConnect(p) == p \notin busy /\ PageState(p) \notin {"connected", "connecting"}

\* applyDeviceState: what an event says is what is shown.
FromEvent(s) == s

\* Mutant: the poll refreshes what is known of the daemon, not of the band.
FromStatus_Stale(s) == shown

\* refreshBandState: device.status does not say that the daemon is connecting.
FromStatus(s) == IF s = "connecting" THEN "disconnected" ELSE s

-----------------------------------------------------------------------------
\* The bridge's handlers.

\* A call goes to the daemon over the socket, which the client may have to open
\* again first.
Issue(c) ==
  /\ call[c].at \in {"status", "connect", "time", "disconnect", "refresh"}
  /\ ~call[c].sent /\ up
  /\ wire' = Append(wire, [by |-> c, ask |-> call[c].at])
  /\ call' = [call EXCEPT ![c].sent = TRUE]
  /\ UNCHANGED <<wish, live, up, pipe, due, shown, ready, pending, busy, spent>>

\* The handler is done: connectBand and disconnectBand resolve in their page.
Returns(c, ok) ==
  LET p == c[1] IN
  IF c = PollCaller
  THEN /\ ready' = IF ready = "refreshing" THEN "yes" ELSE ready
       /\ UNCHANGED busy
  ELSE /\ busy' = IF p \in Steps /\ c[2] = "disconnect" THEN busy ELSE busy \ {p}
       /\ UNCHANGED ready

\* Where the hook's own transition ends: on a refusal, and on every disconnect.
StillPending(c, ok) ==
  IF c # PollCaller /\ (~ok \/ c[2] = "disconnect") THEN pending \ {c[1]} ELSE pending

\* refreshBandState has its answer, or has none and leaves the state alone.
Refreshed(c, m) ==
  /\ call' = [call EXCEPT ![c] = Idle]
  /\ Returns(c, call[c].ok)
  /\ Shows(IF m.ok THEN FromStatus(m.state) ELSE shown, StillPending(c, call[c].ok))

\* The finally of a handler that failed: connectBand refreshes only while the
\* socket is up, disconnectBand always.
Finally(c, ok) ==
  IF up \/ c[2] = "disconnect"
  THEN /\ call' = [call EXCEPT ![c] = StandsAt("refresh", ok)]
       /\ UNCHANGED <<ready, busy, shown, pending>>
  ELSE /\ call' = [call EXCEPT ![c] = Idle]
       /\ Returns(c, ok)
       /\ Shows(shown, StillPending(c, ok))

GoesOn(c, place) ==
  /\ call' = [call EXCEPT ![c] = StandsAt(place, TRUE)]
  /\ UNCHANGED <<ready, busy, shown, pending>>

\* One answer, or the failure of one call, continues the handler that waits for
\* it: connectBand asks for the status, connects if the band is not connected,
\* sets the band's clock (whose failure is ignored) and refreshes.
Continues(c, m) ==
  LET at == call[c].at IN
  \/ at = "refresh" /\ Refreshed(c, m)
  \/ at = "time" /\ Finally(c, TRUE)
  \/ at = "status" /\ m.ok /\ GoesOn(c, IF m.state = "connected" THEN "time" ELSE "connect")
  \/ at = "connect" /\ m.ok /\ GoesOn(c, "time")
  \/ at = "disconnect" /\ m.ok /\ Finally(c, TRUE)
  \/ at \in {"status", "connect", "disconnect"} /\ ~m.ok /\ Finally(c, FALSE)

\* One turn of the event loop reads a run of messages: the events are applied at
\* once, the answers' continuations run after the whole run.
ReadChunk ==
  /\ due = <<>>
  /\ \E n \in 1..Len(pipe) :
       LET run == SubSeq(pipe, 1, n)
           events == SelectSeq(run, LAMBDA m : m.kind = "event")
       IN /\ due' = SelectSeq(run, LAMBDA m : m.kind = "answer")
          /\ pipe' = SubSeq(pipe, n + 1, Len(pipe))
          /\ Shows(IF events = <<>> THEN shown ELSE FromEvent(events[Len(events)].state),
                   IF \E i \in 1..Len(events) : events[i].state \in {"connected", "error"}
                   THEN {} ELSE pending)
  /\ UNCHANGED <<wish, live, up, wire, ready, call, busy, spent>>

\* The client notes what the user wants once the daemon has agreed to it.
Continue ==
  /\ due # <<>>
  /\ LET c == Head(due).to IN
       /\ wish' = IF Head(due).ok /\ call[c].at \in {"connect", "disconnect"}
                  THEN call[c].at = "connect" ELSE wish
       /\ Continues(c, Head(due))
  /\ due' = Tail(due)
  /\ UNCHANGED <<live, up, wire, pipe, spent>>

\* A call without a socket that cannot be opened fails where it stands.
Unreachable(c) ==
  /\ due = <<>> /\ ~up /\ call[c].at \notin {"idle", "start"}
  /\ Continues(c, Answer(c, FALSE, live))
  /\ UNCHANGED <<wish, live, up, wire, pipe, due, spent>>

\* The socket is lost: every request and answer on it with it. The calls are
\* rejected (Unreachable), unless they had not been sent.
LinkLost ==
  /\ up /\ due = <<>> /\ spent.moves < MaxMoves
  /\ up' = FALSE /\ wire' = <<>> /\ pipe' = <<>>
  /\ Shows("disconnected", pending)
  /\ spent' = [spent EXCEPT !.moves = @ + 1]
  /\ UNCHANGED <<wish, live, due, ready, call, busy>>

\* The client connects again, to the same daemon or to a new one. If the user
\* wants the band connected, it tells a new daemon so at once, and asks the one it
\* knows for the status first. Only what is known of the daemon is refreshed.
LinkBack ==
  /\ ~up /\ ready \in {"refreshing", "yes"}
  /\ \A c \in Callers : ~call[c].sent
  /\ up' = TRUE
  /\ \E fresh \in BOOLEAN :
       /\ live' = IF fresh THEN "disconnected" ELSE live
       /\ wire' = IF wish THEN <<[by |-> Restore, ask |-> IF fresh THEN "connect" ELSE "status"]>>
                  ELSE <<>>
  /\ UNCHANGED <<wish, pipe, due, shown, ready, call, pending, busy, spent>>

\* ensureReady: the first handler starts the client, which connects or fails.
\* The handlers that wait share its promise.
Waiting(c) == c # PollCaller /\ call[c].at = "start"

BeginsStart ==
  /\ ready = "no" /\ \E c \in Callers : Waiting(c)
  /\ ready' = "starting"
  /\ UNCHANGED <<wish, live, up, wire, pipe, due, shown, call, pending, busy, spent>>

ClientStarts ==
  /\ ready = "starting"
  /\ up' = TRUE /\ ready' = "refreshing"
  /\ call' = [call EXCEPT ![PollCaller] = StandsAt("refresh", TRUE)]
  /\ UNCHANGED <<wish, live, wire, pipe, due, shown, pending, busy, spent>>

\* The daemon cannot be reached: the promise is dropped, so that the next click
\* tries again, and every handler that waited for it reports the failure.
StartFails ==
  /\ ready = "starting" /\ spent.moves < MaxMoves
  /\ ready' = "no"
  /\ LET failed == {c \in Callers : Waiting(c)} IN
       /\ call' = [c \in Callers |->
             IF c \notin failed THEN call[c]
             ELSE IF c[2] = "disconnect" THEN StandsAt("refresh", FALSE) ELSE Idle]
       /\ LET back == {c[1] : c \in {d \in failed : d[2] = "connect"}} IN
            /\ busy' = busy \ back
            /\ pending' = pending \ back
  /\ spent' = [spent EXCEPT !.moves = @ + 1]
  /\ UNCHANGED <<wish, live, up, wire, pipe, due, shown>>

Enter(c) ==
  /\ Waiting(c) /\ ready = "yes" /\ due = <<>>
  /\ call' = [call EXCEPT ![c] = StandsAt(IF c[2] = "connect" THEN "status" ELSE "disconnect", TRUE)]
  /\ UNCHANGED <<wish, live, up, wire, pipe, due, shown, ready, pending, busy, spent>>

\* The five-second timer of refreshAll.
PollTick ==
  /\ ready = "yes" /\ call[PollCaller] = Idle
  /\ call' = [call EXCEPT ![PollCaller] = StandsAt("refresh", TRUE)]
  /\ UNCHANGED <<wish, live, up, wire, pipe, due, shown, ready, pending, busy, spent>>

-----------------------------------------------------------------------------
\* The user.

Click == spent.clicks < MaxClicks /\ spent' = [spent EXCEPT !.clicks = @ + 1]

ClickConnect(p) ==
  /\ Click /\ CanConnect(p) /\ call[<<p, "connect">>] = Idle
  /\ call' = [call EXCEPT ![<<p, "connect">>] = StandsAt("start", TRUE)]
  /\ busy' = busy \cup {p}
  /\ Shows(shown, IF p \in Hooks THEN pending \cup {p} ELSE pending)
  /\ UNCHANGED <<wish, live, up, wire, pipe, due, ready>>

\* Cancelling a connection is the same call as disconnecting; the setup step
\* offers it only when connected, and sets no flag.
ClickDisconnect(p) ==
  /\ Click /\ call[<<p, "disconnect">>] = Idle
  /\ PageState(p) = "connected" \/ (p \in Hooks /\ PageState(p) = "connecting")
  /\ call' = [call EXCEPT ![<<p, "disconnect">>] = StandsAt("start", TRUE)]
  /\ busy' = IF p \in Hooks THEN busy \cup {p} ELSE busy
  /\ UNCHANGED <<wish, live, up, wire, pipe, due, shown, ready, pending>>

BandUser == \E p \in Pages : ClickConnect(p) \/ ClickDisconnect(p)
BandMain ==
  \/ ReadChunk \/ Continue \/ BeginsStart \/ ClientStarts \/ StartFails
  \/ LinkBack \/ PollTick
  \/ \E c \in Callers : Issue(c) \/ Unreachable(c) \/ Enter(c)
BandWorld == DaemonMoves \/ DaemonAnswers \/ LinkLost
BandNext == BandUser \/ BandMain \/ BandWorld

-----------------------------------------------------------------------------
\* The named properties' parts.

\* What a page may show of a daemon that stays as it is.
TrueOf(s) == IF s = "connecting" THEN {"connecting", "disconnected"} ELSE {s}

\* Once the daemon and the socket stay as they are, every page comes to show the
\* daemon's state, however old the answers were that it read meanwhile: the poll
\* repairs a status that overwrote a newer event (pulse-core-bridge.ts,
\* refreshBandState and the five-second timer).
StatusHeals ==
  \A s \in {"connected", "error", "connecting"} :
    <>[](up /\ live = s) => <>[](\A p \in Pages : PageState(p) \in TrueOf(s))

=============================================================================

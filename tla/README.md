# Formal model of pulse-band

TLA+ models of the program in this repository, the TLC configurations that
check them on small instances, and TLAPS proofs of what they promise for every
instance. Module names follow the parts of the code; `PROJECT.json` maps each
definition to the lines it models.

## 1. The system

A desktop application (Electron, `src/`) shows what coding agents are doing and
sends it to a smart band. It starts a daemon, `pulse-core` (Rust, `core/`),
which owns the Bluetooth link; a quick app on the band (`band-app/`) asks for
status through that link.

    agents' logs, hooks          pulse-core --live                     band
      | tailers, hook server       |  one live thread: dial, pump       |
      v                            |  one thread per RPC connection     |
    session manager, quota --> status server                            |
      |                            |                                    |
    fetch bridge <-- core client ==TCP, JSON lines==> rpc.rs            |
    install service ------------^  |                                    |
                                   live.rs ===RFCOMM frames=========> quick app

### Components

| component | state | operations | talks to |
|---|---|---|---|
| live link (`core/src/live.rs`, `rpc.rs`, `main.rs`) | `desired_connected`, `shutdown_requested`, `live_state`, `Core.bt` (the socket's owner), the thread's own socket number, retry policy | dial and authenticate, publish, pump, back off, give up; `device.connect/disconnect/status`, `daemon.stop` | RPC threads through two atomics and two mutexes; the band; clients through broadcasts |
| install transport (`install/xiaomi/protocol.rs`, `runtime_bridge.rs`, `device_session.rs`) | metadata, session, chunk count, `transfer_buffer`, `inflight`; the gate, the global event queue, the incoming queue, the acknowledgement queue | prepare, send_chunk, commit, cancel; dispatch by the pump; `on_live_pump_exit` | the pump through globals; `Core.bt`; RPC threads under one mutex |
| watchface transport (`watchface_install.rs`, `runtime_bridge.rs`) | shares the gate and queues above | list, set, install | same |
| authentication (`session.rs`) | handshake state, nonces | three-step challenge and confirm | the band |
| codecs (`frame.rs`, `crc.rs`, `mass.rs`, `codec.rs`, ...) | none, but for the receive buffer | encode, decode, resynchronise | |
| core client (`pulse-core-client.ts`) | endpoint, socket, line buffer, pending calls, merged promises, reconnect timer, wish of the user, degradation | ensureDaemon, connect, reconnect, call, stop, dispose | the daemon; the bridge through events |
| core bridge (`pulse-core-bridge.ts`) | state shown to the renderer, readiness, poll timer | connect, disconnect, poll every 5 s, map `device.state` | core client, renderer |
| install service (`app-install-service.ts`) | one session with its status and progress | prepare, send chunks, commit, cancel | core client, renderer |
| fetch bridge (`fetch-bridge-direct.ts`) | counters | answer a `fetch` of the band | status server, core client |
| agent sources (`claude-hook-server.ts`, `session-manager.ts`, tailers) | sessions, file positions | events, polling of files | status server |
| quota collector, status server | caches, back-offs | poll, merge, answer | HTTP |
| band app (`band-app/src/pages/index/index.ux`) | transport mode, fetch lock, timers | show, hide, fetch, fall back | the link, HTTP |
| watchface previews (`watchface-preview-*.ts`, `watchface-service.ts`) | index and pictures on disk, cached addresses, pictures whose watchface is not yet known | list, set, install; scan, choose, clear, align | the band, the page |
| device configuration (`device-config-service.ts`) | `device.json`, the last scan | choose a band, save | Windows' pairing list, the wizard |
| hook installation (`claude-hook-*.ts`) | the user's `settings.json`, its backup, the wrapper | install, remove | Claude Code and the user, through the file |
| updates and quitting (`update-service.ts`, `index.ts`) | one download, the installer, the quit budget | ask, download, verify, start, quit | GitHub, the daemon |
| mini bar (`minibar-window.ts`, `MiniBar.tsx`) | bounds, edge, form, preferences; hover, pin, menu, timers | expand, dock, drag, hide | page and window by commands and states |
| renderer pages | their own flags, timers and callbacks | clicks, answers | main process |

### What is hard in it

*Concurrency.* The daemon has one live thread and one thread per RPC
connection. They agree through two atomic flags, one mutex for the status and
one for the socket, taken separately: every handler is several visible steps.
The pump and the install calls share four globals under no common lock. The
desktop is single-threaded, but every `await` lets another call in.

*Failure.* The link drops at any moment, inside a call or between two; the band
may answer late, twice or never; the daemon may be stopped by another client or
die and come back with another port.

*Ordering and limits.* Frame numbers are eight bits, acknowledged
cumulatively, and shared by an install and ordinary traffic; queues drop their
oldest entry when full; requests of one RPC connection are served in order, so
a cancel waits behind a slow chunk.

For each component, what makes it correct:

- live link: the socket has one owner and is closed once; a parked link has left
  no "ready" behind; a withdrawn request frees the radio; giving up takes every
  retry; a request is served or refused.
- flow control: nothing is struck off that the band does not have; no
  acknowledgement is wasted; an app transfer ends with every part delivered.
- install: the band gets the declared file and only after agreeing to it;
  "completed" is confirmed by the band twice; the gate is closed when idle.
- core client: a lost daemon is found again and a client is never left alone;
  every call ends, and so does quitting.
- app install service: nothing is said to be installed that the core did not
  conclude, however two pages' calls interleave on the one session.
- fetch bridge: one answer per request, an error when the data cannot be sent.
- agent sources: no line lost or repeated; the band shows the agent's last turn;
  the user's settings survive.
- quota: what is served as the server's own is recent; each message counts once;
  the login survives; back-off ends.
- watchfaces: a picture belongs to its file; the page shows what the band has.
- windows and pages: the bar stays where it was put; status, wizard and
  configuration say what is so and what the user chose.

`PROJECT.json` lists the hazards of this code line by line, with the properties
that watch each one.

## 2. Plan

| # | modules | subject | state |
|---|---|---|---|
| 1 | `LiveLink`, `LiveLinkProofs` | live thread and RPC threads | checked, proved |
| 2 | `SlidingWindow`, `MassTransfer`, `MassTransferProofs` | flow control and what it implements | checked, proved |
| 3 | `AppInstall`, `AppInstallProofs` | install transport, pump, watchface calls | checked, proved |
| 4 | `CoreClient`, `CoreClientProofs` | daemon processes, reconnection, merged calls, the user's wish, quitting | checked, proved |
| 5 | `InstallService`, `AppInstallProofs` | the service's own awaits, two pages | checked, proved |
| 6 | `BandStatus`, `FetchBridge`, `Updates`, `HookSettings`, `DesktopProofs` | the desktop's main process | checked; the last three proved |
| 7 | `AgentSessions`, `ClaudeActivity`, `CodexTailer`, `AntigravityPoller`, `DesktopProofs` | agent sources | checked, proved |
| 8 | `QuotaCollector`, `ClaudeToken`, `QuotaLog`, `AntigravityRpc`, `ResetLabel`, `QuotaProofs` | quota | checked; all but `AntigravityRpc` proved |
| 9 | `WatchfacePreviews`, `WatchfacePage`, `PreviewImage`, `WatchfaceProofs` | watchfaces | checked, proved |
| 10 | `MinibarWindow`, `MiniBar`, `DeviceConfig`, `SetupWizard`, `PagesProofs` | windows and pages | checked, proved |
| 11 | `RadioLease` | abstract promise of the link, implemented by `LiveLink` | planned |
| 12 | `AuthHandshake`, `FrameDecoder`, `BandApp` | order of frames, resynchronisation, the band's fall-back | planned |

The modules are independent: `MiniBar` extends `MinibarWindow`, the agent sources
extend `AgentSessions`, and nothing else shares variables. An MC module takes the
modules of one run together.

## 3. The modules

### LiveLink

One variable per field of `Core` the link uses, `pc`, `sock` and `attempt` for
the live thread, `rpc` and `seen` for each RPC thread, `open` and `wsa` for the
operating system. A step is what one thread does between two points at which
another thread can look: `device_connect_live` is `ConnectRequest` (store the
flag), `ConnectReads` (lock, read the status), `ConnectWrites` (lock, write) and
`ConnectTells` (broadcast); `run_live` is cut the same way at each atomic, lock
and broadcast. Closing a socket is part of dropping its context, as `Drop` is.
`OpenSocket` takes any handle that is not open, so a number may be reused.
Time is left out: an interval "may" end.

History variable: `losses` counts failed attempts.

Safety (`LiveLinkSafety.cfg`: two RPC connections, two handles, the code's three
retries, both symmetric): types; `LinkOwnership`; `NoPhantomReady`;
`GivesUpOnlyAfterAllRetries`. Two connections suffice for every pair of handlers
to race with the live thread; there is never more than one socket open, so two
handles are enough for reuse. The daemon really ends, so deadlock is not an
error.

Liveness (`LiveLinkLiveness.cfg`: one connection, one handle):
`DisconnectReleases` and `ConnectResolves` under weak fairness of the live
thread's own steps and of each handler once it has begun. The operating system
schedules threads, every one of those steps is bounded by a timeout or a sleep
in the code, and no fairness is given to the band (`BandDecides`) nor to users'
requests. The one step the code does not bound is the preamble read
(`connect_rfcomm` reads before any receive timeout is set), so both properties
except it: a band that accepts the connection and never answers delays them.

Two traits of the model that no property is about: after a disconnect the live
thread may still write its status over `Disconnected` (1101 against 948, 974, 886,
865), and a connect that read the status too early leaves `Connecting` over a
`Ready` for as long as the link lasts (1059, 1064). Both contradict the comments on
those functions (1095, 1054) only in what `device.status` reports.

### SlidingWindow and MassTransfer

`SlidingWindow` is the promise, without numbers. `MassTransfer` is the code:
parts and all other frames draw their numbers from one counter modulo `2 * Half`
(256 in the code), the band acknowledges cumulatively, the pump queues the
acknowledgements, and both copies of the loop (`kind`: app and watchface) pop
them with `ack_cumulative`. Frames are counted from the oldest one whose
acknowledgement can still be queued, so numbers on the wire are remainders.

`MassTransferQuiet.cfg` scales the number space to 10, the window to 3 and sends
ten parts, so that numbers wrap within one transfer and the largest distance
between an acknowledgement and a part still fits: types, `AckedIsReceived`,
`NoLostAck` and the refinement `SlidingWindowSpec`. Deadlock is off because a
transfer ends.

All four need `Quiet`: other traffic plus the window fits in half the number
space. That is an assumption about use (an install during which fewer than
96 other frames are numbered), stated once and used by every theorem.
Without it an acknowledgement left over from the upload can be less than half the
space ahead of a new part and strike it off unsent, against the comment on
`ack_cumulative` (protocol.rs:50).

### AppInstall

The transport's fields (`meta`, `session`, `sent`, `prepared`, `buffer`), the
gate, both queues, the link as up, closing (the pump has returned, `Core.bt`
still set) or down, the band's frames in the air, and the desktop service's
session, which makes the calls. `op` is what the call that holds the install
mutex waits for; a call is one action up to its first wait and one per frame it
takes, so the pump, the band, a link that fails and `on_live_pump_exit` (which
takes no lock) come in between. An error path is `Fails`: gate closed, session
failed. A timeout may fire at any time.

A chunk is its file and index, so a body made of two files' chunks is visible.
`AppInstallSafety.cfg` has a file of one chunk (its first is its last) and one of
two, two links, two installs, one watchface call, two frames in the air and a
queue of two: every action fires, and a retry meets what a failed install left.
`heard` records which accepted frames the pump read since the install began,
whatever happened to them; `RepliesAreItsOwn` relates what the install believed to
it. Deadlock is off: the bounds end every behaviour.

Three traits no property is about: a retry after a failure starts with the old
chunks in `transfer_buffer`, and only the size check stops it; a watchface call
between the last chunk and commit closes the gate, and the band's result is
dropped; frames already drained survive the link.

### CoreClient

The fields of `PulseCoreClient` that decide something (`endpoint`, `socket`,
`timer`, `desired`, `lastPid`, `degraded`, the shared promises as `ensuring` and
the task `merged`), every connection with its requests in order, `core.json`
(`file`) and every `pulse-core` process. The client runs on one thread, so an
action is what runs between two awaits and `task` says at which await each chain
stands: the merged `connectOnce`, the closures of the reconnect timer, the
bridge's connect and disconnect (`ui`), any other call such as the poll (`page`)
and quitting (`quit`). A process is its number; a number that nothing refers to
any more is used again. `Fault` counts what goes wrong by itself: a crash, a
daemon or child too slow, a failed process look-up, a refused connection.

- `CoreClientSafety.cfg` (the user, two closures, two attempts per
  `connectOnce`, two faults: a crash and another failure while recovering):
  types, `NeverAbandoned` and `OldIsDegraded`.
- `CoreClientLiveness.cfg` (the poll and quitting, one closure, one attempt, one
  fault): `Reconnects` and `CallsSettle`.

Three connections are never used up in these runs, nor four process numbers,
nor two closures; with one closure a timer that fires during another
reconnection waits for its end. More faults repeat these cases. Fairness: the
event loop runs each ready step, processes run, timers end; nothing goes wrong
and nobody asks anything by fairness. Deadlock is off: the application ends.

`Resumed`, `MergedEnds` and `CallFails` are the promise chains: who goes on, and
where, when something shared is fulfilled or rejected. `dispose` is the end of a
quit: nothing but leaving follows (`Running`); what a closure still waiting in
`ensureDaemon` does in the instant before the process exits is left out.

Two traits that no property is about and that the comments contradict: a poll that
reconnects before the timer leaves a restarted daemon uninformed of the user's wish
(pulse-core-client.ts:350, against 358), and the timer's closure may send
`device.connect` behind the user's disconnect (359-375).

Other traits the model has and no run is about: the closure opens a second
connection past the merging of `ensureConnected` (the first one stays open, and
its replies still count); two daemons can both look before either writes
`core.json`; a slow version check degrades a daemon of the right version; nothing
keeps a quit from stopping a daemon of another version.


### InstallService

`this.session` of the desktop's service (`current`) and the calls of two pages on
it: the wizard's step, which installs the bundled package in one call, and the
page for other packages, which prepares, then sends or cancels. `call[c].pc` says
at which await a call stands; the core behind `core-app-install-bridge.ts` answers
the requests of one socket in order (`wire`), and any of them may fail or time
out first. What the core does with them is `AppInstall`, so the two share a run
as `part`s of `MCAppInstall` and no state: composing them would multiply the
interleavings of two machines that meet only in requests already modelled on
both sides.

`InstallIsTrue` is four parts: the byte count is that of the chunks received; no
chunk follows a commit; success is said only by a call whose own commit was
concluded; nothing goes to a cancelled core session. In the run: two calls of the
page besides the wizard's (one may still wait while the next goes on, as after a
cancel), one package of two chunks, and four install ids, of which one in use is
never given out again.

### Parts that share a run

The remaining modules are small machines without common state. An MC module
takes several of them: a behaviour is of one `part`, chosen at its start, and the
others stand still with nothing to do. A property of a run is the conjunction of
the named properties of its parts, each about one hazard.

### Agents (`MCAgents`, `Agents.cfg`)

`AgentSessions` is the list all sources write and what the band reads of it.

`ClaudeActivity` has two sources that do not know of each other: hook processes
that post (`posts`, in any order; one may outlive its timeout) and the tailer,
which reads transcripts in units of half a line. `BandShowsTurn`: once all is
read, the band shows what Claude did last. It excepts a post that came after its
hook's timeout (`stray`): such a post can put a finished turn back to thinking
until Claude's next event. Two transcripts, four events, and a window of seven
units, less than the longest transcript and odd, so that a switch starts inside a
line.

`CodexTailer` cuts a line in three (text, text, newline), with a watch that may
stop, a poll that stands in, deleted logs and midnight. `LogIsFollowed`: lines
reach the list once and in order, none is passed over but the one a first full
read finds half written (`cut`; the code does pass it over), and the list says
what the last one says. `KnownLogsAreRead` asks that the poll alone suffices.
One log of four lines: logs do not influence each other but through the list's
order, which `AgentSessions` keeps.

`AntigravityPoller` counts time in ticks: intervals of 2 and 3, a grace from 1 to
3 and a margin of 1, so that a pause can be shorter than the
grace, longer, and longer than the largest. `OnlyCurrentRuns`, `PausesAreLearnt`
and `EndIsShown`.

Fairness: the poll of the tailer (`CodexFairness` is weak fairness written out,
because the poll runs with nothing to do most times), the poller's timer and the
clock. Nothing is asked of agents, hooks, watches or users.

### Quota (`MCQuota`, `Quota.cfg`)

`QuotaCollector` is `getQuotas` with its cache, the background fetch, back-off,
`retry-after`, the refused credential, expiry of a window, and the reading saved
on disk and loaded at a start. Ages and waits are ticks, counted up to the
constant past which nothing changes. `AuthoritativeIsFresh`,
`OldWindowIsForgotten`, `BackoffIsKept`, and `QuotaRecovers`, which assumes a
server that answers from some time on and an application that is polled.

`ClaudeToken` has Claude Code and Pulse renew one login from one file.
`LoginIsKept` says the file ends with the refresh token the server accepts; it
excepts a renewal whose answer or write was lost and a login in the middle of a
write (`overwritten`), which the code cannot help or warns of.

`QuotaLog` counts messages logged several times, in several files, some removed.
Its operators are compared with a count of the messages themselves, block by
block. `AntigravityRpc` is the endpoint two pollers share and clear;
`ResetLabel` the text of the reset, which is parsed again later, perhaps after
midnight (a day of four minutes of three ticks, three days).

Fairness: `/status` is asked for, time passes, a fetch ends (it has a timeout),
and the pollers come round.

### Watchfaces (`MCWatchface`, `Watchface.cfg`)

`WatchfacePreviews` is the store (an index and one file per watchface; a crash
may come between the two writes, `torn`) and the service that fills it: the scan
of the seed directories, the user's choice, an install, and alignment with the
names the band reports. Store calls are synchronous, so each is a step; every
await of the service is a place where the others come in. `PreviewsAreRight`:
the cached address is of the file that is there, the index is true of the file,
and after a scan a watchface has a picture of a `.bin` as it is now.

`WatchfacePage` is `useWatchFace` with its busy flag over a core that runs calls
in order, some given up by their timeout, some of a page since left. A page may
show an old list when it could not know better; `excused` records exactly when
(a failed or abandoned call that did something, a crossing with a list, the band
itself). `PreviewImage` runs the run-length decoders on everything an encoder
writes for two packets, whole, cut short or declared with another length.

`Watchface_ManualIsKept.cfg` checks the claim that an automatic picture never
replaces the user's. It fails: `prepareFromBin` reads the entry, awaits `stat`
and `readFile`, and stores what it decided before.

### Desktop (`MCDesktop`, `Desktop.cfg`)

`BandStatus`: the bridge copies the daemon's state from events and from answers
of `device.status`, which share one socket, and each page adds a transition of
its own; the daemon may be lost and found. One page of each kind, two clicks, two
changes by the daemon itself and two messages unread are enough for an answer to be
overwritten by an older one and for a wish to cross a lost socket. `StatusHeals`: if the daemon stays
connected, in error or connecting, every page comes to show it, however old the
answers it read meanwhile. Two things it does not claim. A daemon that stays
disconnected is not covered, because a page's `pendingConnect` is only cleared by
connected or error: a connection cancelled from another page leaves it at
"connecting". And a connecting daemon may be shown as disconnected, because
`refreshBandState` has no connecting.

`FetchBridge`: three messages of any kind (handshakes, fetches, other packages,
noise), replies that fail, and one that its call gave up and that is sent later.
`FetchesAreAnswered`.

`Updates`: the page, the one download with its stream (idle timer, back-pressure,
failed writes, a second page that joins), the installer and quitting within its
budget. `VerifiedIsRun` and `UpdatesEnd`; a download ends whatever the
connection does.

`HookSettings` is the read, merge, backup, temporary file and rename of the
user's `settings.json`, with a kill between any two and others who write it
(`edited`; the code takes no lock, so what they write between its read and its
rename is lost and excepted). `SettingsAreKept`: nothing of others' is taken
away, ours does not pile up, a file that does not parse is left alone, the backup
is of before the first installation.

Fairness: the daemon answers; the event loop takes some step while it has one
(one condition for the loop, not one per handler); the stream's and the quit's
timers fire. Nothing is asked of the user, the band or the network.

### Pages (`MCPages`, `Pages.cfg`)

`MinibarWindow` has the bounds, edge, form and displays with the arithmetic of
`minibar-geometry.ts` in real pixels (a 1920 by 1040 and a 1536 by 824 work
area); `MiniBar` the page with hover, pin, menu and timers, whose commands and
the window's states travel in two queues. They run twice: as `bar`, window and
page together, and as `window`, with any page that sends any command. `PageAgrees`
asks that they agree once all is heard; `BarStaysPut` that opening, closing and
the edge-tab do not move a bar that lies on one display, that moves are saved, and
that a bar that appears is on a display. A bar that touches two displays may go to the other
when it comes back from the edge-tab: the code takes the first display it touches
(minibar-window.ts:168). One command may be on its way while the mouse moves.

`DeviceConfig`: choosing a band while a list is read and a scan runs, and saving
with a kill between the two file operations. `SavedIsChosen`. One save per run;
two at once would share one temporary name, which the page's flag prevents while
it stays mounted.

`SetupWizard`: four steps with callbacks that may come after the user went on,
or closed the wizard and opened it again. `SuccessIsEarned`.

## 4. What is proved

TLAPS checks every leaf; nothing is assumed but the named constants' assumptions
(and `Quiet` where said).

`LiveLinkProofs`: for any set of RPC threads, any set of handles and any positive
number of retries, `TypeOK`, `LinkOwnership`, `GivesUpOnlyAfterAllRetries` and
`NoPhantomReady` are invariants of `Spec`. None is inductive by itself. The
invariant `IInv` adds where `Core.bt` can be set relative to the live thread's
`pc` (`BtIsOurs`), who owns each open socket (`Owners`), how `losses` and
`attempt` move together (`Counting`) and at which `pc` "Ready" can stand
(`ReadyWhere`). Steps fall into three lemmas: those that touch neither socket nor
counters, those of the link, those of RPC threads.

`MassTransferProofs`: under `Quiet`, for every number space, window, body and
queue, `TypeOK`, `AckedIsReceived`, `NoLostAck` and the refinement
`SlidingWindowSpec`. The heart is `HalfRange`: if two counts are less than half
the space apart, the remainders compare as the counts do; it is built on three
lemmas about `%`. `IInv` keeps every queued acknowledgement and every part in
flight within that distance.

`AppInstallProofs`: for every set of packages, every size and every queue,
`TypeOK`, `WholeFile`, `RepliesAreItsOwn` and `GateOnlyDuringInstall`. The types
need `Phases` (what the waiting call waits for, the service's status and the
three copies of the file agree). `WholeFile` needs `Assembled`: the chunks counted
are the last of the buffer, in order, and what lies before them is left from an
install that failed; that is why the size check is enough.
`RepliesAreItsOwn` needs `Believed`: a frame in either queue that this install
would take was read since it began.

The same module proves `InstallIsTrue` of the service, for any number of the page's
calls, of ids and of chunks. `ServiceInv` adds to its two invariants what they and
the two action properties rest on: an id whose `prepare` the core has not answered
is known to nobody else (`IdIsNew`), so that its session is neither cancelled nor
committed when the answer comes; the session that is current was not cancelled, and
no commit of it is out while it takes chunks (`SessionIsOpen`); and every request
the core was asked for stands in `wire` (`WireFits`), so that a commit comes behind
the chunks before it. The bytes of a set of chunks have a closed form
(`LengthOf`, `LengthAdds`): all are full but the last, which is there once the
number of chunks is the file's.

`CoreClientProofs`: for any number of processes, connections, timers, retries and
faults, `TypeOK`, `NeverAbandoned` and `OldIsDegraded`. `NeverAbandoned` alone is
far from inductive: a reconnection counts only while its task will really go on,
so the invariant says who waits for each connection (`ConnInv`) and each request
(`QueueInv`), and that without a connection somebody is still before his own
(`Trying`), not merely waiting for an answer that a lost connection may take
away. `OldIsDegraded` adds who still has to hear a version (`OldInv`,
`VersionInv`). Assumed of the constants: the closures of the timer have names of
their own.

`DesktopProofs`: `FetchesAreAnswered` for any number of messages and late
replies, `VerifiedIsRun` for installers of any length, and the action property
`SettingsAreKept` for any hooks and any entries of others. A fetch needs where
each handler can stand (`HandlerFits`, `DataIsMeasured`) and that a late reply
was reported as failed; the download, that the file is what came as long as no
failed write was reported (`PartIsWhatCame`); the settings, that the first write
comes after the backup and what is about to be written is the file as it is
(`WriteFollowsBackup`, `NothingOfOursYet`, `MemIsOfFile`, `TmpIsMem`).

The same module proves `ListIsSound`, `BandShowsTurn` and `LogIsFollowed` of the agent
sources, with one invariant for each source. Claude's (`ClaudeInv`) says that a
transcript is a sequence of turns of which only the newest can be open (`TurnsOK`),
that Claude waits for no post but the last and that it is of the event just written
(`HooksOK`), that the tailer stands behind a whole line and knows the session of a turn
it has read into (`TailerOK`), and that the band shows the turn already when the last
line that tells something has been read (`ShownOK`; `BandShowsTurn` waits until all is
read). Codex's says of each log by itself (`LogOK`) that the lines read are in order,
that none before the position was passed over, and that the session says what the last
one read said; a log cannot disturb another's because a line changes only its own
session (`OtherLogsStay`). Antigravity's says that finishing leaves nothing running. The
poller's `PausesAreLearnt` follows from `PauseIsMeasured`: the pause the conversation
shows is the one `idleSince` measures. Assumed of the constants: the window the tailer
reads holds three lines (`Window >= 6`; 64 KB in the code, so that lines of more than
a third of that, as of a large tool result, are outside the claim), and the names of sessions,
logs and conversations differ from the markers for none.

`PagesProofs`: `SavedIsChosen` for any bands and any number of saves at once, and
`SuccessIsEarned` for any number of wizards. In the first, a save that asks for
the paired list has nothing better (`AskedForWant`) and the temporary file is
complete when it is renamed (`TmpIsComplete`).

The same module proves `PageAgrees` and `BarStaysPut` for any displays, cursor
positions, agents and numbers of messages. `PageAgrees` speaks of empty queues, so
its invariant `BarInv` says what each queue will make true: the last state on
its way to the page is the window's (`SeenIsState`); the size the card needs is
the window's, is the last one asked for, or will be asked for because a state of
another form is on its way (`Room`); the same for the button (`Button`) and the
switch (`SwitchHears`). `BarStaysPut` adds that the window has the size of its
form (`Sized`) and that drags reach the main process whole and in order
(`DragInv`); what remains is arithmetic on the four edges. Assumed of the constants:
the primary display is connected, every work area is at least 370 by 370 (the bar
with its card, which `clampBoundsToWorkArea` takes to fit), and the cursor can be on
the primary display.

`QuotaProofs`: `LoginSurvives` for any number of renewals and `QuotaIsCurrent` for
any intervals, waits and windows. `TokenInv` says where the token the server
accepts is (in the file, or with a writer that has not written) and that of two
renewals of one token at most one replaced it (`OneReplaces`). The collector
assumes that `retry-after` has a largest value (`WaitsAssumption`).

The same module proves `LogsAddUp`. `Logged` says that a message that used anything is in
some file and that, in every file, each line of it is, or comes before, its last, which
says what it used in the end. So the map the code builds, over the files laid end to
end in any order, is the usage itself (`TheMapIsUsage`), and its sum is the sum over
the messages (`TokensAreCounted`). The fall-back goes through the messages by
time and opens a block at a gap or at its end; `BlockStep` says that after any number
of them the block opened last begins at a full hour, holds the last message, and
counts exactly the messages since its start, and `HourIsLatest` that, blocks being
whole hours, it starts no earlier than the one before ended. `NeverBelowTheReading` is inductive. For
the day of a reset (`LabelInv`), rounding and age move the text by less than a day.
Assumed of the constants: finitely many messages and files, a block of whole hours, and
a text that is shown for less than a day after the rounding (`MaxAge + Minute <=
Minute * Day`; the page asks again every few minutes).

`WatchfaceProofs`: `PreviewsAreRight` for any watchfaces, `.bin` files, writes,
crashes and starts, and `PageIsRight` for any number of mounts, calls and drops.
The pictures need that every address, kept or on its way to a page, is of a
picture no newer than what it was read from (`CacheInv`). The page needs that
one thing holds the flag (`OneHolds`), and `PageWillShow`: until it is excused
the page shows the band, or an answer or a list that is out will tell it
(`IsTold`), and no switch or install is out beside the list that follows an
install. The band is assumed to have a watchface.

The same module proves `DecodesWhatWasEncoded` for any sequence of packets and any cut.
The decoder's invariant (`AfterPackets`) is that it stands behind the first `k`
packets and has put out their picture. `PacketsAreLaid` says where each packet begins in
the file and in the picture (`Layout`), so that what stands at the decoder's position
is the header of packet `k + 1` (`InputIs`, `HeaderSays`) and one step makes `k` one
more (`NextPacket`), unless the file ends inside it or the picture would outgrow the
declared length; then no number of packets fills that length (`NothingFills`), and to
refuse it was right. The pixels come out whole for one and for two bytes each.

The specifications of `InstallIsTrue` and of the last four modules above are those of the
runs, where each behaviour is of one part; a step of another part leaves the
invariant's variables alone.

Every invariant that a passing run checks is stated by a theorem. Model-checked only:
the liveness properties (liveness under fairness and ENABLED are beyond the
prover), the violation, and one action property: `BackoffIsKept` says the wait doubles
with each failure, and the solvers know nothing of `2^n` for a variable `n`.

*Induction over data.* Several of these theorems say what a fold or a concatenation
gives for every input. The library's induction theorems take an operator as a
parameter, which the provers cannot instantiate, so the proofs use the least
counterexample instead: the set of numbers for which a statement fails is a set like
any other, and if it is not empty it has a least element (`LeastOf`, from the
well-foundedness of the naturals; `UpTo` and `SubsetInduction` are the same for a
prefix of a sequence and for the subsets of a finite set). The library defines a fold as
a recursive function, of which nothing can be used before it is shown to exist;
`FoldExists` and `FlattenLays` build the function from its graph.

Every property of a passing run has a mutant in `PROJECT.json`: a change of one
definition, as a bug might make it, under which the run fails. The mutants are
operators in the modules, marked "Mutant".

## 5. Not modelled

- Byte formats, keys and ciphers, the layout of servers' answers, wording and
  drawing; the authentication handshake beyond that each exchange may fail.
- Windows' pairing interface, scanning, the tray and the main window.
- The fake device and the offline pipeline, which `--live` never runs; developer
  scripts and capture tools.
- The status server's formatting and its embedded page: it rebuilds its record for
  each request. Only which session it shows is modelled.
- The quick app on the band: its side of a fetch is the external party of
  `FetchBridge`; its fall-back between transports is not there.
- The frame decoder's behaviour on a corrupt frame (the loop waits on it for
  ever), and reads from a socket number the system has reused after
  `device.disconnect`, beyond ownership.
- `createSession` as a call of its own: the preload exposes it and no page uses it.

`PROJECT.json` gives each component's status and reason.

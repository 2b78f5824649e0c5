----------------------------- MODULE CoreClient -----------------------------
(***************************************************************************)
(* The desktop's client of pulse-core (pulse-core-client.ts) with the      *)
(* callers that matter to it: the user's connect and disconnect            *)
(* (pulse-core-bridge.ts), any other call of the application (the poll,    *)
(* the watchface page) and quitting (main/index.ts); and the processes it  *)
(* starts, finds through core.json, loses and stops (main.rs, rpc.rs).     *)
(*                                                                         *)
(* The client is single-threaded: a step is what runs between two awaits,  *)
(* and a task is a chain of them: the merged connectOnce of                *)
(* ensureConnected, the closures the reconnect timer starts, the callers.  *)
(*                                                                         *)
(* Abstracted: time (back-off, sleeps and timeouts are steps), the content *)
(* of requests and replies, ports and tokens (a process is its pid), and   *)
(* what the band does with a request to connect.                           *)
(***************************************************************************)
EXTENDS Integers, Sequences, FiniteSets

CONSTANTS
  MaxDaemons,  \* bound: pulse-core processes, numbered from 1
  MaxSockets,  \* bound: connections at a time, numbered from 1
  Closures,    \* bound: closures of the reconnect timer running at a time
  Users,       \* the callers: "ui", "page", "quit"
  Retries,     \* CONNECT_RETRIES
  MaxFaults    \* bound: crashes, stalls and failed look-ups

ASSUME DaemonsAssumption == MaxDaemons \in Nat \ {0}
ASSUME SocketsAssumption == MaxSockets \in Nat \ {0}
ASSUME RetriesAssumption == Retries \in Nat \ {0}
ASSUME FaultsAssumption == MaxFaults \in Nat
ASSUME UsersAssumption == Users \subseteq {"ui", "page", "quit"}
ASSUME ClosuresAssumption == Closures \cap {"merged", "ui", "page", "quit", "none"} = {}

VARIABLES
  proc,        \* each process: "none", "starting", "checked", "up", "dead"
  file,        \* the pid in core.json, or 0
  wanted,      \* desired_connected of each process
  old,         \* processes with another protocolVersion
  faults,      \* faults so far
  conn,        \* each connection: who opened it, to which process, its state
  queue,       \* requests on each connection, with their answer once served
  endpoint,    \* this.endpoint, or 0
  socket,      \* this.socket, or 0
  timer,       \* this.reconnectTimer is set
  desired,     \* _bandConnectionDesired
  lastPid,     \* lastConnectedPid, or 0
  degraded,    \* degradedInfo is set
  ensuring,    \* the shared ensureDaemon
  ready,       \* the bridge's ready promise was fulfilled
  task,        \* where each task is
  gone,        \* the application has quit
  \* History, read by properties only:
  ever         \* a connection was established

world == <<proc, file, wanted, old>>
net == <<conn, queue>>
fields == <<endpoint, socket, timer, desired, lastPid, degraded>>
history == <<ever>>
vars == <<world, faults, net, fields, ensuring, ready, task, gone, history>>

Daemons == 1..MaxDaemons
Socks == 1..MaxSockets
Connectors == {"merged"} \cup Closures
Tasks == Connectors \cup Users
Idle == [pc |-> "idle", method |-> "none", ep |-> 0, tries |-> 0, prev |-> 0]
NoEnsure == [st |-> "no", pid |-> 0, seen |-> 0]
Closed == [st |-> "closed", to |-> 0, by |-> "none"]

Alive(d) == d # 0 /\ proc[d] \in {"starting", "checked", "up"}

\* A rare event: at most MaxFaults of them.
Fault == faults < MaxFaults /\ faults' = faults + 1
NoFault == UNCHANGED faults

\* A daemon of an earlier run of the application may still be there, and may be
\* of an earlier version; or only its core.json is.
Init ==
  /\ \E p \in {"none", "up", "dead"} :
        /\ proc = [d \in Daemons |-> IF d = 1 THEN p ELSE "none"]
        /\ file = IF p = "none" THEN 0 ELSE 1
        /\ old \in {{}} \cup {S \in {{1}} : p = "up"}
  /\ wanted = [d \in Daemons |-> FALSE]
  /\ faults = 0
  /\ conn = [s \in Socks |-> Closed] /\ queue = [s \in Socks |-> <<>>]
  /\ endpoint = 0 /\ socket = 0 /\ timer = FALSE
  /\ desired = FALSE /\ lastPid = 0 /\ degraded = FALSE
  /\ ensuring = NoEnsure /\ ready = FALSE
  /\ task = [t \in Tasks |-> Idle]
  /\ gone = FALSE
  /\ ever = FALSE

(***************************************************************************)
(* The processes                                                           *)
(***************************************************************************)
\* already_running: exit if the endpoint in core.json answers.
Checks(d) ==
  /\ proc[d] = "starting"
  /\ proc' = [proc EXCEPT ![d] = IF file # 0 /\ proc[file] = "up" THEN "dead"
                                                                  ELSE "checked"]
  /\ UNCHANGED <<file, wanted, old, faults, net, fields, ensuring, ready, task, gone, history>>

Publishes(d) ==
  /\ proc[d] = "checked"
  /\ proc' = [proc EXCEPT ![d] = "up"]
  /\ file' = d
  /\ UNCHANGED <<wanted, old, faults, net, fields, ensuring, ready, task, gone, history>>

\* core.json is left behind.
Crashes(d) ==
  /\ proc[d] = "up" /\ Fault
  /\ proc' = [proc EXCEPT ![d] = "dead"]
  /\ wanted' = [wanted EXCEPT ![d] = FALSE]
  /\ UNCHANGED <<file, old, net, fields, ensuring, ready, task, gone, history>>

Answers(m, d) ==
  CASE m = "status" -> IF wanted[d] THEN {"yes", "no"} ELSE {"no"}
    [] m = "info"   -> {IF d \in old THEN "no" ELSE "yes"}
    [] OTHER        -> {"yes"}

\* One connection's requests are served in order.  daemon.stop removes core.json
\* and exits.
Serves(s) ==
  /\ conn[s].st = "open" /\ proc[conn[s].to] = "up"
  /\ \E i \in 1..Len(queue[s]), d \in {conn[s].to} :
        /\ queue[s][i].res = "none"
        /\ \A j \in 1..i - 1 : queue[s][j].res # "none"
        /\ LET m == queue[s][i].method IN
             /\ \E a \in Answers(m, d) : queue' = [queue EXCEPT ![s][i].res = a]
             /\ wanted' = CASE m = "connect" -> [wanted EXCEPT ![d] = TRUE]
                            [] m \in {"disconnect", "stop"} -> [wanted EXCEPT ![d] = FALSE]
                            [] OTHER -> wanted
             /\ IF m = "stop" THEN proc' = [proc EXCEPT ![d] = "dead"] /\ file' = 0
                              ELSE UNCHANGED <<proc, file>>
  /\ UNCHANGED <<old, faults, conn, fields, ensuring, ready, task, gone, history>>

(***************************************************************************)
(* How tasks go on                                                         *)
(***************************************************************************)
At(t, p) == [task[t] EXCEPT !.pc = p]
Ask(u, m) == [Idle EXCEPT !.pc = "call", !.method = m]

\* A call is rejected.  stopDaemon goes on to daemon.stop, then disposes.
CallFails(u) ==
  IF u # "quit" THEN Idle
  ELSE IF task[u].method = "disconnect" THEN Ask(u, "stop")
  ELSE At(u, "leave")

\* A look at the state of connectOnce's loop: read core.json, then its pid.
Attempt(k) == [task[k] EXCEPT !.pc = "pid", !.ep = file, !.tries = @ + 1]

\* The merged connectOnce ends: its waiters go on to send, or are rejected.
MergedEnds(ok) ==
  [t \in Tasks |->
     IF t = "merged" THEN Idle
     ELSE IF t \in Users /\ task[t].pc = "conn"
            THEN IF ok THEN At(t, "send") ELSE CallFails(t)
            ELSE task[t]]

\* Mutant: reconnects only while the band is wanted.
ScheduleReconnect_IfWanted(s) == timer' = (timer \/ (s = 0 /\ desired))

\* Mutant: leaves it to the connectOnce in progress.
ScheduleReconnect_IfNobodyConnects(s) == timer' = (timer \/ (s = 0 /\ task["merged"] = Idle))

\* scheduleReconnect, this.socket being s: one timer at a time.
ScheduleReconnect(s) == timer' = (timer \/ s = 0)

\* connectOnce throws: a closure schedules another, as scheduleReconnect allows.
ConnectFails(k) ==
  IF k = "merged" THEN task' = MergedEnds(FALSE) /\ UNCHANGED timer
                  ELSE task' = [task EXCEPT ![k] = Idle] /\ ScheduleReconnect(socket)

\* sendDirect: on this.socket, whichever that is now; q are the queues before.
SendDirect(t, m, q) ==
  /\ task' = [task EXCEPT ![t].pc = "reply", ![t].method = m]
  /\ queue' = [q EXCEPT ![socket] = Append(@, [who |-> t, method |-> m, res |-> "none"])]

(***************************************************************************)
(* ensureDaemon                                                            *)
(***************************************************************************)
\* Concurrent callers share one; the first reads core.json.
Joined == IF ensuring.st = "no" THEN [st |-> "look", pid |-> file, seen |-> file]
                                ELSE ensuring

Resumed(ok) ==
  [t \in Tasks |->
     IF task[t].pc = "ensure"
       THEN IF ~ok THEN Idle ELSE IF t \in Connectors THEN Attempt(t) ELSE At(t, "call")
     ELSE IF ~ok /\ t \in Users /\ task[t].pc = "conn" /\ task["merged"].pc = "ensure"
       THEN CallFails(t)
       ELSE task[t]]

EnsureFinds ==
  /\ \/ ensuring.st = "look" /\ Alive(ensuring.pid) /\ endpoint' = ensuring.pid
     \/ ensuring.st = "spawn" /\ file \notin {0, ensuring.seen} /\ endpoint' = file
  /\ ensuring' = NoEnsure
  /\ task' = Resumed(TRUE)
  /\ UNCHANGED <<world, faults, net, socket, timer, desired, lastPid, degraded, ready, gone, history>>

\* The number of a process nothing refers to any more is used again.
Fresh(d) ==
  /\ ~Alive(d) /\ d \notin {file, endpoint, lastPid, ensuring.seen}
  /\ \A t \in Tasks : d \notin {task[t].ep, task[t].prev}
  /\ \A s \in Socks : conn[s].to # d

\* pidAlive says no, also when tasklist fails: spawn, and wait for core.json to
\* change.
EnsureSpawns ==
  /\ ensuring.st = "look"
  /\ IF Alive(ensuring.pid) THEN Fault ELSE NoFault
  /\ \E d \in Daemons :
        /\ Fresh(d) /\ \A e \in 1..d - 1 : ~Fresh(e)
        /\ proc' = [proc EXCEPT ![d] = "starting"]
        /\ ensuring' = [st |-> "spawn", pid |-> d, seen |-> file]
        /\ old' = old \ {d}
  /\ UNCHANGED <<file, wanted, net, fields, ready, task, gone, history>>

\* Mutant: no deadline; only a spawn that fails ends the wait.
SpawnWaitOver_OnError == Fault

\* SPAWN_WAIT_MS is over: the child has exited, or is slow.
SpawnWaitOver == IF Alive(ensuring.pid) THEN Fault ELSE NoFault

\* Those waiting are rejected; a closure's catch schedules another.
EnsureGivesUp ==
  /\ ensuring.st = "spawn" /\ file \in {0, ensuring.seen}
  /\ SpawnWaitOver
  /\ ensuring' = NoEnsure
  /\ task' = Resumed(FALSE)
  /\ IF \E c \in Closures : task[c].pc = "ensure" THEN ScheduleReconnect(socket)
                                                 ELSE UNCHANGED timer
  /\ UNCHANGED <<world, net, endpoint, socket, desired, lastPid, degraded, ready, gone, history>>

(***************************************************************************)
(* connectOnce                                                             *)
(***************************************************************************)
\* pidAlive has answered for the endpoint just read; the socket is opened to it,
\* or to the one known before.
Opens(k) ==
  /\ task[k].pc = "pid"
  /\ \/ Alive(task[k].ep) /\ endpoint' = task[k].ep /\ NoFault
     \/ ~Alive(task[k].ep) /\ UNCHANGED endpoint /\ NoFault
     \/ Alive(task[k].ep) /\ task[k].ep # endpoint /\ UNCHANGED endpoint /\ Fault
  /\ \E s \in Socks :
        /\ conn[s].st = "closed"
        /\ \A r \in 1..s - 1 : conn[r].st # "closed"
        /\ conn' = [conn EXCEPT ![s] = [st |-> "opening", to |-> endpoint', by |-> k]]
  /\ task' = [task EXCEPT ![k].pc = "open", ![k].ep = 0]
  /\ UNCHANGED <<world, queue, socket, timer, desired, lastPid, degraded, ensuring, ready, gone, history>>

\* The connect event replaces this.socket; checkProtocolVersion asks at once.
Connects(s) ==
  LET k == conn[s].by IN
  /\ conn[s].st = "opening" /\ proc[conn[s].to] = "up"
  /\ conn' = [conn EXCEPT ![s].st = "open"]
  /\ socket' = s
  /\ task' = [task EXCEPT ![k].pc = "reply", ![k].method = "info"]
  /\ queue' = [queue EXCEPT ![s] = <<[who |-> k, method |-> "info", res |-> "none"]>>]
  /\ ever' = TRUE
  /\ UNCHANGED <<world, faults, endpoint, timer, desired, lastPid, degraded, ensuring, ready, gone>>

ConnectRefused(s) ==
  /\ conn[s].st = "opening"
  /\ IF proc[conn[s].to] = "up" THEN Fault ELSE NoFault
  /\ conn' = [conn EXCEPT ![s] = Closed]
  /\ task' = [task EXCEPT ![conn[s].by].pc = "sleep"]
  /\ UNCHANGED <<world, queue, fields, ensuring, ready, gone, history>>

\* Mutant: the loop runs once too often.
Wakes_OnceMore(k) ==
  /\ task[k].pc = "sleep"
  /\ IF task[k].tries <= Retries
       THEN task' = [task EXCEPT ![k] = Attempt(k)] /\ UNCHANGED timer
       ELSE ConnectFails(k)
  /\ UNCHANGED <<world, faults, net, endpoint, socket, desired, lastPid, degraded, ensuring, ready, gone, history>>

\* One second after a failed attempt.
Wakes(k) ==
  /\ task[k].pc = "sleep"
  /\ IF task[k].tries < Retries
       THEN task' = [task EXCEPT ![k] = Attempt(k)] /\ UNCHANGED timer
       ELSE ConnectFails(k)
  /\ UNCHANGED <<world, faults, net, endpoint, socket, desired, lastPid, degraded, ensuring, ready, gone, history>>

(***************************************************************************)
(* The end of a request: r is its answer, or "fail"; q the queues without  *)
(* it                                                                      *)
(***************************************************************************)
\* Mutant: a check that fails leaves things as they are.
CheckProtocolVersion_IgnoresFailure(r) == degraded' = IF r = "fail" THEN degraded ELSE r # "yes"

\* Anything but the expected version is degraded.
CheckProtocolVersion(r) == degraded' = (r # "yes")

\* checkProtocolVersion never throws, so connectOnce is done; a closure goes on
\* to restore the user's wish.
InfoEnds(k, r, q) ==
  /\ task[k].method = "info"
  /\ CheckProtocolVersion(r)
  /\ lastPid' = endpoint
  /\ IF k = "merged" THEN task' = MergedEnds(TRUE) /\ queue' = q
     ELSE IF desired /\ socket # 0
       THEN SendDirect(k, IF task[k].prev \notin {0, endpoint} THEN "connect" ELSE "status", q)
       ELSE task' = [task EXCEPT ![k] = Idle] /\ queue' = q
  /\ UNCHANGED <<desired>>

\* The closure's own requests: not connected means connect again.
RecoveryEnds(c, r, q) ==
  /\ c \in Closures /\ task[c].method \in {"status", "connect"}
  /\ IF task[c].method = "status" /\ r = "no" /\ socket # 0
       THEN SendDirect(c, "connect", q)
       ELSE task' = [task EXCEPT ![c] = Idle] /\ queue' = q
  /\ UNCHANGED <<degraded, lastPid, desired>>

\* call() records the user's wish once the daemon has acknowledged it; connectBand
\* asks for the status first, and stopDaemon for daemon.stop last.
CallEnds(u, r, q) ==
  LET m == task[u].method IN
  /\ u \in Users
  /\ task' = [task EXCEPT ![u] =
       CASE r = "fail" -> CallFails(u)
         [] u = "ui" /\ m = "status" /\ r = "no" -> Ask(u, "connect")
         [] u = "quit" /\ m = "disconnect" -> Ask(u, "stop")
         [] u = "quit" /\ m = "stop" -> At(u, "leave")
         [] OTHER -> Idle]
  /\ IF r # "fail" /\ m \in {"connect", "disconnect"}
       THEN desired' = (m = "connect") ELSE UNCHANGED desired
  /\ queue' = q
  /\ UNCHANGED <<degraded, lastPid>>

Ends(t, r, q) == InfoEnds(t, r, q) \/ RecoveryEnds(t, r, q) \/ CallEnds(t, r, q)

\* A line arrives; without a pending entry it is dropped.
Replies(s) ==
  /\ conn[s].st = "open" /\ queue[s] # <<>> /\ Head(queue[s]).res # "none"
  /\ LET e == Head(queue[s])
         q == [queue EXCEPT ![s] = Tail(@)] IN
       IF e.who = "none"
         THEN queue' = q /\ UNCHANGED <<task, degraded, lastPid, desired>>
         ELSE Ends(e.who, e.res, q)
  /\ UNCHANGED <<world, faults, conn, endpoint, socket, timer, ensuring, ready, gone, ever>>

Forget(q, T) == [i \in 1..Len(q) |-> IF q[i].who \in T THEN [q[i] EXCEPT !.who = "none"] ELSE q[i]]

Lost(t) == \A s \in Socks : \A i \in 1..Len(queue[s]) : queue[s][i].who # t

\* The request's timer: its connection is gone, or the daemon is slow.
TimesOut(t) ==
  /\ task[t].pc = "reply"
  /\ IF Lost(t) THEN NoFault ELSE Fault
  /\ Ends(t, "fail", [s \in Socks |-> Forget(queue[s], {t})])
  /\ UNCHANGED <<world, conn, endpoint, socket, timer, ensuring, ready, gone, ever>>

(***************************************************************************)
(* Losing the connection                                                   *)
(***************************************************************************)
Waiting == {t \in Tasks : task[t].pc = "reply"}

\* Only the close of this.socket rejects what is pending and schedules a
\* reconnection.  A version check in progress counts as failed, and its
\* connectOnce as done; with no socket its closure has nothing to restore.
Closes(s) ==
  /\ conn[s].st = "open" /\ proc[conn[s].to] = "dead"
  /\ conn' = [conn EXCEPT ![s] = Closed]
  /\ IF socket = s
       THEN /\ socket' = 0
            /\ ScheduleReconnect(0)
            /\ queue' = [r \in Socks |-> IF r = s THEN <<>> ELSE Forget(queue[r], Waiting)]
            /\ task' = [t \in Tasks |->
                 IF t \in Waiting THEN IF t \in Users THEN CallFails(t) ELSE Idle
                 ELSE IF "merged" \in Waiting THEN MergedEnds(TRUE)[t] ELSE task[t]]
            /\ IF \E k \in Connectors \cap Waiting : task[k].method = "info"
                 THEN CheckProtocolVersion("fail") /\ lastPid' = endpoint
                 ELSE UNCHANGED <<degraded, lastPid>>
       ELSE /\ queue' = [queue EXCEPT ![s] = <<>>]
            /\ UNCHANGED <<socket, timer, task, degraded, lastPid>>
  /\ UNCHANGED <<world, faults, endpoint, desired, ensuring, ready, gone, history>>

\* The back-off is over.  The closure does not look at this.socket again once
\* ensureDaemon has answered.
TimerFires ==
  /\ timer /\ timer' = FALSE
  /\ IF socket # 0 THEN UNCHANGED <<task, ensuring>>
     ELSE \E c \in Closures :
            /\ task[c] = Idle
            /\ task' = [task EXCEPT ![c] = [Idle EXCEPT !.pc = "ensure", !.prev = lastPid]]
            /\ ensuring' = Joined
  /\ UNCHANGED <<world, faults, net, endpoint, socket, desired, lastPid, degraded, ready, gone, history>>

(***************************************************************************)
(* The callers                                                             *)
(***************************************************************************)
\* connectBand and the disconnect handler: ensureReady first, once.
UserAsks(m) ==
  /\ "ui" \in Users /\ task["ui"] = Idle
  /\ IF ready
       THEN task' = [task EXCEPT !["ui"] = Ask("ui", m)] /\ UNCHANGED ensuring
       ELSE /\ task' = [task EXCEPT !["ui"] = [Idle EXCEPT !.pc = "ensure", !.method = m]]
            /\ ensuring' = Joined
  /\ UNCHANGED <<world, faults, net, fields, ready, gone, history>>

\* The poll, or another page: any other request.
PageAsks ==
  /\ "page" \in Users /\ task["page"] = Idle
  /\ task' = [task EXCEPT !["page"] = Ask("page", "status")]
  /\ UNCHANGED <<world, faults, net, fields, ensuring, ready, gone, history>>

\* stopDaemon begins by forgetting the wish.
Proceeds(u) ==
  /\ IF task[u].method = "begin"
       THEN /\ desired' = FALSE /\ lastPid' = 0
            /\ task' = [task EXCEPT ![u] = Ask(u, "disconnect")]
            /\ UNCHANGED queue
       ELSE SendDirect(u, task[u].method, queue) /\ UNCHANGED <<desired, lastPid>>
  /\ ready' = (ready \/ u = "ui")
  /\ UNCHANGED ensuring

\* call: ensureConnected.  Callers without a socket share one connectOnce.
Calls(u) ==
  /\ task[u].pc = "call"
  /\ IF socket # 0 THEN Proceeds(u)
     ELSE /\ task' = [task EXCEPT ![u] = At(u, "conn"),
                                  !["merged"] = IF @ # Idle THEN @
                                                ELSE IF endpoint = 0 THEN At("merged", "ensure")
                                                ELSE Attempt("merged")]
          /\ ensuring' = IF task'["merged"].pc = "ensure" THEN Joined ELSE ensuring
          /\ UNCHANGED <<queue, desired, lastPid, ready>>
  /\ UNCHANGED <<world, faults, conn, endpoint, socket, timer, degraded, gone, history>>

\* ensureConnected is fulfilled: send, unless the connection was lost again.  When
\* it was start's, the bridge is ready and the call comes next.
Sends(u) ==
  /\ task[u].pc = "send"
  /\ \/ /\ u = "ui" /\ ~ready
        /\ ready' = TRUE
        /\ task' = [task EXCEPT ![u] = At(u, "call")]
        /\ UNCHANGED <<queue, desired, lastPid, ensuring>>
     \/ (u = "ui" => ready) /\ socket # 0 /\ Proceeds(u)
     \/ /\ (u = "ui" => ready) /\ socket = 0
        /\ task' = [task EXCEPT ![u] = CallFails(u)]
        /\ UNCHANGED <<queue, desired, lastPid, ready, ensuring>>
  /\ UNCHANGED <<world, faults, conn, endpoint, socket, timer, degraded, gone, history>>

\* quitPulse: stopDaemonIfRunning looks for a daemon when it has no connection.
Quits ==
  /\ "quit" \in Users /\ task["quit"] = Idle
  /\ task' = [task EXCEPT !["quit"] = IF socket # 0 THEN Ask("quit", "begin")
                                      ELSE [Idle EXCEPT !.pc = "pid", !.ep = file]]
  /\ UNCHANGED <<world, faults, net, fields, ensuring, ready, gone, history>>

QuitLooks ==
  /\ "quit" \in Users /\ task["quit"].pc = "pid"
  /\ IF Alive(task["quit"].ep)
       THEN /\ endpoint' = task["quit"].ep
            /\ task' = [task EXCEPT !["quit"] = Ask("quit", "begin")]
       ELSE /\ task' = [task EXCEPT !["quit"].pc = "leave"]
            /\ UNCHANGED endpoint
  /\ UNCHANGED <<world, faults, net, socket, timer, desired, lastPid, degraded, ensuring, ready, gone, history>>

\* The application exits, at the latest when the five seconds are over.
Leaves ==
  /\ "quit" \in Users /\ task["quit"] # Idle
  /\ gone' = TRUE
  /\ UNCHANGED <<world, faults, net, fields, ensuring, ready, task, history>>

-----------------------------------------------------------------------------
Ensure == EnsureFinds \/ EnsureSpawns \/ EnsureGivesUp
Requests == UserAsks("status") \/ UserAsks("disconnect") \/ PageAsks \/ Quits

\* dispose follows what ends stopDaemonIfRunning at once, and then the application
\* exits.
Running == ~gone /\ ("quit" \in Users => task["quit"].pc # "leave")

Step ==
  \/ \E d \in Daemons : Checks(d) \/ Publishes(d) \/ Crashes(d)
  \/ \E s \in Socks : Serves(s) \/ Connects(s) \/ ConnectRefused(s) \/ Replies(s) \/ Closes(s)
  \/ \E k \in Connectors : Opens(k) \/ Wakes(k)
  \/ \E t \in Tasks : TimesOut(t)
  \/ \E u \in Users : Calls(u) \/ Sends(u)
  \/ Ensure \/ TimerFires \/ Requests \/ QuitLooks

Next == (Running /\ Step) \/ (~gone /\ Leaves)

Spec == Init /\ [][Next]_vars

\* The event loop and the processes are scheduled, and timers fire; nobody has to
\* ask anything, and nothing has to go wrong.
Fairness ==
  /\ \A d \in Daemons : WF_vars(Running /\ (Checks(d) \/ Publishes(d)))
  /\ \A s \in Socks : /\ WF_vars(Running /\ Serves(s))
                      /\ WF_vars(Running /\ (Connects(s) \/ ConnectRefused(s)))
                      /\ WF_vars(Running /\ (Replies(s) \/ Closes(s)))
  /\ \A k \in Connectors : WF_vars(Running /\ (Opens(k) \/ Wakes(k)))
  /\ \A t \in Tasks : WF_vars(Running /\ TimesOut(t))
  /\ \A u \in Users : WF_vars(Running /\ (Calls(u) \/ Sends(u)))
  /\ WF_vars(Running /\ Ensure) /\ WF_vars(Running /\ TimerFires)
  /\ WF_vars(Running /\ QuitLooks) /\ WF_vars(~gone /\ Leaves)
FairSpec == Spec /\ Fairness

(***************************************************************************)
(* Properties                                                              *)
(***************************************************************************)
Pcs == {"idle", "ensure", "pid", "open", "sleep", "call", "conn", "send", "reply", "leave"}
Methods == {"none", "begin", "info", "status", "connect", "disconnect", "stop"}

\* Types; no connection attempt exceeds CONNECT_RETRIES.
TypeOK ==
  /\ proc \in [Daemons -> {"none", "starting", "checked", "up", "dead"}]
  /\ file \in {0} \cup Daemons /\ endpoint \in {0} \cup Daemons /\ lastPid \in {0} \cup Daemons
  /\ wanted \in [Daemons -> BOOLEAN] /\ old \subseteq Daemons
  /\ faults \in 0..MaxFaults
  /\ conn \in [Socks -> [st : {"closed", "opening", "open"}, to : {0} \cup Daemons,
                         by : Connectors \cup {"none"}]]
  /\ queue \in [Socks -> Seq([who : Tasks \cup {"none"}, method : Methods,
                              res : {"none", "yes", "no"}])]
  /\ socket \in {0} \cup Socks
  /\ {timer, desired, degraded, ready, gone, ever} \subseteq BOOLEAN
  /\ ensuring \in [st : {"no", "look", "spawn"}, pid : {0} \cup Daemons, seen : {0} \cup Daemons]
  /\ task \in [Tasks -> [pc : Pcs, method : Methods, ep : {0} \cup Daemons,
                         tries : 0..Retries, prev : {0} \cup Daemons]]

\* A client that once had a connection and has none is never left alone: the timer
\* is set or one of its closures is at work, however closes, failures and other
\* callers' reconnections crossed.
NeverAbandoned ==
  ever /\ socket = 0 /\ ~gone => timer \/ \E c \in Closures : task[c] # Idle

\* Connected, nothing in progress.
Calm ==
  /\ ~gone /\ socket # 0 /\ ~timer /\ ensuring = NoEnsure
  /\ \A t \in Tasks : task[t] = Idle
  /\ \A s \in Socks : queue[s] = <<>>
  /\ proc[conn[socket].to] = "up"

\* An incompatible daemon never goes unnoticed: once calm, the client connected to
\* one is degraded, also when the version check failed or another connection came
\* between.
OldIsDegraded == Calm /\ conn[socket].to \in old => degraded

\* A connection lost is found again once things stop going wrong, a daemon being
\* started if there is none.
Reconnects == ever /\ socket = 0 ~> socket # 0 \/ gone

\* Every call of the application is answered or rejected, also one whose request
\* went out on a connection that is no longer this.socket.
CallsSettle == \A u \in Users : task[u] # Idle ~> task[u] = Idle \/ gone
=============================================================================

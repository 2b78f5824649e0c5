-------------------------- MODULE CoreClientProofs --------------------------
(***************************************************************************)
(* Proofs about the client of pulse-core, for any number of processes,     *)
(* connections, closures of the timer, retries and faults: its types, that *)
(* it is never left without a connection and without anyone looking for    *)
(* one, and that it notices an incompatible process.                       *)
(***************************************************************************)
EXTENDS CoreClient, SequenceTheorems, TLAPS

Pids == {0} \cup Daemons
Entries == [who : Tasks \cup {"none"}, method : Methods, res : {"none", "yes", "no"}]
ConnRecords == [st : {"closed", "opening", "open"}, to : Pids, by : Connectors \cup {"none"}]
TaskRecords == [pc : Pcs, method : Methods, ep : Pids, tries : 0..Retries, prev : Pids]

WorldTypes ==
  /\ proc \in [Daemons -> {"none", "starting", "checked", "up", "dead"}]
  /\ file \in Pids /\ endpoint \in Pids /\ lastPid \in Pids
  /\ wanted \in [Daemons -> BOOLEAN] /\ old \subseteq Daemons
  /\ faults \in 0..MaxFaults
  /\ ensuring \in [st : {"no", "look", "spawn"}, pid : Pids, seen : Pids]
FlagTypes ==
  /\ timer \in BOOLEAN /\ desired \in BOOLEAN /\ degraded \in BOOLEAN
  /\ ready \in BOOLEAN /\ gone \in BOOLEAN /\ ever \in BOOLEAN

\* Where a task is fits who it is: an idle one is as it began, one that has not
\* looked yet has not tried, one that connects has an endpoint to connect to, and
\* only connectOnce asks for the version.
Fits(t, r, ep) ==
  /\ r.pc = "idle" => r = Idle
  /\ t \in Connectors =>
       /\ r.pc = "ensure" => r.tries = 0
       /\ r.pc \in {"pid", "open", "sleep", "reply"} => ep # 0
  /\ t \in Users => r.method # "info"
TaskInv == task \in [Tasks -> TaskRecords] /\ \A t \in Tasks : Fits(t, task[t], endpoint)

\* Every connection leads to a process; one being opened is waited for by the
\* connectOnce that opens it, and by no other; this.socket is open.
ConnInv ==
  /\ conn \in [Socks -> ConnRecords] /\ socket \in {0} \cup Socks
  /\ \A s \in Socks : conn[s].st # "closed" => conn[s].to # 0
  /\ \A s \in Socks : conn[s].st = "opening" =>
       conn[s].by \in Connectors /\ task[conn[s].by].pc = "open"
  /\ \A s, r \in Socks :
       conn[s].st = "opening" /\ conn[r].st = "opening" /\ conn[s].by = conn[r].by => s = r
  /\ socket # 0 => conn[socket].st = "open"

\* The requests with somebody waiting are those of tasks that wait, each for one.
QueueTypes(q) == q \in [Socks -> Seq(Entries)]
Awaited(q, T) ==
  \A s \in Socks : \A i \in 1..Len(q[s]) :
     q[s][i].who # "none" =>
        T[q[s][i].who].pc = "reply" /\ T[q[s][i].who].method = q[s][i].method
Single(q) ==
  \A s, r \in Socks : \A i \in 1..Len(q[s]), j \in 1..Len(q[r]) :
     q[s][i].who = q[r][j].who /\ q[s][i].who # "none" => s = r /\ i = j
QueueInv == QueueTypes(queue) /\ Awaited(queue, task) /\ Single(queue)

\* Without a connection the timer is set, or a closure is on its way to one: one
\* that merely waits for an answer does not count.
Connecting == {"ensure", "pid", "open", "sleep"}
Trying == ever /\ socket = 0 => timer \/ \E c \in Closures : task[c].pc \in Connecting

\* A process of an earlier version that still runs is the one core.json names, and
\* no other has got past its look at core.json.
OldUp == {d \in old : proc[d] = "up"}
OldInv ==
  /\ \A d \in old : proc[d] \in {"up", "dead"}
  /\ \A d \in OldUp : file = d /\ \A e \in Daemons : e # d => proc[e] \notin {"checked", "up"}

\* So every connection is to it, no version check comes back with a yes, and one
\* that has come back, or is awaited, follows every connection.
NoYes(q) ==
  \A s \in Socks : \A i \in 1..Len(q[s]) : q[s][i].method = "info" => q[s][i].res # "yes"
Checking(T) == \E k \in Connectors : T[k].pc = "reply" /\ T[k].method = "info"
VersionInv ==
  \A d \in OldUp :
    /\ \A s \in Socks : conn[s].st = "open" => conn[s].to = d
    /\ NoYes(queue)
    /\ socket # 0 => degraded \/ Checking(task)

Inv ==
  /\ WorldTypes /\ FlagTypes /\ TaskInv /\ ConnInv /\ QueueInv
  /\ Trying /\ OldInv /\ VersionInv

(***************************************************************************)
(* Queues                                                                  *)
(***************************************************************************)
NoEntry(q, t) == \A s \in Socks : \A i \in 1..Len(q[s]) : q[s][i].who # t

\* Who is who.
LEMMA Names ==
  /\ "none" \notin Tasks /\ "merged" \in Connectors /\ Connectors \subseteq Tasks /\ Users \subseteq Tasks
  /\ Closures \subseteq Connectors /\ Connectors \cap Users = {} /\ Tasks = Connectors \cup Users
  /\ "merged" \notin Closures /\ "merged" \notin Users /\ "merged" \in Tasks /\ Closures \cap Users = {}
BY ClosuresAssumption, UsersAssumption DEF Tasks, Connectors

\* An entry of a queue is an entry.
LEMMA EntryTypes ==
  ASSUME NEW q, QueueTypes(q), NEW s \in Socks
  PROVE  /\ q[s] \in Seq(Entries) /\ Len(q[s]) \in Nat
         /\ \A i \in 1..Len(q[s]) : q[s][i] \in Entries
BY DEF QueueTypes

\* Taking the first entry away from a queue.
LEMMA TailFits ==
  ASSUME NEW q, QueueTypes(q), NEW s \in Socks, q[s] # <<>>
  PROVE  LET p == [q EXCEPT ![s] = Tail(@)] IN
         /\ QueueTypes(p) /\ (NoYes(q) => NoYes(p))
         /\ \A T : Awaited(q, T) => Awaited(p, T)
         /\ Single(q) => Single(p)
         /\ Single(q) /\ Head(q[s]).who # "none" => NoEntry(p, Head(q[s]).who)
<1> DEFINE p == [q EXCEPT ![s] = Tail(@)]
<1>1. /\ Tail(q[s]) \in Seq(Entries) /\ Len(Tail(q[s])) = Len(q[s]) - 1 /\ Len(q[s]) \in Nat \ {0}
      /\ \A i \in 1..Len(Tail(q[s])) : Tail(q[s])[i] = q[s][i + 1]
      /\ Head(q[s]) = q[s][1]
  BY EntryTypes, EmptySeq
<1>2. QueueTypes(p)
  BY <1>1 DEF QueueTypes
<1>3. ASSUME NEW r \in Socks, NEW i \in 1..Len(p[r])
      PROVE  \E j \in 1..Len(q[r]) : p[r][i] = q[r][j] /\ j = IF r = s THEN i + 1 ELSE i
  <2>1. CASE r = s
    <3>1. p[r] = Tail(q[s])
      BY <2>1 DEF QueueTypes
    <3> HIDE DEF p
    <3>2. i + 1 \in 1..Len(q[r])
      BY <1>1, <2>1, <3>1
    <3> QED BY <1>1, <2>1, <3>1, <3>2
  <2>2. CASE r # s
    <3>1. p[r] = q[r]
      BY <2>2 DEF QueueTypes
    <3> QED BY <2>2, <3>1
  <2> QED BY <2>1, <2>2
<1> HIDE DEF p
<1>4. NoYes(q) => NoYes(p)
  <2> SUFFICES ASSUME NoYes(q), NEW r \in Socks, NEW i \in 1..Len(p[r])
               PROVE  p[r][i].method = "info" => p[r][i].res # "yes"
    BY Zenon DEF NoYes
  <2> QED BY <1>3 DEF NoYes
<1>5. \A T : Awaited(q, T) => Awaited(p, T)
  <2> SUFFICES ASSUME NEW T, Awaited(q, T), NEW r \in Socks, NEW i \in 1..Len(p[r])
               PROVE  p[r][i].who # "none" =>
                        T[p[r][i].who].pc = "reply" /\ T[p[r][i].who].method = p[r][i].method
    BY Zenon DEF Awaited
  <2> QED BY <1>3 DEF Awaited
<1>6. ASSUME Single(q) PROVE Single(p)
  <2> SUFFICES ASSUME NEW r \in Socks, NEW z \in Socks, NEW i \in 1..Len(p[r]), NEW j \in 1..Len(p[z]),
                      p[r][i].who = p[z][j].who, p[r][i].who # "none"
               PROVE  r = z /\ i = j
    BY DEF Single
  <2>1. PICK m \in 1..Len(q[r]) : p[r][i] = q[r][m] /\ m = IF r = s THEN i + 1 ELSE i
    BY <1>3
  <2>2. PICK n \in 1..Len(q[z]) : p[z][j] = q[z][n] /\ n = IF z = s THEN j + 1 ELSE j
    BY <1>3
  <2>3. r = z /\ m = n
    BY <1>6, <2>1, <2>2 DEF Single
  <2>4. i \in Int /\ j \in Int
    OBVIOUS
  <2> QED BY <2>1, <2>2, <2>3, <2>4
<1>7. ASSUME Single(q), Head(q[s]).who # "none" PROVE NoEntry(p, Head(q[s]).who)
  <2> SUFFICES ASSUME NEW r \in Socks, NEW i \in 1..Len(p[r]), p[r][i].who = Head(q[s]).who
               PROVE FALSE
    BY DEF NoEntry
  <2>1. PICK m \in 1..Len(q[r]) : p[r][i] = q[r][m] /\ m = IF r = s THEN i + 1 ELSE i
    BY <1>3
  <2>2. 1 \in 1..Len(q[s])
    BY <1>1
  <2>3. r = s /\ m = 1
    BY <1>1, <1>7, <2>1, <2>2 DEF Single
  <2> QED BY <2>1, <2>3
<1> QED BY <1>2, <1>4, <1>5, <1>6, <1>7 DEF p

\* A request of a task that has none joins a queue.
LEMMA AppendFits ==
  ASSUME NEW q, QueueTypes(q), NEW z \in Socks, NEW e \in Entries, e.who # "none", e.res = "none",
         NoEntry(q, e.who)
  PROVE  LET p == [q EXCEPT ![z] = Append(@, e)] IN
         /\ QueueTypes(p) /\ (NoYes(q) => NoYes(p))
         /\ \A T : Awaited(q, T) /\ T[e.who].pc = "reply" /\ T[e.who].method = e.method => Awaited(p, T)
         /\ Single(q) => Single(p)
<1> DEFINE p == [q EXCEPT ![z] = Append(@, e)]
<1>1. /\ Append(q[z], e) \in Seq(Entries) /\ Len(Append(q[z], e)) = Len(q[z]) + 1 /\ Len(q[z]) \in Nat
      /\ \A i \in 1..Len(q[z]) : Append(q[z], e)[i] = q[z][i]
      /\ Append(q[z], e)[Len(q[z]) + 1] = e
  BY EntryTypes, AppendProperties
<1>2. QueueTypes(p)
  BY <1>1 DEF QueueTypes
<1>3. ASSUME NEW r \in Socks, NEW i \in 1..Len(p[r])
      PROVE  \/ i \in 1..Len(q[r]) /\ p[r][i] = q[r][i]
             \/ r = z /\ i = Len(q[z]) + 1 /\ p[r][i] = e
  <2>1. CASE r = z
    <3>1. p[r] = Append(q[z], e)
      BY <2>1 DEF QueueTypes
    <3> HIDE DEF p
    <3>2. i \in 1..Len(q[z]) \/ i = Len(q[z]) + 1
      BY <1>1, <3>1
    <3> QED BY <1>1, <2>1, <3>1, <3>2
  <2>2. CASE r # z
    <3>1. p[r] = q[r]
      BY <2>2 DEF QueueTypes
    <3> QED BY <3>1
  <2> QED BY <2>1, <2>2
<1> HIDE DEF p
<1>4. NoYes(q) => NoYes(p)
  BY <1>3 DEF NoYes
<1>5. \A T : Awaited(q, T) /\ T[e.who].pc = "reply" /\ T[e.who].method = e.method => Awaited(p, T)
  BY <1>3, Zenon DEF Awaited
<1>6. ASSUME Single(q) PROVE Single(p)
  <2> SUFFICES ASSUME NEW r \in Socks, NEW s \in Socks, NEW i \in 1..Len(p[r]), NEW j \in 1..Len(p[s]),
                      p[r][i].who = p[s][j].who, p[r][i].who # "none"
               PROVE  r = s /\ i = j
    BY DEF Single
  <2>1. CASE p[r][i] = e /\ p[s][j] = e
    <3>1. ~(i \in 1..Len(q[r]) /\ p[r][i] = q[r][i])
      BY <2>1 DEF NoEntry
    <3>2. ~(j \in 1..Len(q[s]) /\ p[s][j] = q[s][j])
      BY <2>1 DEF NoEntry
    <3> QED BY <1>3, <3>1, <3>2
  <2>2. CASE p[r][i] # e
    <3>1. i \in 1..Len(q[r]) /\ p[r][i] = q[r][i]
      BY <1>3, <2>2
    <3>2. p[s][j] # e
      BY <3>1 DEF NoEntry
    <3>3. j \in 1..Len(q[s]) /\ p[s][j] = q[s][j]
      BY <1>3, <3>2
    <3> QED BY <1>6, <3>1, <3>3 DEF Single
  <2>3. CASE p[s][j] # e
    <3>1. j \in 1..Len(q[s]) /\ p[s][j] = q[s][j]
      BY <1>3, <2>3
    <3>2. p[r][i] # e
      BY <3>1 DEF NoEntry
    <3>3. i \in 1..Len(q[r]) /\ p[r][i] = q[r][i]
      BY <1>3, <3>2
    <3> QED BY <1>6, <3>1, <3>3 DEF Single
  <2> QED BY <2>1, <2>2, <2>3
<1> QED BY <1>2, <1>4, <1>5, <1>6 DEF p

\* p is q without some of its requests' askers, and without some queues.
Forgotten(p, q, D, W) ==
  /\ p = [s \in Socks |-> p[s]]
  /\ \A s \in Socks : p[s] = IF s \in D THEN <<>> ELSE Forget(q[s], W)
\* Requests are forgotten, or dropped with their queue.
LEMMA ForgetFits ==
  ASSUME NEW q, QueueTypes(q), NEW D, NEW W, NEW p, Forgotten(p, q, D, W)
  PROVE  /\ QueueTypes(p) /\ (NoYes(q) => NoYes(p))
         /\ \A T : Awaited(q, T) => Awaited(p, T)
         /\ Single(q) => Single(p)
         /\ \A t \in W \ {"none"} : NoEntry(p, t)
<1>1. ASSUME NEW s \in Socks
      PROVE  /\ Forget(q[s], W) \in Seq(Entries) /\ Len(Forget(q[s], W)) = Len(q[s])
             /\ \A i \in 1..Len(q[s]) : LET e == Forget(q[s], W)[i] IN
                  /\ e.method = q[s][i].method /\ e.res = q[s][i].res
                  /\ e.who \in {q[s][i].who, "none"} /\ (e.who \in W => e.who = "none")
  <2>1. Len(q[s]) \in Nat /\ \A i \in 1..Len(q[s]) : q[s][i] \in Entries
    BY EntryTypes
  <2> DEFINE f(i) == IF q[s][i].who \in W THEN [q[s][i] EXCEPT !.who = "none"] ELSE q[s][i]
  <2>2. ASSUME NEW i \in 1..Len(q[s])
        PROVE  /\ f(i) \in Entries
               /\ f(i).method = q[s][i].method /\ f(i).res = q[s][i].res
               /\ f(i).who \in {q[s][i].who, "none"} /\ (f(i).who \in W => f(i).who = "none")
    BY <2>1 DEF Entries
  <2>3. Forget(q[s], W) = [i \in 1..Len(q[s]) |-> f(i)]
    BY DEF Forget
  <2> HIDE DEF f
  <2>4. Forget(q[s], W) \in Seq(Entries) /\ Len(Forget(q[s], W)) = Len(q[s])
    BY <2>1, <2>2, <2>3
  <2>5. \A i \in 1..Len(q[s]) : Forget(q[s], W)[i] = f(i)
    BY <2>3
  <2> QED BY <2>2, <2>4, <2>5
<1>2. QueueTypes(p)
  <2>1. <<>> \in Seq(Entries)
    BY EmptySeq
  <2> QED BY <1>1, <2>1 DEF QueueTypes, Forgotten
<1>3. ASSUME NEW s \in Socks, NEW i \in 1..Len(p[s])
      PROVE  /\ i \in 1..Len(q[s]) /\ p[s][i].method = q[s][i].method /\ p[s][i].res = q[s][i].res
             /\ p[s][i].who \in {q[s][i].who, "none"} /\ (p[s][i].who \in W => p[s][i].who = "none")
  <2>1. CASE s \in D
    <3>1. p[s] = <<>>
      BY <2>1 DEF Forgotten
    <3>2. Len(p[s]) = 0
      BY <3>1, EmptySeq
    <3> QED BY <3>2
  <2>2. CASE s \notin D
    <3>1. p[s] = Forget(q[s], W)
      BY <2>2 DEF Forgotten
    <3> QED BY <1>1, <3>1
  <2> QED BY <2>1, <2>2
<1>4. NoYes(q) => NoYes(p)
  BY <1>3 DEF NoYes
<1>5. \A T : Awaited(q, T) => Awaited(p, T)
  <2> SUFFICES ASSUME NEW T, Awaited(q, T), NEW s \in Socks, NEW i \in 1..Len(p[s]), p[s][i].who # "none"
               PROVE  T[p[s][i].who].pc = "reply" /\ T[p[s][i].who].method = p[s][i].method
    BY Zenon DEF Awaited
  <2>1. i \in 1..Len(q[s]) /\ p[s][i].method = q[s][i].method /\ p[s][i].who = q[s][i].who
    BY <1>3
  <2>2. q[s][i].who # "none"
    BY <2>1
  <2> QED BY <2>1, <2>2 DEF Awaited
<1>6. Single(q) => Single(p)
  <2> SUFFICES ASSUME Single(q), NEW r \in Socks, NEW s \in Socks,
                      NEW i \in 1..Len(p[r]), NEW j \in 1..Len(p[s]),
                      p[r][i].who = p[s][j].who, p[r][i].who # "none"
               PROVE  r = s /\ i = j
    BY DEF Single
  <2>1. i \in 1..Len(q[r]) /\ p[r][i].who = q[r][i].who /\ j \in 1..Len(q[s]) /\ p[s][j].who = q[s][j].who
    BY <1>3
  <2> QED BY <2>1 DEF Single
<1>7. \A t \in W \ {"none"} : NoEntry(p, t)
  BY <1>3 DEF NoEntry
<1> QED BY <1>2, <1>4, <1>5, <1>6, <1>7

\* Tasks may go on as long as those a request waits for stay.
LEMMA AwaitedAfter ==
  ASSUME NEW q, QueueTypes(q), NEW T, NEW U, Awaited(q, T),
         \A t \in Tasks : \/ NoEntry(q, t)
                          \/ T[t].pc = "reply" => U[t].pc = "reply" /\ U[t].method = T[t].method
  PROVE  Awaited(q, U)
<1> SUFFICES ASSUME NEW s \in Socks, NEW i \in 1..Len(q[s]), q[s][i].who # "none"
             PROVE  U[q[s][i].who].pc = "reply" /\ U[q[s][i].who].method = q[s][i].method
  BY Zenon DEF Awaited
<1>1. q[s][i].who \in Tasks
  BY EntryTypes DEF Entries
<1>2. T[q[s][i].who].pc = "reply" /\ T[q[s][i].who].method = q[s][i].method
  BY DEF Awaited
<1>3. ~NoEntry(q, q[s][i].who)
  BY DEF NoEntry
<1> QED BY <1>1, <1>2, <1>3

(***************************************************************************)
(* Records of tasks                                                        *)
(***************************************************************************)
\* The records the actions build, and what they say.
LEMMA Records ==
  ASSUME TaskInv, file \in Pids, NEW t \in Tasks
  PROVE  /\ task[t] \in TaskRecords /\ Fits(t, task[t], endpoint)
         /\ Idle \in TaskRecords /\ Idle.pc = "idle" /\ Idle.tries = 0 /\ Idle.method = "none"
         /\ \A p \in Pcs : /\ At(t, p) \in TaskRecords /\ At(t, p).pc = p
                           /\ At(t, p).method = task[t].method /\ At(t, p).tries = task[t].tries
         /\ \A m \in Methods : Ask(t, m) \in TaskRecords /\ Ask(t, m).pc = "call" /\ Ask(t, m).method = m
         /\ task[t].tries < Retries => Attempt(t) \in TaskRecords /\ Attempt(t).pc = "pid"
         /\ \A p \in Pcs, m \in Methods :
              LET r == [task[t] EXCEPT !.pc = p, !.method = m] IN
              r \in TaskRecords /\ r.pc = p /\ r.method = m
<1>1. task[t] \in TaskRecords /\ Fits(t, task[t], endpoint)
  BY DEF TaskInv
<1>2. 0 \in 0..Retries /\ 0 \in Pids /\ "idle" \in Pcs /\ "none" \in Methods
  BY RetriesAssumption DEF Pids, Pcs, Methods
<1>3. Idle \in TaskRecords /\ Idle.pc = "idle" /\ Idle.tries = 0 /\ Idle.method = "none"
  BY <1>2 DEF Idle, TaskRecords
<1>4. ASSUME NEW p \in Pcs
      PROVE /\ At(t, p) \in TaskRecords /\ At(t, p).pc = p
            /\ At(t, p).method = task[t].method /\ At(t, p).tries = task[t].tries
  BY <1>1 DEF At, TaskRecords
<1>5. ASSUME NEW m \in Methods
      PROVE Ask(t, m) \in TaskRecords /\ Ask(t, m).pc = "call" /\ Ask(t, m).method = m
  BY <1>3 DEF Ask, TaskRecords, Pcs
<1>6. ASSUME task[t].tries < Retries PROVE Attempt(t) \in TaskRecords /\ Attempt(t).pc = "pid"
  <2>1. task[t].tries + 1 \in 0..Retries /\ "pid" \in Pcs
    BY <1>1, <1>6, RetriesAssumption DEF TaskRecords, Pcs
  <2> QED BY <1>1, <2>1 DEF Attempt, TaskRecords
<1>7. ASSUME NEW p \in Pcs, NEW m \in Methods
      PROVE LET r == [task[t] EXCEPT !.pc = p, !.method = m] IN
            r \in TaskRecords /\ r.pc = p /\ r.method = m
  BY <1>1 DEF TaskRecords
<1> QED BY <1>1, <1>3, <1>4, <1>5, <1>6, <1>7

\* The same, one at a time.
LEMMA AtFits ==
  ASSUME TaskInv, file \in Pids, NEW t \in Tasks, NEW p \in Pcs
  PROVE  /\ At(t, p) \in TaskRecords /\ At(t, p).pc = p /\ At(t, p).method = task[t].method
         /\ At(t, p).tries = task[t].tries
BY Records, Zenon

\* A task about to call.
LEMMA AskFits ==
  ASSUME TaskInv, file \in Pids, NEW t \in Tasks, NEW m \in Methods
  PROVE  Ask(t, m) \in TaskRecords /\ Ask(t, m).pc = "call" /\ Ask(t, m).method = m
BY Records, Zenon

\* What becomes of a caller whose call fails.
LEMMA CallFailsFits ==
  ASSUME TaskInv, file \in Pids, NEW u \in Users
  PROVE  /\ CallFails(u) \in TaskRecords /\ CallFails(u).pc \in {"idle", "call", "leave"}
         /\ Fits(u, CallFails(u), endpoint)
<1>0. u \in Tasks /\ u \notin Connectors
  BY Names
<1>1. CASE u # "quit"
  BY <1>0, <1>1, Records DEF CallFails, Fits
<1>2. CASE u = "quit" /\ task[u].method = "disconnect"
  <2>1. CallFails(u) = Ask(u, "stop")
    BY <1>2 DEF CallFails
  <2>2. "stop" \in Methods
    BY DEF Methods
  <2>3. CallFails(u) \in TaskRecords /\ CallFails(u).pc = "call" /\ CallFails(u).method = "stop"
    BY <1>0, <2>1, <2>2, AskFits, Zenon
  <2> QED BY <1>0, <2>3 DEF Fits
<1>3. CASE u = "quit" /\ task[u].method # "disconnect"
  <2>1. CallFails(u) = At(u, "leave")
    BY <1>3 DEF CallFails
  <2>2. "leave" \in Pcs
    BY DEF Pcs
  <2>3. /\ CallFails(u) \in TaskRecords /\ CallFails(u).pc = "leave"
        /\ CallFails(u).method = task[u].method /\ task[u].method # "info"
    <3>1. /\ At(u, "leave") \in TaskRecords /\ At(u, "leave").pc = "leave"
          /\ At(u, "leave").method = task[u].method
      BY <1>0, <2>2, AtFits, Zenon
    <3> QED BY <1>0, <2>1, <3>1 DEF TaskInv, Fits
  <2> QED BY <1>0, <2>3 DEF Fits
<1> QED BY <1>1, <1>2, <1>3

\* A look at core.json.
LEMMA AttemptFits ==
  ASSUME TaskInv, file \in Pids, NEW k \in Connectors, task[k].tries < Retries, NEW ep, ep # 0
  PROVE  Attempt(k) \in TaskRecords /\ Attempt(k).pc = "pid" /\ Fits(k, Attempt(k), ep)
BY Names, Records DEF Fits

\* The end of the merged connectOnce moves its waiters on, and nobody else.
LEMMA MergedEndsFits ==
  ASSUME TaskInv, file \in Pids, NEW ok
  PROVE  LET M == MergedEnds(ok) IN
         /\ M \in [Tasks -> TaskRecords] /\ \A t \in Tasks : Fits(t, M[t], endpoint)
         /\ M["merged"] = Idle
         /\ \A t \in Tasks : t # "merged" /\ task[t].pc # "conn" => M[t] = task[t]
         /\ \A c \in Closures : M[c] = task[c]
<1> DEFINE M == MergedEnds(ok)
           f(t) == IF t = "merged" THEN Idle
                   ELSE IF t \in Users /\ task[t].pc = "conn"
                          THEN IF ok THEN At(t, "send") ELSE CallFails(t)
                          ELSE task[t]
<1>1. ASSUME NEW t \in Tasks PROVE f(t) \in TaskRecords /\ Fits(t, f(t), endpoint)
  <2>1. CASE t = "merged"
    BY <2>1, Records, Names DEF Fits
  <2>2. CASE t # "merged" /\ t \in Users /\ task[t].pc = "conn" /\ ok
    <3>1. f(t) = At(t, "send") /\ "send" \in Pcs
      BY <2>2 DEF Pcs
    <3>2. f(t) \in TaskRecords /\ f(t).pc = "send" /\ f(t).method = task[t].method
      <4>1. At(t, "send") \in TaskRecords /\ At(t, "send").pc = "send" /\ At(t, "send").method = task[t].method
        BY <3>1, AtFits, Zenon
      <4> HIDE DEF f
      <4> QED BY <3>1, <4>1
    <3>3. t \in Users /\ t \notin Connectors /\ task[t].method # "info"
      BY <2>2, Names DEF TaskInv, Fits
    <3> HIDE DEF f
    <3> QED BY <3>2, <3>3 DEF Fits
  <2>3. CASE t # "merged" /\ t \in Users /\ task[t].pc = "conn" /\ ~ok
    BY <2>3, CallFailsFits
  <2>4. CASE t # "merged" /\ ~(t \in Users /\ task[t].pc = "conn")
    BY <2>4, Records
  <2> QED BY <2>1, <2>2, <2>3, <2>4
<1>2. M = [t \in Tasks |-> f(t)]
  BY DEF MergedEnds
<1>3. f("merged") = Idle /\ \A t \in Tasks : t # "merged" /\ task[t].pc # "conn" => f(t) = task[t]
  OBVIOUS
<1>4. \A c \in Closures : f(c) = task[c]
  BY Names
<1> HIDE DEF M, f
<1>5. \A t \in Tasks : M[t] = f(t)
  BY <1>2
<1> QED BY <1>1, <1>2, <1>3, <1>4, <1>5, Names DEF M

\* What ensureDaemon leaves as the endpoint: a process if it found one, and never
\* none instead of one.
Leads(ok, ep) == (ep = endpoint \/ ep # 0) /\ (ok => ep # 0)

\* The end of ensureDaemon moves those who wait for it on.
LEMMA ResumedFits ==
  ASSUME TaskInv, file \in Pids, NEW ok \in BOOLEAN, NEW ep, Leads(ok, ep)
  PROVE  LET M == Resumed(ok) IN
         /\ M \in [Tasks -> TaskRecords] /\ \A t \in Tasks : Fits(t, M[t], ep)
         /\ \A t \in Tasks : task[t].pc \notin {"ensure", "conn"} => M[t] = task[t]
         /\ \A c \in Closures : task[c].pc # "ensure" => M[c] = task[c]
         /\ ok => \A c \in Closures : task[c].pc = "ensure" => M[c].pc = "pid"
<1> DEFINE M == Resumed(ok)
           f(t) == IF task[t].pc = "ensure"
                     THEN IF ~ok THEN Idle ELSE IF t \in Connectors THEN Attempt(t) ELSE At(t, "call")
                   ELSE IF ~ok /\ t \in Users /\ task[t].pc = "conn" /\ task["merged"].pc = "ensure"
                     THEN CallFails(t)
                     ELSE task[t]
<1>0. ASSUME NEW t \in Tasks, NEW r, Fits(t, r, endpoint) PROVE Fits(t, r, ep)
  BY <1>0 DEF Fits, Leads
<1>1. ASSUME NEW t \in Tasks PROVE f(t) \in TaskRecords /\ Fits(t, f(t), ep)
  <2>1. CASE task[t].pc = "ensure" /\ ~ok
    BY <2>1, Records DEF Fits
  <2>2. CASE task[t].pc = "ensure" /\ ok /\ t \in Connectors
    <3>1. f(t) = Attempt(t)
      BY <2>2
    <3>2. task[t].tries < Retries
      BY <2>2, RetriesAssumption DEF TaskInv, Fits
    <3> QED BY <2>2, <3>1, <3>2, AttemptFits DEF Leads
  <2>3. CASE task[t].pc = "ensure" /\ ok /\ t \notin Connectors
    <3>1. f(t) = At(t, "call") /\ "call" \in Pcs
      BY <2>3 DEF Pcs
    <3>2. f(t) \in TaskRecords /\ f(t).pc = "call" /\ f(t).method = task[t].method
      <4>1. At(t, "call") \in TaskRecords /\ At(t, "call").pc = "call" /\ At(t, "call").method = task[t].method
        BY <3>1, AtFits, Zenon
      <4> HIDE DEF f
      <4> QED BY <3>1, <4>1
    <3>3. t \in Users /\ t \notin Connectors /\ task[t].method # "info"
      BY <2>3, Names DEF TaskInv, Fits
    <3> HIDE DEF f
    <3> QED BY <3>2, <3>3 DEF Fits
  <2>4. CASE task[t].pc # "ensure" /\ ~ok /\ t \in Users /\ task[t].pc = "conn" /\ task["merged"].pc = "ensure"
    BY <1>0, <2>4, CallFailsFits
  <2>5. CASE task[t].pc # "ensure" /\ ~(~ok /\ t \in Users /\ task[t].pc = "conn" /\ task["merged"].pc = "ensure")
    BY <1>0, <2>5, Records
  <2> QED BY <2>1, <2>2, <2>3, <2>4, <2>5
<1>2. M = [t \in Tasks |-> f(t)]
  BY DEF Resumed
<1>3. \A t \in Tasks : task[t].pc \notin {"ensure", "conn"} => f(t) = task[t]
  OBVIOUS
<1>4. \A c \in Closures : task[c].pc # "ensure" => f(c) = task[c]
  BY Names
<1>5. ASSUME ok, NEW c \in Closures, task[c].pc = "ensure" PROVE f(c).pc = "pid"
  <2>1. f(c) = Attempt(c) /\ c \in Connectors
    BY <1>5, Names
  <2>2. task[c].tries < Retries
    BY <1>5, <2>1, RetriesAssumption, Names DEF TaskInv, Fits
  <2> QED BY <1>5, <2>1, <2>2, AttemptFits
<1> HIDE DEF M, f
<1>6. \A t \in Tasks : M[t] = f(t)
  BY <1>2
<1> QED BY <1>1, <1>2, <1>3, <1>4, <1>5, <1>6, Names DEF M

(***************************************************************************)
(* Steps that leave alone what a part of the invariant is about            *)
(***************************************************************************)
\* The tasks that wait for a connection or an answer stay.
Steady ==
  \A t \in Tasks : task[t].pc \in {"open", "reply"} =>
                     task'[t].pc = task[t].pc /\ task'[t].method = task[t].method

\* The connections' part.
LEMMA ConnSteady ==
  ASSUME ConnInv, Steady, UNCHANGED <<conn, socket>>
  PROVE  ConnInv'
BY Names DEF ConnInv, Steady

\* The queues' part.
LEMMA QueueSteady ==
  ASSUME QueueInv, Steady, UNCHANGED queue
  PROVE  QueueInv'
<1>1. Awaited(queue, task')
  BY AwaitedAfter DEF QueueInv, Steady
<1> QED BY <1>1 DEF QueueInv, QueueTypes, Single, Awaited

\* The part about who looks for a connection.
LEMMA TryingSteady ==
  ASSUME Trying, UNCHANGED <<ever, socket>>, timer => timer',
         \A c \in Closures : task[c].pc \in Connecting => timer' \/ task'[c].pc \in Connecting
  PROVE  Trying'
BY DEF Trying

\* The processes' part.
LEMMA OldSteady ==
  ASSUME OldInv, UNCHANGED <<proc, file, old>>
  PROVE  OldInv' /\ OldUp' = OldUp
BY DEF OldInv, OldUp

\* The part about the version.
LEMMA VersionSteady ==
  ASSUME VersionInv, Steady, OldUp' \subseteq OldUp, UNCHANGED <<conn, socket, queue, degraded>>
  PROVE  VersionInv'
<1>1. Checking(task) => Checking(task')
  BY Names DEF Checking, Steady
<1>2. NoYes(queue) => NoYes(queue')
  BY DEF NoYes
<1> QED BY <1>1, <1>2 DEF VersionInv

\* A step of tasks only.
LEMMA TasksOnly ==
  ASSUME Inv, UNCHANGED <<world, net, socket, degraded, ever>>,
         WorldTypes', FlagTypes', TaskInv', Steady, timer => timer',
         \A c \in Closures : task[c].pc \in Connecting => timer' \/ task'[c].pc \in Connecting
  PROVE  Inv'
<1>1. UNCHANGED <<proc, file, old, conn, queue>>
  BY DEF world, net
<1>2. ConnInv' /\ QueueInv'
  BY <1>1, ConnSteady, QueueSteady DEF Inv
<1>3. Trying'
  BY <1>1, TryingSteady DEF Inv
<1>4. OldInv' /\ OldUp' = OldUp
  BY <1>1, OldSteady DEF Inv
<1>5. VersionInv'
  BY <1>1, <1>4, VersionSteady DEF Inv
<1> QED BY <1>2, <1>3, <1>4, <1>5 DEF Inv

\* A step of the processes only.
LEMMA WorldOnly ==
  ASSUME Inv, UNCHANGED <<net, fields, ensuring, ready, task, gone, history>>,
         WorldTypes', OldInv', OldUp' \subseteq OldUp
  PROVE  Inv'
<1>1. UNCHANGED <<conn, queue, endpoint, socket, timer, desired, lastPid, degraded, ready, task, gone, ever>>
  BY DEF net, fields, history
<1>2. Steady
  BY <1>1 DEF Steady
<1>3. ConnInv' /\ QueueInv' /\ VersionInv'
  BY <1>1, <1>2, ConnSteady, QueueSteady, VersionSteady DEF Inv
<1>4. Trying' /\ FlagTypes' /\ TaskInv'
  BY <1>1 DEF Inv, Trying, FlagTypes, TaskInv, Fits
<1> QED BY <1>3, <1>4 DEF Inv

(***************************************************************************)
(* Sending a request, and its end                                          *)
(***************************************************************************)
\* Only a task that waits has a request.
LEMMA NoEntryUnlessReply ==
  ASSUME QueueInv, NEW t \in Tasks, task[t].pc # "reply"
  PROVE  NoEntry(queue, t)
BY Names DEF QueueInv, Awaited, NoEntry

\* A task without a request sends one, and then waits for it.
LEMMA SendDirectFits ==
  ASSUME TaskInv, file \in Pids, socket \in Socks, NEW t \in Tasks, NEW m \in Methods, NEW q,
         QueueTypes(q), Awaited(q, task), Single(q), NoEntry(q, t),
         t \in Connectors => endpoint # 0, t \in Users => m # "info",
         UNCHANGED endpoint,
         SendDirect(t, m, q)
  PROVE  /\ TaskInv' /\ QueueInv' /\ (NoYes(q) => NoYes(queue'))
         /\ \A u \in Tasks : u # t => task'[u] = task[u]
         /\ task'[t].pc = "reply" /\ task'[t].method = m
<1> DEFINE rec == [task[t] EXCEPT !.pc = "reply", !.method = m]
           e == [who |-> t, method |-> m, res |-> "none"]
<1>0. "reply" \in Pcs
  BY DEF Pcs
<1>1. rec \in TaskRecords /\ rec.pc = "reply" /\ rec.method = m
  BY <1>0, Records, Zenon
<1>2. task' = [task EXCEPT ![t] = rec]
  BY DEF SendDirect, TaskInv, TaskRecords
<1>3. queue' = [q EXCEPT ![socket] = Append(@, e)]
  BY DEF SendDirect
<1>4. e \in Entries /\ e.who = t /\ e.method = m /\ e.res = "none" /\ t # "none"
  BY Names DEF Entries
<1> HIDE DEF rec, e
<1>5. /\ task' \in [Tasks -> TaskRecords] /\ task'[t] = rec
      /\ \A u \in Tasks : u # t => task'[u] = task[u]
  BY <1>1, <1>2 DEF TaskInv
<1>6. TaskInv'
  BY <1>1, <1>5 DEF TaskInv, Fits
<1>7. Awaited(q, task')
  BY <1>5, AwaitedAfter
<1>8. QueueTypes(queue') /\ Single(queue') /\ (NoYes(q) => NoYes(queue'))
  BY <1>3, <1>4, AppendFits
<1>9. Awaited(queue', task')
  <2>1. Awaited([q EXCEPT ![socket] = Append(@, e)], task')
    BY <1>1, <1>4, <1>5, <1>7, AppendFits
  <2> QED BY <1>3, <2>1
<1> QED BY <1>1, <1>3, <1>4, <1>5, <1>6, <1>8, <1>9, AppendFits DEF QueueInv, QueueTypes, Awaited, Single

\* Queues that fit the tasks fit.
LEMMA QueueFits ==
  ASSUME NEW q, QueueTypes(q), Single(q), Awaited(q, task'), queue' = q
  PROVE  QueueInv' /\ (NoYes(q) => NoYes(queue'))
BY DEF QueueInv, QueueTypes, Awaited, Single, NoYes

\* What the end of t's request leaves alone.
OthersStay(t) ==
  /\ \A u \in Tasks : u # t /\ u # "merged" /\ task[u].pc # "conn" => task'[u] = task[u]
  /\ \A c \in Closures : c # t => task'[c] = task[c]
  /\ t # "merged" => task'["merged"] = task["merged"]

\* A request ends with its task sending the next one.
LEMMA EndsBySending ==
  ASSUME TaskInv, file \in Pids, ConnInv, NEW t \in Tasks, task[t].pc = "reply", NEW q,
         QueueTypes(q), Awaited(q, task), Single(q), NoEntry(q, t), UNCHANGED endpoint,
         NEW m \in Methods, m # "info", socket # 0, SendDirect(t, m, q)
  PROVE  TaskInv' /\ QueueInv' /\ (NoYes(q) => NoYes(queue')) /\ OthersStay(t)
<1>1. socket \in Socks /\ (t \in Connectors => endpoint # 0)
  BY DEF ConnInv, TaskInv, Fits
<1>2. /\ TaskInv' /\ QueueInv' /\ (NoYes(q) => NoYes(queue'))
      /\ \A u \in Tasks : u # t => task'[u] = task[u]
  BY <1>1, SendDirectFits
<1>3. OthersStay(t)
  BY <1>2, Names DEF OthersStay
<1> QED BY <1>2, <1>3

\* A request ends with its task elsewhere.
LEMMA EndsElsewhere ==
  ASSUME TaskInv, file \in Pids, NEW t \in Tasks, NEW q,
         QueueTypes(q), Awaited(q, task), Single(q), NoEntry(q, t), UNCHANGED endpoint,
         NEW rec \in TaskRecords, Fits(t, rec, endpoint),
         task' = [task EXCEPT ![t] = rec], queue' = q
  PROVE  TaskInv' /\ QueueInv' /\ (NoYes(q) => NoYes(queue')) /\ OthersStay(t)
<1>1. task' \in [Tasks -> TaskRecords] /\ \A u \in Tasks : task'[u] = IF u = t THEN rec ELSE task[u]
  BY DEF TaskInv
<1>2. TaskInv'
  BY <1>1 DEF TaskInv, Fits
<1>4. Awaited(q, task')
  <2> SUFFICES ASSUME NEW s \in Socks, NEW i \in 1..Len(q[s]), q[s][i].who # "none"
               PROVE  task'[q[s][i].who].pc = "reply" /\ task'[q[s][i].who].method = q[s][i].method
    BY Zenon DEF Awaited
  <2>1. q[s][i].who \in Tasks /\ q[s][i].who # t
    BY EntryTypes DEF Entries, NoEntry
  <2>2. task'[q[s][i].who] = task[q[s][i].who]
    BY <1>1, <2>1
  <2> QED BY <2>2 DEF Awaited
<1>5. OthersStay(t)
  BY <1>1, Names DEF OthersStay
<1> QED BY <1>2, <1>4, <1>5, QueueFits

\* A request ends with the merged connectOnce.
LEMMA EndsMerged ==
  ASSUME TaskInv, file \in Pids, NEW q, NEW ok,
         QueueTypes(q), Awaited(q, task), Single(q), NoEntry(q, "merged"), UNCHANGED endpoint,
         task' = MergedEnds(ok), queue' = q
  PROVE  TaskInv' /\ QueueInv' /\ (NoYes(q) => NoYes(queue')) /\ OthersStay("merged")
<1>1. /\ task' \in [Tasks -> TaskRecords] /\ \A u \in Tasks : Fits(u, task'[u], endpoint)
      /\ \A u \in Tasks : u # "merged" /\ task[u].pc # "conn" => task'[u] = task[u]
      /\ \A c \in Closures : task'[c] = task[c]
  BY MergedEndsFits
<1>2. TaskInv'
  BY <1>1 DEF TaskInv, Fits
<1>3. \A u \in Tasks : NoEntry(q, u) \/ (task[u].pc = "reply" => task'[u] = task[u])
  BY <1>1
<1>4. Awaited(q, task')
  BY <1>3, AwaitedAfter
<1>5. OthersStay("merged")
  BY <1>1 DEF OthersStay
<1> QED BY <1>2, <1>4, <1>5, QueueFits

\* The end of a request: by an answer, or by its timer.
LEMMA EndsKeeps ==
  ASSUME Inv, NEW t \in Tasks, task[t].pc = "reply", NEW r, NEW q,
         QueueTypes(q), Awaited(q, task), Single(q), NoEntry(q, t),
         OldUp # {} => NoYes(q) /\ (task[t].method = "info" => r # "yes"),
         Ends(t, r, q),
         UNCHANGED <<world, conn, endpoint, socket, timer, ensuring, ready, gone, ever>>,
         faults' \in 0..MaxFaults
  PROVE  Inv'
<1>0. /\ UNCHANGED <<proc, file, wanted, old>> /\ file \in Pids
      /\ task[t].method \in Methods /\ TaskInv /\ ConnInv /\ task[t].pc # "conn"
  BY DEF world, Inv, WorldTypes, TaskInv, TaskRecords
<1> DEFINE Moved ==
      TaskInv' /\ QueueInv' /\ (NoYes(q) => NoYes(queue')) /\ OthersStay(t)
<1>1. ASSUME NEW m \in Methods, m # "info", socket # 0, SendDirect(t, m, q) PROVE Moved
  BY <1>0, <1>1, EndsBySending
<1>2. ASSUME NEW rec \in TaskRecords, Fits(t, rec, endpoint), task' = [task EXCEPT ![t] = rec], queue' = q
      PROVE  Moved
  BY <1>0, <1>2, EndsElsewhere
<1> HIDE DEF Moved
<1>3. Idle \in TaskRecords /\ Fits(t, Idle, endpoint)
  BY <1>0, Records DEF Fits
<1>4. ASSUME InfoEnds(t, r, q)
      PROVE  /\ Moved /\ UNCHANGED desired /\ lastPid' = endpoint
             /\ degraded' \in BOOLEAN /\ (OldUp # {} => degraded')
  <2>1. /\ task[t].method = "info" /\ degraded' = (r # "yes") /\ lastPid' = endpoint /\ UNCHANGED desired
    BY <1>4 DEF InfoEnds, CheckProtocolVersion
  <2>2. CASE t = "merged"
    <3>1. task' = MergedEnds(TRUE) /\ queue' = q
      BY <1>4, <2>2 DEF InfoEnds
    <3> QED BY <1>0, <2>1, <2>2, <3>1, EndsMerged DEF Moved
  <2>3. CASE t # "merged" /\ desired /\ socket # 0
    <3>1. \E m \in {"connect", "status"} : SendDirect(t, m, q)
      BY <1>4, <2>3 DEF InfoEnds
    <3> QED BY <1>1, <2>1, <2>3, <3>1 DEF Methods
  <2>4. CASE t # "merged" /\ ~(desired /\ socket # 0)
    <3>1. task' = [task EXCEPT ![t] = Idle] /\ queue' = q
      BY <1>4, <2>4 DEF InfoEnds
    <3> QED BY <1>2, <1>3, <2>1, <3>1
  <2> QED BY <2>2, <2>3, <2>4
<1>5. ASSUME RecoveryEnds(t, r, q)
      PROVE  Moved /\ UNCHANGED <<degraded, lastPid, desired>> /\ task[t].method # "info"
  <2>1. UNCHANGED <<degraded, lastPid, desired>> /\ task[t].method # "info"
    BY <1>5 DEF RecoveryEnds
  <2>2. CASE socket # 0 /\ SendDirect(t, "connect", q)
    BY <1>1, <2>1, <2>2 DEF Methods
  <2>3. CASE task' = [task EXCEPT ![t] = Idle] /\ queue' = q
    BY <1>2, <1>3, <2>1, <2>3
  <2> QED BY <1>5, <2>2, <2>3 DEF RecoveryEnds
<1>6. ASSUME CallEnds(t, r, q)
      PROVE  Moved /\ UNCHANGED <<degraded, lastPid>> /\ desired' \in BOOLEAN /\ t \notin Connectors
  <2>1. t \in Users /\ t \notin Connectors
    BY <1>6, Names DEF CallEnds
  <2>2. UNCHANGED <<degraded, lastPid>> /\ desired' \in BOOLEAN /\ queue' = q
    BY <1>6 DEF CallEnds, Inv, FlagTypes
  <2>3. PICK rec \in {CallFails(t), Ask(t, "connect"), Ask(t, "stop"), At(t, "leave"), Idle} :
          task' = [task EXCEPT ![t] = rec]
    <3> DEFINE m == task[t].method
               x == CASE r = "fail" -> CallFails(t)
                      [] t = "ui" /\ m = "status" /\ r = "no" -> Ask(t, "connect")
                      [] t = "quit" /\ m = "disconnect" -> Ask(t, "stop")
                      [] t = "quit" /\ m = "stop" -> At(t, "leave")
                      [] OTHER -> Idle
    <3>1. x \in {CallFails(t), Ask(t, "connect"), Ask(t, "stop"), At(t, "leave"), Idle}
      OBVIOUS
    <3>2. task' = [task EXCEPT ![t] = x]
      BY <1>6 DEF CallEnds
    <3> QED BY <3>1, <3>2
  <2>4. CallFails(t) \in TaskRecords /\ Fits(t, CallFails(t), endpoint)
    BY <1>0, <2>1, CallFailsFits
  <2>5. ASSUME NEW m \in {"connect", "stop"} PROVE Ask(t, m) \in TaskRecords /\ Fits(t, Ask(t, m), endpoint)
    <3>1. m \in Methods
      BY DEF Methods
    <3>2. Ask(t, m) \in TaskRecords /\ Ask(t, m).pc = "call" /\ Ask(t, m).method = m
      BY <1>0, <3>1, AskFits, Zenon
    <3> QED BY <2>1, <3>2 DEF Fits
  <2>6. At(t, "leave") \in TaskRecords /\ Fits(t, At(t, "leave"), endpoint)
    <3>1. "leave" \in Pcs
      BY DEF Pcs
    <3>2. /\ At(t, "leave") \in TaskRecords /\ At(t, "leave").pc = "leave"
          /\ At(t, "leave").method = task[t].method
      BY <1>0, <3>1, AtFits, Zenon
    <3> QED BY <1>0, <2>1, <3>2 DEF Fits, TaskInv
  <2>7. rec \in TaskRecords /\ Fits(t, rec, endpoint)
    BY <1>3, <2>3, <2>4, <2>5, <2>6
  <2> QED BY <1>2, <2>1, <2>2, <2>3, <2>7
\* What follows for the rest of the invariant.
<1>7. Moved /\ desired' \in BOOLEAN /\ lastPid' \in Pids /\ degraded' \in BOOLEAN
      /\ \/ OldUp # {} => degraded'
         \/ UNCHANGED degraded /\ ~(t \in Connectors /\ task[t].method = "info")
  BY <1>4, <1>5, <1>6 DEF Ends, Inv, FlagTypes, WorldTypes
<1>8. WorldTypes' /\ FlagTypes'
  BY <1>0, <1>7 DEF Inv, WorldTypes, FlagTypes
<1>9. TaskInv' /\ QueueInv' /\ (NoYes(q) => NoYes(queue')) /\ OthersStay(t)
  BY <1>7 DEF Moved
<1>10. ConnInv'
  <2>1. \A u \in Connectors : task[u].pc = "open" => task'[u] = task[u]
    BY <1>9, Names DEF OthersStay
  <2> QED BY <2>1 DEF Inv, ConnInv
<1>11. Trying'
  <2>1. \A c \in Closures : task[c].pc \in Connecting => task'[c] = task[c]
    BY <1>9 DEF OthersStay, Connecting
  <2> QED BY <2>1, TryingSteady DEF Inv
<1>12. OldInv' /\ OldUp' = OldUp
  BY <1>0, OldSteady DEF Inv
<1>13. VersionInv'
  <2>1. UNCHANGED degraded /\ ~(t \in Connectors /\ task[t].method = "info") /\ Checking(task)
          => Checking(task')
    <3> SUFFICES ASSUME ~(t \in Connectors /\ task[t].method = "info"),
                        NEW k \in Connectors, task[k].pc = "reply", task[k].method = "info"
                 PROVE  task'[k] = task[k]
      BY DEF Checking
    <3> QED BY <1>9, Names DEF OthersStay
  <2> QED BY <1>7, <1>9, <1>12, <2>1 DEF Inv, VersionInv
<1> QED BY <1>8, <1>9, <1>10, <1>11, <1>12, <1>13 DEF Inv

(***************************************************************************)
(* The processes                                                           *)
(***************************************************************************)
\* Faults are counted.
LEMMA FaultFits ==
  ASSUME faults \in 0..MaxFaults, Fault \/ NoFault
  PROVE  faults' \in 0..MaxFaults
BY FaultsAssumption DEF Fault, NoFault

\* A process that starts looks at core.json.
LEMMA ChecksKeeps ==
  ASSUME Inv, NEW d \in Daemons, Checks(d)
  PROVE  Inv'
<1> DEFINE to == IF file # 0 /\ proc[file] = "up" THEN "dead" ELSE "checked"
<1>1. /\ proc[d] = "starting" /\ proc' = [proc EXCEPT ![d] = to] /\ to \in {"dead", "checked"}
      /\ UNCHANGED <<file, wanted, old, faults, net, fields, ensuring, ready, task, gone, history>>
  BY DEF Checks
<1>2. WorldTypes'
  BY <1>1 DEF Inv, WorldTypes, fields
<1>3. d \notin old /\ 0 \notin Daemons
  BY <1>1 DEF Inv, OldInv, Daemons
<1>4. proc' \in [Daemons -> {"none", "starting", "checked", "up", "dead"}]
      /\ \A e \in Daemons : proc'[e] = IF e = d THEN to ELSE proc[e]
  BY <1>1 DEF Inv, WorldTypes
<1>5. OldUp' = OldUp
  BY <1>1, <1>3, <1>4 DEF OldUp, Inv, WorldTypes
<1>6. OldUp # {} => to = "dead"
  BY <1>3 DEF OldUp, Inv, OldInv, WorldTypes
<1> HIDE DEF to
<1>7. OldInv'
  BY <1>1, <1>3, <1>4, <1>5, <1>6 DEF Inv, OldInv, WorldTypes
<1> QED BY <1>1, <1>2, <1>5, <1>7, WorldOnly

\* A process that found none writes core.json.
LEMMA PublishesKeeps ==
  ASSUME Inv, NEW d \in Daemons, Publishes(d)
  PROVE  Inv'
<1>1. /\ proc[d] = "checked" /\ proc' = [proc EXCEPT ![d] = "up"] /\ file' = d
      /\ UNCHANGED <<wanted, old, faults, net, fields, ensuring, ready, task, gone, history>>
  BY DEF Publishes
<1>2. WorldTypes'
  BY <1>1 DEF Inv, WorldTypes, fields, Pids
<1>3. d \notin old /\ OldUp = {}
  <2>1. d \notin old
    BY <1>1 DEF Inv, OldInv
  <2> QED BY <1>1, <2>1 DEF Inv, OldInv, OldUp
<1>4. OldUp' = {}
  BY <1>1, <1>3 DEF OldUp, Inv, WorldTypes
<1>5. OldInv'
  BY <1>1, <1>3, <1>4 DEF Inv, OldInv, WorldTypes
<1> QED BY <1>1, <1>2, <1>4, <1>5, WorldOnly

\* A process crashes.
LEMMA CrashesKeeps ==
  ASSUME Inv, NEW d \in Daemons, Crashes(d)
  PROVE  Inv'
<1>1. /\ proc' = [proc EXCEPT ![d] = "dead"] /\ wanted' = [wanted EXCEPT ![d] = FALSE] /\ Fault
      /\ UNCHANGED <<file, old, net, fields, ensuring, ready, task, gone, history>>
  BY DEF Crashes
<1>2. WorldTypes'
  BY <1>1, FaultFits DEF Inv, WorldTypes, fields
<1>3. \A e \in Daemons : proc'[e] = IF e = d THEN "dead" ELSE proc[e]
  BY <1>1 DEF Inv, WorldTypes
<1>4. OldUp' \subseteq OldUp
  BY <1>1, <1>3 DEF OldUp, Inv, WorldTypes
<1>5. OldInv'
  BY <1>1, <1>3, <1>4 DEF Inv, OldInv, WorldTypes
<1> QED BY <1>1, <1>2, <1>4, <1>5, WorldOnly

\* A process is started, under a number that nothing refers to any more.
LEMMA EnsureSpawnsKeeps ==
  ASSUME Inv, EnsureSpawns
  PROVE  Inv'
<1>1. PICK d \in Daemons :
        /\ Fresh(d) /\ proc' = [proc EXCEPT ![d] = "starting"]
        /\ ensuring' = [st |-> "spawn", pid |-> d, seen |-> file] /\ old' = old \ {d}
  BY DEF EnsureSpawns
<1>2. /\ UNCHANGED <<file, wanted, net, fields, ready, task, gone, history>> /\ (Fault \/ NoFault)
  BY DEF EnsureSpawns
<1>3. d # 0 /\ proc[d] # "up" /\ d \notin OldUp
  BY <1>1 DEF Fresh, Alive, Daemons, OldUp
<1>4. WorldTypes'
  BY <1>1, <1>2, FaultFits DEF Inv, WorldTypes, fields, Pids
<1>5. \A e \in Daemons : proc'[e] = IF e = d THEN "starting" ELSE proc[e]
  BY <1>1 DEF Inv, WorldTypes
<1>6. OldUp' = OldUp
  BY <1>1, <1>3, <1>5 DEF OldUp, Inv, WorldTypes
<1>7. OldInv'
  BY <1>1, <1>2, <1>3, <1>5, <1>6 DEF Inv, OldInv, WorldTypes
<1>8. UNCHANGED <<conn, queue, endpoint, socket, timer, desired, lastPid, degraded, ready, task, gone, ever>>
  BY <1>2 DEF net, fields, history
<1>9. Steady
  BY <1>8 DEF Steady
<1>10. ConnInv' /\ QueueInv' /\ VersionInv'
  BY <1>6, <1>8, <1>9, ConnSteady, QueueSteady, VersionSteady DEF Inv
<1>11. Trying' /\ FlagTypes' /\ TaskInv'
  BY <1>8 DEF Inv, Trying, FlagTypes, TaskInv, Fits
<1> QED BY <1>4, <1>7, <1>10, <1>11 DEF Inv

\* A process answers a request; only one of another version says no to the version
\* check.
LEMMA ServesKeeps ==
  ASSUME Inv, NEW s \in Socks, Serves(s)
  PROVE  Inv'
<1> DEFINE d == conn[s].to
<1>0. d \in Daemons /\ proc[d] = "up" /\ conn[s].st = "open"
  BY DEF Serves, Inv, ConnInv, ConnRecords, Pids
<1>1. PICK i \in 1..Len(queue[s]) :
        LET m == queue[s][i].method IN
        /\ queue[s][i].res = "none"
        /\ \E a \in Answers(m, d) : queue' = [queue EXCEPT ![s][i].res = a]
        /\ wanted' = CASE m = "connect" -> [wanted EXCEPT ![d] = TRUE]
                       [] m \in {"disconnect", "stop"} -> [wanted EXCEPT ![d] = FALSE]
                       [] OTHER -> wanted
        /\ IF m = "stop" THEN proc' = [proc EXCEPT ![d] = "dead"] /\ file' = 0
                         ELSE UNCHANGED <<proc, file>>
  BY DEF Serves
<1> DEFINE m == queue[s][i].method
<1>2. PICK a \in Answers(m, d) : queue' = [queue EXCEPT ![s][i].res = a]
  BY <1>1
<1>3. /\ UNCHANGED <<old, faults, conn, endpoint, socket, timer, desired, lastPid, degraded>>
      /\ UNCHANGED <<ensuring, ready, task, gone, ever>>
  BY DEF Serves, fields, history
<1>4. a \in {"yes", "no"} /\ (m = "info" /\ d \in old => a = "no")
  BY <1>2 DEF Answers
<1>5. QueueTypes(queue) /\ queue[s] \in Seq(Entries) /\ Len(queue[s]) \in Nat
      /\ queue[s][i] \in Entries
  BY EntryTypes DEF Inv, QueueInv
<1>6. wanted' \in [Daemons -> BOOLEAN]
  <2>1. wanted \in [Daemons -> BOOLEAN]
    BY DEF Inv, WorldTypes
  <2>2. wanted' \in {wanted, [wanted EXCEPT ![d] = TRUE], [wanted EXCEPT ![d] = FALSE]}
    BY <1>1
  <2> HIDE DEF d
  <2> QED BY <2>1, <2>2
<1>7. WorldTypes'
  BY <1>0, <1>1, <1>3, <1>6 DEF Inv, WorldTypes, Pids
<1> HIDE DEF d, m
<1>8. /\ QueueTypes(queue') /\ \A r \in Socks : Len(queue'[r]) = Len(queue[r])
      /\ \A r \in Socks : \A j \in 1..Len(queue[r]) :
           /\ queue'[r][j].who = queue[r][j].who /\ queue'[r][j].method = queue[r][j].method
           /\ queue'[r][j].res = IF r = s /\ j = i THEN a ELSE queue[r][j].res
  <2> DEFINE e == [queue[s][i] EXCEPT !.res = a]
             l == [queue[s] EXCEPT ![i] = e]
  <2>1. e \in Entries /\ e.who = queue[s][i].who /\ e.method = queue[s][i].method /\ e.res = a
    BY <1>4, <1>5 DEF Entries
  <2>2. queue' = [queue EXCEPT ![s] = l]
    BY <1>2
  <2> HIDE DEF e
  <2>3. /\ l \in Seq(Entries) /\ Len(l) = Len(queue[s])
        /\ \A j \in 1..Len(queue[s]) : l[j] = IF j = i THEN e ELSE queue[s][j]
    BY <1>5, <2>1
  <2> HIDE DEF l
  <2>4. \A r \in Socks : queue'[r] = IF r = s THEN l ELSE queue[r]
    BY <1>5, <2>2 DEF QueueTypes
  <2>5. QueueTypes(queue')
    BY <1>5, <2>2, <2>3 DEF QueueTypes
  <2>6. ASSUME NEW r \in Socks, NEW j \in 1..Len(queue[r])
        PROVE  /\ queue'[r][j].who = queue[r][j].who /\ queue'[r][j].method = queue[r][j].method
               /\ queue'[r][j].res = IF r = s /\ j = i THEN a ELSE queue[r][j].res
    BY <2>1, <2>3, <2>4
  <2> QED BY <2>3, <2>4, <2>5, <2>6
<1>9. QueueInv'
  <2>1. Awaited(queue', task')
    <3> SUFFICES ASSUME NEW r \in Socks, NEW j \in 1..Len(queue'[r]), queue'[r][j].who # "none"
                 PROVE  task'[queue'[r][j].who].pc = "reply"
                        /\ task'[queue'[r][j].who].method = queue'[r][j].method
      BY Zenon DEF Awaited
    <3>1. /\ j \in 1..Len(queue[r]) /\ queue'[r][j].who = queue[r][j].who
          /\ queue'[r][j].method = queue[r][j].method
      BY <1>8
    <3> QED BY <1>3, <3>1 DEF Inv, QueueInv, Awaited
  <2>2. Single(queue')
    <3> SUFFICES ASSUME NEW r \in Socks, NEW z \in Socks, NEW j \in 1..Len(queue'[r]),
                        NEW n \in 1..Len(queue'[z]),
                        queue'[r][j].who = queue'[z][n].who, queue'[r][j].who # "none"
                 PROVE  r = z /\ j = n
      BY DEF Single
    <3>1. /\ j \in 1..Len(queue[r]) /\ queue'[r][j].who = queue[r][j].who
          /\ n \in 1..Len(queue[z]) /\ queue'[z][n].who = queue[z][n].who
      BY <1>8
    <3>2. queue[r][j].who = queue[z][n].who /\ queue[r][j].who # "none"
      BY <3>1
    <3>3. Single(queue)
      BY DEF Inv, QueueInv
    <3> QED BY <3>1, <3>2, <3>3 DEF Single
  <2> QED BY <1>8, <2>1, <2>2, QueueFits DEF QueueInv, QueueTypes, Awaited, Single
<1>10. OldUp' \subseteq OldUp /\ OldInv'
  <2>1. CASE UNCHANGED <<proc, file>>
    BY <1>3, <2>1 DEF OldUp, Inv, OldInv
  <2>2. CASE proc' = [proc EXCEPT ![d] = "dead"] /\ file' = 0
    <3>1. \A e \in Daemons : proc'[e] = IF e = d THEN "dead" ELSE proc[e]
      BY <1>0, <2>2 DEF Inv, WorldTypes
    <3>2. \A o \in OldUp : o = d
      BY <1>0 DEF Inv, OldInv, OldUp, WorldTypes
    <3>3. OldUp' = {}
      BY <1>3, <3>1, <3>2 DEF OldUp, Inv, WorldTypes
    <3> QED BY <1>3, <3>1, <3>3 DEF Inv, OldInv, WorldTypes
  <2> QED BY <1>1, <2>1, <2>2
<1>11. Steady
  BY <1>3 DEF Steady
<1>12. ConnInv'
  BY <1>3, <1>11, ConnSteady DEF Inv
<1>13. Trying' /\ FlagTypes' /\ TaskInv'
  BY <1>3 DEF Inv, Trying, FlagTypes, TaskInv, Fits
<1>14. VersionInv'
  <2> SUFFICES ASSUME NEW o \in OldUp'
               PROVE  /\ \A r \in Socks : conn'[r].st = "open" => conn'[r].to = o
                      /\ NoYes(queue') /\ (socket' # 0 => degraded' \/ Checking(task'))
    BY DEF VersionInv, NoYes, Checking
  <2>1. /\ \A r \in Socks : conn[r].st = "open" => conn[r].to = o
        /\ NoYes(queue) /\ (socket # 0 => degraded \/ Checking(task))
    BY <1>10 DEF Inv, VersionInv
  <2>2. d = o /\ d \in old
    BY <1>0, <1>10, <2>1 DEF d, OldUp
  <2>3. NoYes(queue')
    <3> SUFFICES ASSUME NEW r \in Socks, NEW j \in 1..Len(queue'[r]), queue'[r][j].method = "info"
                 PROVE  queue'[r][j].res # "yes"
      BY DEF NoYes
    <3>1. /\ j \in 1..Len(queue[r]) /\ queue[r][j].method = "info"
          /\ queue'[r][j].res = IF r = s /\ j = i THEN a ELSE queue[r][j].res
      BY <1>8
    <3> QED BY <1>4, <2>1, <2>2, <3>1 DEF NoYes, m
  <2> QED BY <1>3, <2>1, <2>3
<1> QED BY <1>7, <1>9, <1>10, <1>12, <1>13, <1>14 DEF Inv

(***************************************************************************)
(* Connections                                                             *)
(***************************************************************************)
\* A connection is opened, to the process just looked for or to the one known
\* before.
LEMMA OpensKeeps ==
  ASSUME Inv, NEW k \in Connectors, Opens(k)
  PROVE  Inv'
<1>1. PICK s \in Socks : /\ conn[s].st = "closed"
                         /\ conn' = [conn EXCEPT ![s] = [st |-> "opening", to |-> endpoint', by |-> k]]
  BY DEF Opens
<1>2. /\ task[k].pc = "pid" /\ task' = [task EXCEPT ![k].pc = "open", ![k].ep = 0] /\ k \in Tasks
      /\ UNCHANGED <<proc, file, wanted, old, queue, socket, timer, desired, lastPid, degraded>>
      /\ UNCHANGED <<ensuring, ready, gone, ever>>
  BY Names DEF Opens, world, history
<1>3. endpoint # 0 /\ task[k] \in TaskRecords /\ Fits(k, task[k], endpoint)
  BY <1>2 DEF Inv, TaskInv, Fits
<1>4. endpoint' \in Pids /\ endpoint' # 0 /\ (Fault \/ NoFault)
  BY <1>3 DEF Opens, Alive, Inv, WorldTypes, TaskRecords
<1>5. WorldTypes' /\ FlagTypes'
  BY <1>2, <1>4, FaultFits DEF Inv, WorldTypes, FlagTypes
<1> DEFINE rec == [task[k] EXCEPT !.pc = "open", !.ep = 0]
<1>6. /\ rec \in TaskRecords /\ rec.pc = "open" /\ rec.method = task[k].method
  BY <1>3 DEF TaskRecords, Pcs, Pids
<1>7. task' = [task EXCEPT ![k] = rec]
  BY <1>2 DEF Inv, TaskInv, TaskRecords
<1> HIDE DEF rec
<1>8. task' \in [Tasks -> TaskRecords] /\ \A u \in Tasks : task'[u] = IF u = k THEN rec ELSE task[u]
  BY <1>6, <1>7 DEF Inv, TaskInv
<1>9. TaskInv'
  BY <1>3, <1>4, <1>6, <1>8 DEF Inv, TaskInv, Fits
<1>10. Steady
  BY <1>2, <1>8 DEF Steady
<1>11. QueueInv'
  BY <1>2, <1>10, QueueSteady DEF Inv
<1>12. /\ conn' \in [Socks -> ConnRecords]
       /\ \A r \in Socks : conn'[r] = IF r = s THEN [st |-> "opening", to |-> endpoint', by |-> k] ELSE conn[r]
  BY <1>1, <1>4 DEF Inv, ConnInv, ConnRecords
<1>13. ConnInv'
  <2>1. \A r \in Socks : conn[r].st = "opening" =>
           /\ conn[r].by \in Connectors /\ conn[r].by # k /\ task'[conn[r].by].pc = "open"
    BY <1>2, <1>8, Names DEF Inv, ConnInv
  <2>2. \A r \in Socks : conn'[r].st # "closed" => conn'[r].to # 0
    BY <1>4, <1>12 DEF Inv, ConnInv
  <2>3. \A r \in Socks : conn'[r].st = "opening" =>
           conn'[r].by \in Connectors /\ task'[conn'[r].by].pc = "open"
    <3> SUFFICES ASSUME NEW r \in Socks, conn'[r].st = "opening"
                 PROVE  conn'[r].by \in Connectors /\ task'[conn'[r].by].pc = "open"
      OBVIOUS
    <3>1. CASE r = s
      <4>1. conn'[r].by = k
        BY <1>12, <3>1
      <4> QED BY <1>2, <1>6, <1>8, <4>1
    <3>2. CASE r # s
      <4>1. conn'[r] = conn[r]
        BY <1>12, <3>2
      <4> QED BY <2>1, <4>1
    <3> QED BY <3>1, <3>2
  <2>4. \A r, z \in Socks :
           conn'[r].st = "opening" /\ conn'[z].st = "opening" /\ conn'[r].by = conn'[z].by => r = z
    BY <1>12, <2>1 DEF Inv, ConnInv
  <2>5. socket' \in {0} \cup Socks /\ (socket' # 0 => conn'[socket'].st = "open")
    BY <1>1, <1>2, <1>12 DEF Inv, ConnInv
  <2> QED BY <1>12, <2>2, <2>3, <2>4, <2>5 DEF ConnInv
<1>14. Trying'
  <2>1. \A c \in Closures : task[c].pc \in Connecting => task'[c].pc \in Connecting
    BY <1>6, <1>8, Names DEF Connecting
  <2> QED BY <1>2, <2>1, TryingSteady DEF Inv
<1>15. OldInv' /\ OldUp' = OldUp
  BY <1>2, OldSteady DEF Inv
<1>16. VersionInv'
  <2>1. Checking(task) => Checking(task')
    BY <1>10, Names DEF Steady, Checking
  <2>2. \A r \in Socks : conn'[r].st = "open" => conn[r].st = "open" /\ conn'[r].to = conn[r].to
    BY <1>12
  <2> QED BY <1>2, <1>15, <2>1, <2>2 DEF Inv, VersionInv, NoYes
<1> QED BY <1>5, <1>9, <1>11, <1>13, <1>14, <1>15, <1>16 DEF Inv

\* A connection is established: it becomes this.socket, and the version is asked.
LEMMA ConnectsKeeps ==
  ASSUME Inv, NEW s \in Socks, Connects(s)
  PROVE  Inv'
<1> DEFINE k == conn[s].by
           e == [who |-> k, method |-> "info", res |-> "none"]
<1>1. /\ conn[s].st = "opening" /\ proc[conn[s].to] = "up" /\ conn' = [conn EXCEPT ![s].st = "open"]
      /\ socket' = s /\ task' = [task EXCEPT ![k].pc = "reply", ![k].method = "info"]
      /\ queue' = [queue EXCEPT ![s] = <<e>>] /\ ever' = TRUE
      /\ UNCHANGED <<proc, file, wanted, old, faults, endpoint, timer, desired, lastPid, degraded>>
      /\ UNCHANGED <<ensuring, ready, gone>>
  BY DEF Connects, world
<1>2. k \in Connectors /\ k \in Tasks /\ task[k].pc = "open" /\ k # "none"
  BY <1>1, Names DEF Inv, ConnInv
<1>3. WorldTypes' /\ FlagTypes'
  BY <1>1 DEF Inv, WorldTypes, FlagTypes
<1>4. endpoint # 0 /\ task[k] \in TaskRecords
  BY <1>2 DEF Inv, TaskInv, Fits
<1> DEFINE rec == [task[k] EXCEPT !.pc = "reply", !.method = "info"]
<1>5. rec \in TaskRecords /\ rec.pc = "reply" /\ rec.method = "info"
  BY <1>4 DEF TaskRecords, Pcs, Methods
<1>6. task' = [task EXCEPT ![k] = rec]
  BY <1>1, <1>2 DEF Inv, TaskInv, TaskRecords
<1>7. e \in Entries /\ e.who = k /\ e.method = "info" /\ e.res = "none"
  BY <1>2 DEF Entries, Methods
<1> HIDE DEF rec, k
<1>8. task' \in [Tasks -> TaskRecords] /\ \A u \in Tasks : task'[u] = IF u = k THEN rec ELSE task[u]
  BY <1>2, <1>5, <1>6 DEF Inv, TaskInv
<1>9. TaskInv'
  <2>1. Fits(k, rec, endpoint)
    BY <1>2, <1>4, <1>5, Names DEF Fits
  <2> QED BY <1>1, <1>8, <2>1 DEF Inv, TaskInv, Fits
<1>10. NoEntry(queue, k)
  BY <1>2, NoEntryUnlessReply DEF Inv
<1> HIDE DEF e
<1>11. /\ QueueTypes(queue') /\ Len(<<e>>) = 1 /\ <<e>>[1] = e
       /\ \A r \in Socks : queue'[r] = IF r = s THEN <<e>> ELSE queue[r]
  BY <1>1, <1>7 DEF Inv, QueueInv, QueueTypes
<1>12. \A r \in Socks : \A i \in 1..Len(queue'[r]) :
          \/ r = s /\ i = 1 /\ queue'[r][i] = e
          \/ i \in 1..Len(queue[r]) /\ queue'[r][i] = queue[r][i] /\ queue[r][i].who # k
  BY <1>10, <1>11 DEF NoEntry
<1>13. QueueInv'
  <2>1. Awaited(queue', task')
    <3> SUFFICES ASSUME NEW r \in Socks, NEW i \in 1..Len(queue'[r]), queue'[r][i].who # "none"
                 PROVE  task'[queue'[r][i].who].pc = "reply"
                        /\ task'[queue'[r][i].who].method = queue'[r][i].method
      BY Zenon DEF Awaited
    <3>1. CASE queue'[r][i] = e
      BY <1>2, <1>5, <1>7, <1>8, <3>1
    <3>2. CASE queue'[r][i] # e
      <4>1. i \in 1..Len(queue[r]) /\ queue'[r][i] = queue[r][i] /\ queue[r][i].who # k
        BY <1>12, <3>2
      <4>2. queue[r][i].who \in Tasks
        BY <4>1, EntryTypes DEF Inv, QueueInv, Entries
      <4> QED BY <1>8, <4>1, <4>2 DEF Inv, QueueInv, Awaited
    <3> QED BY <3>1, <3>2
  <2>2. Single(queue')
    <3> SUFFICES ASSUME NEW r \in Socks, NEW z \in Socks, NEW i \in 1..Len(queue'[r]),
                        NEW j \in 1..Len(queue'[z]),
                        queue'[r][i].who = queue'[z][j].who, queue'[r][i].who # "none"
                 PROVE  r = z /\ i = j
      BY DEF Single
    <3>1. CASE queue'[r][i].who = k
      <4>1. r = s /\ i = 1
        BY <1>12, <3>1
      <4>2. z = s /\ j = 1
        BY <1>12, <3>1
      <4> QED BY <4>1, <4>2
    <3>2. CASE queue'[r][i].who # k
      <4>1. /\ i \in 1..Len(queue[r]) /\ queue'[r][i] = queue[r][i]
            /\ j \in 1..Len(queue[z]) /\ queue'[z][j] = queue[z][j]
        BY <1>7, <1>12, <3>2
      <4> QED BY <4>1 DEF Inv, QueueInv, Single
    <3> QED BY <3>1, <3>2
  <2> QED BY <1>11, <2>1, <2>2, QueueFits DEF QueueInv, QueueTypes, Awaited, Single
<1>14. /\ conn' \in [Socks -> ConnRecords] /\ conn'[s].st = "open" /\ conn'[s].to = conn[s].to
       /\ \A r \in Socks : r # s => conn'[r] = conn[r]
  BY <1>1 DEF Inv, ConnInv, ConnRecords
<1>15. ConnInv'
  <2>1. \A r \in Socks : conn'[r].st = "opening" => r # s /\ conn[r].by # k
    BY <1>1, <1>14 DEF Inv, ConnInv, k
  <2>2. \A r \in Socks : conn'[r].st # "closed" => conn'[r].to # 0
    BY <1>1, <1>14 DEF Inv, ConnInv
  <2>3. \A r \in Socks : conn'[r].st = "opening" =>
           conn'[r].by \in Connectors /\ task'[conn'[r].by].pc = "open"
    BY <1>8, <1>14, <2>1, Names DEF Inv, ConnInv
  <2>4. \A r, z \in Socks :
           conn'[r].st = "opening" /\ conn'[z].st = "opening" /\ conn'[r].by = conn'[z].by => r = z
    BY <1>14, <2>1 DEF Inv, ConnInv
  <2> QED BY <1>1, <1>14, <2>2, <2>3, <2>4 DEF ConnInv
<1>16. Trying'
  BY <1>1 DEF Trying, Socks
<1>17. OldInv' /\ OldUp' = OldUp
  BY <1>1, OldSteady DEF Inv
<1>18. VersionInv'
  <2>1. Checking(task')
    BY <1>2, <1>5, <1>8 DEF Checking
  <2>2. \A o \in OldUp : conn[s].to = o
    <3>1. conn[s].to \in Daemons
      BY <1>1 DEF Inv, ConnInv, ConnRecords, Pids
    <3> QED BY <1>1, <3>1 DEF Inv, OldInv
  <2>3. NoYes(queue) => NoYes(queue')
    <3> SUFFICES ASSUME NoYes(queue), NEW r \in Socks, NEW i \in 1..Len(queue'[r])
                 PROVE  queue'[r][i].method = "info" => queue'[r][i].res # "yes"
      BY DEF NoYes
    <3> QED BY <1>7, <1>12 DEF NoYes
  <2> QED BY <1>14, <1>17, <2>1, <2>2, <2>3 DEF Inv, VersionInv
<1> QED BY <1>3, <1>9, <1>13, <1>15, <1>16, <1>17, <1>18 DEF Inv

\* A connection is refused: its connectOnce sleeps.
LEMMA ConnectRefusedKeeps ==
  ASSUME Inv, NEW s \in Socks, ConnectRefused(s)
  PROVE  Inv'
<1> DEFINE k == conn[s].by
<1>1. /\ conn[s].st = "opening" /\ (Fault \/ NoFault) /\ conn' = [conn EXCEPT ![s] = Closed]
      /\ task' = [task EXCEPT ![k].pc = "sleep"]
      /\ UNCHANGED <<proc, file, wanted, old, queue, endpoint, socket, timer, desired, lastPid>>
      /\ UNCHANGED <<degraded, ensuring, ready, gone, ever>>
  BY DEF ConnectRefused, world, fields, history
<1>2. k \in Connectors /\ k \in Tasks /\ task[k].pc = "open"
  BY <1>1, Names DEF Inv, ConnInv
<1>3. WorldTypes' /\ FlagTypes'
  BY <1>1, FaultFits DEF Inv, WorldTypes, FlagTypes
<1>4. endpoint # 0 /\ task[k] \in TaskRecords
  BY <1>2 DEF Inv, TaskInv, Fits
<1> DEFINE rec == [task[k] EXCEPT !.pc = "sleep"]
<1>5. rec \in TaskRecords /\ rec.pc = "sleep" /\ rec.method = task[k].method
  BY <1>4 DEF TaskRecords, Pcs
<1>6. task' = [task EXCEPT ![k] = rec]
  BY <1>1, <1>2 DEF Inv, TaskInv, TaskRecords
<1> HIDE DEF rec, k
<1>7. task' \in [Tasks -> TaskRecords] /\ \A u \in Tasks : task'[u] = IF u = k THEN rec ELSE task[u]
  BY <1>2, <1>5, <1>6 DEF Inv, TaskInv
<1>8. TaskInv'
  <2>1. Fits(k, rec, endpoint)
    BY <1>2, <1>4, <1>5, Names DEF Fits
  <2> QED BY <1>1, <1>7, <2>1 DEF Inv, TaskInv, Fits
<1>9. QueueInv'
  <2>1. \A u \in Tasks : NoEntry(queue, u) \/
          (task[u].pc = "reply" => task'[u].pc = "reply" /\ task'[u].method = task[u].method)
    BY <1>2, <1>7
  <2>2. Awaited(queue, task')
    BY <2>1, AwaitedAfter DEF Inv, QueueInv
  <2> QED BY <1>1, <2>2, QueueFits DEF Inv, QueueInv
<1>10. Closed \in ConnRecords /\ Closed.st = "closed"
  BY DEF Closed, ConnRecords, Pids
<1>11. conn' \in [Socks -> ConnRecords] /\ \A r \in Socks : conn'[r] = IF r = s THEN Closed ELSE conn[r]
  BY <1>1, <1>10 DEF Inv, ConnInv
<1>12. ConnInv'
  <2>1. \A r \in Socks : conn'[r].st # "closed" => r # s /\ conn'[r] = conn[r]
    BY <1>10, <1>11
  <2>2. \A r \in Socks : conn'[r].st = "opening" => conn[r].by # k /\ conn[r].by \in Connectors
    BY <1>1, <2>1 DEF Inv, ConnInv, k
  <2>3. \A r \in Socks : conn'[r].st = "opening" =>
           conn'[r].by \in Connectors /\ task'[conn'[r].by].pc = "open"
    BY <1>7, <2>1, <2>2, Names DEF Inv, ConnInv
  <2>4. socket' # 0 => conn'[socket'].st = "open"
    BY <1>1, <1>11 DEF Inv, ConnInv
  <2>5. \A r, z \in Socks :
           conn'[r].st = "opening" /\ conn'[z].st = "opening" /\ conn'[r].by = conn'[z].by => r = z
    BY <2>1 DEF Inv, ConnInv
  <2>6. \A r \in Socks : conn'[r].st # "closed" => conn'[r].to # 0
    BY <2>1 DEF Inv, ConnInv
  <2> QED BY <1>1, <1>11, <2>3, <2>4, <2>5, <2>6 DEF Inv, ConnInv
<1>13. Trying'
  <2>1. \A c \in Closures : task[c].pc \in Connecting => task'[c].pc \in Connecting
    BY <1>5, <1>7, Names DEF Connecting
  <2> QED BY <1>1, <2>1, TryingSteady DEF Inv
<1>14. OldInv' /\ OldUp' = OldUp
  BY <1>1, OldSteady DEF Inv
<1>15. VersionInv'
  <2>1. Checking(task) => Checking(task')
    BY <1>2, <1>7, Names DEF Checking
  <2>2. \A r \in Socks : conn'[r].st = "open" => conn[r].st = "open" /\ conn'[r].to = conn[r].to
    BY <1>10, <1>11
  <2> QED BY <1>1, <1>14, <2>1, <2>2 DEF Inv, VersionInv, NoYes
<1> QED BY <1>3, <1>8, <1>9, <1>12, <1>13, <1>14, <1>15 DEF Inv

\* An answer arrives.
LEMMA RepliesKeeps ==
  ASSUME Inv, NEW s \in Socks, Replies(s)
  PROVE  Inv'
<1> DEFINE e == Head(queue[s])
           q == [queue EXCEPT ![s] = Tail(@)]
<1>1. /\ queue[s] # <<>>
      /\ UNCHANGED <<world, faults, conn, endpoint, socket, timer, ensuring, ready, gone, ever>>
      /\ IF e.who = "none"
           THEN queue' = q /\ UNCHANGED <<task, degraded, lastPid, desired>>
           ELSE Ends(e.who, e.res, q)
  BY DEF Replies
<1>2. QueueTypes(queue) /\ Awaited(queue, task) /\ Single(queue)
  BY DEF Inv, QueueInv
<1>3. /\ QueueTypes(q) /\ (NoYes(queue) => NoYes(q)) /\ Single(q) /\ Awaited(q, task)
      /\ e.who # "none" => NoEntry(q, e.who)
  <2>1. \A T : Awaited(queue, T) => Awaited(q, T)
    BY <1>1, <1>2, TailFits, Zenon
  <2> QED BY <1>1, <1>2, <2>1, TailFits
<1>4. 1 \in 1..Len(queue[s]) /\ e = queue[s][1] /\ e \in Entries
  BY <1>1, <1>2, EntryTypes, EmptySeq
<1> HIDE DEF q
<1>5. CASE e.who = "none"
  <2>1. /\ queue' = q /\ UNCHANGED <<proc, file, wanted, old, faults, conn, endpoint, socket, timer>>
        /\ UNCHANGED <<ensuring, ready, gone, ever, task, degraded, lastPid, desired>>
    BY <1>1, <1>5 DEF world
  <2>2. Steady
    BY <2>1 DEF Steady
  <2>3. WorldTypes' /\ FlagTypes' /\ TaskInv' /\ Trying'
    BY <2>1 DEF Inv, WorldTypes, FlagTypes, TaskInv, Fits, Trying
  <2>4. Awaited(q, task')
    BY <1>3, <2>1
  <2>5. QueueInv' /\ (NoYes(q) => NoYes(queue'))
    BY <1>3, <2>1, <2>4, QueueFits
  <2>6. ConnInv'
    BY <2>1, <2>2, ConnSteady DEF Inv
  <2>7. OldInv' /\ OldUp' = OldUp
    BY <2>1, OldSteady DEF Inv
  <2>8. VersionInv'
    <3>1. Checking(task) => Checking(task')
      BY <2>1
    <3> QED BY <1>3, <2>1, <2>5, <2>7, <3>1 DEF Inv, VersionInv
  <2> QED BY <2>3, <2>5, <2>6, <2>7, <2>8 DEF Inv
<1>6. CASE e.who # "none"
  <2>1. e.who \in Tasks /\ task[e.who].pc = "reply" /\ task[e.who].method = e.method
    BY <1>2, <1>4, <1>6 DEF Entries, Awaited
  <2>2. OldUp # {} => NoYes(queue)
    BY DEF Inv, VersionInv
  <2>3. OldUp # {} => NoYes(q) /\ (task[e.who].method = "info" => e.res # "yes")
    BY <1>3, <1>4, <2>1, <2>2 DEF NoYes
  <2>4. faults' \in 0..MaxFaults
    BY <1>1 DEF Inv, WorldTypes
  <2>5. Ends(e.who, e.res, q)
    BY <1>1, <1>6
  <2> HIDE DEF e
  <2> QED BY <1>1, <1>3, <1>6, <2>1, <2>3, <2>4, <2>5, EndsKeeps
<1> QED BY <1>5, <1>6

\* A request's timer fires.
LEMMA TimesOutKeeps ==
  ASSUME Inv, NEW t \in Tasks, TimesOut(t)
  PROVE  Inv'
<1> DEFINE p == [s \in Socks |-> Forget(queue[s], {t})]
<1>1. /\ task[t].pc = "reply" /\ (Fault \/ NoFault) /\ Ends(t, "fail", p)
      /\ UNCHANGED <<world, conn, endpoint, socket, timer, ensuring, ready, gone, ever>>
  BY DEF TimesOut
<1>2. QueueTypes(queue) /\ Awaited(queue, task) /\ Single(queue) /\ t \in {t} \ {"none"}
  BY Names DEF Inv, QueueInv
<1>3. Forgotten(p, queue, {}, {t})
  BY DEF Forgotten
<1> HIDE DEF p
<1>4. /\ QueueTypes(p) /\ (NoYes(queue) => NoYes(p)) /\ Single(p) /\ NoEntry(p, t)
  BY <1>2, <1>3, ForgetFits
<1>5. Awaited(p, task)
  <2>1. \A T : Awaited(queue, T) => Awaited(p, T)
    BY <1>2, <1>3, ForgetFits
  <2> QED BY <1>2, <2>1
<1>6. OldUp # {} => NoYes(p)
  BY <1>4 DEF Inv, VersionInv
<1>7. faults' \in 0..MaxFaults
  BY <1>1, FaultFits DEF Inv, WorldTypes
<1>8. "fail" # "yes"
  OBVIOUS
<1> QED BY <1>1, <1>4, <1>5, <1>6, <1>7, <1>8, EndsKeeps

\* A connection is lost.
LEMMA ClosesKeeps ==
  ASSUME Inv, NEW s \in Socks, Closes(s)
  PROVE  Inv'
<1>1. /\ conn[s].st = "open" /\ conn' = [conn EXCEPT ![s] = Closed]
      /\ UNCHANGED <<proc, file, wanted, old, faults, endpoint, desired, ensuring, ready, gone, ever>>
  BY DEF Closes, world, history
<1>2. Closed \in ConnRecords /\ Closed.st = "closed"
  BY DEF Closed, ConnRecords, Pids
<1>3. conn' \in [Socks -> ConnRecords] /\ \A r \in Socks : conn'[r] = IF r = s THEN Closed ELSE conn[r]
  BY <1>1, <1>2 DEF Inv, ConnInv
<1>4. QueueTypes(queue) /\ Awaited(queue, task) /\ Single(queue) /\ TaskInv /\ file \in Pids
  BY DEF Inv, QueueInv, WorldTypes
<1>5. OldInv' /\ OldUp' = OldUp
  BY <1>1, OldSteady DEF Inv
<1>6. ASSUME \A u \in Connectors : task[u].pc = "open" => task'[u].pc = "open",
             socket' = IF socket = s THEN 0 ELSE socket
      PROVE  ConnInv'
  <2>1. \A r \in Socks : conn'[r].st # "closed" => r # s /\ conn'[r] = conn[r]
    BY <1>2, <1>3
  <2>2. \A r \in Socks : conn'[r].st # "closed" => conn'[r].to # 0
    BY <2>1 DEF Inv, ConnInv
  <2>3. \A r \in Socks : conn'[r].st = "opening" =>
           conn'[r].by \in Connectors /\ task'[conn'[r].by].pc = "open"
    BY <1>6, <2>1 DEF Inv, ConnInv
  <2>4. \A r, z \in Socks :
           conn'[r].st = "opening" /\ conn'[z].st = "opening" /\ conn'[r].by = conn'[z].by => r = z
    BY <2>1 DEF Inv, ConnInv
  <2>5. socket' \in {0} \cup Socks /\ (socket' # 0 => conn'[socket'].st = "open")
    BY <1>3, <1>6 DEF Inv, ConnInv
  <2> QED BY <1>3, <2>2, <2>3, <2>4, <2>5 DEF ConnInv
<1>7. ASSUME NoYes(queue) => NoYes(queue'),
             socket' # 0 => socket # 0 /\ UNCHANGED degraded /\ (Checking(task) => Checking(task'))
      PROVE  VersionInv'
  <2>1. \A r \in Socks : conn'[r].st = "open" => conn[r].st = "open" /\ conn'[r].to = conn[r].to
    BY <1>2, <1>3
  <2> QED BY <1>5, <1>7, <2>1 DEF Inv, VersionInv
<1>8. CASE socket = s
  <2>1. /\ socket' = 0 /\ timer' = TRUE
        /\ queue' = [r \in Socks |-> IF r = s THEN <<>> ELSE Forget(queue[r], Waiting)]
        /\ task' = [t \in Tasks |->
             IF t \in Waiting THEN IF t \in Users THEN CallFails(t) ELSE Idle
             ELSE IF "merged" \in Waiting THEN MergedEnds(TRUE)[t] ELSE task[t]]
        /\ degraded' \in BOOLEAN /\ lastPid' \in Pids
    BY <1>8 DEF Closes, ScheduleReconnect, CheckProtocolVersion, Inv, FlagTypes, WorldTypes
  <2>2. WorldTypes' /\ FlagTypes'
    BY <1>1, <2>1 DEF Inv, WorldTypes, FlagTypes
  <2> DEFINE p == [r \in Socks |-> IF r = s THEN <<>> ELSE Forget(queue[r], Waiting)]
  <2>3. queue' = p /\ Forgotten(p, queue, {s}, Waiting)
    BY <2>1 DEF Forgotten
  <2> HIDE DEF p
  <2>4. /\ QueueTypes(p) /\ (NoYes(queue) => NoYes(p)) /\ Single(p)
        /\ \A t \in Waiting \ {"none"} : NoEntry(p, t)
    BY <1>4, <2>3, ForgetFits
  <2>5. Awaited(p, task)
    <3>1. \A T : Awaited(queue, T) => Awaited(p, T)
      BY <1>4, <2>3, ForgetFits
    <3> QED BY <1>4, <3>1
  <2>6. ASSUME NEW t \in Tasks PROVE task'[t] \in TaskRecords /\ Fits(t, task'[t], endpoint)
    <3>1. CASE t \in Waiting /\ t \in Users
      BY <1>4, <2>1, <3>1, CallFailsFits
    <3>2. CASE t \in Waiting /\ t \notin Users
      <4>1. Idle \in TaskRecords /\ Fits(t, Idle, endpoint)
        BY <1>4, Records DEF Fits
      <4> QED BY <2>1, <3>2, <4>1
    <3>3. CASE t \notin Waiting /\ "merged" \in Waiting
      <4>1. MergedEnds(TRUE)[t] \in TaskRecords /\ Fits(t, MergedEnds(TRUE)[t], endpoint)
        BY <1>4, MergedEndsFits
      <4> QED BY <2>1, <3>3, <4>1
    <3>4. CASE t \notin Waiting /\ "merged" \notin Waiting
      BY <1>4, <2>1, <3>4 DEF TaskInv
    <3> QED BY <3>1, <3>2, <3>3, <3>4
  <2>7. TaskInv'
    <3>1. task' \in [Tasks -> TaskRecords]
      BY <2>1, <2>6
    <3> QED BY <1>1, <2>6, <3>1 DEF TaskInv
  <2>8. Awaited(p, task')
    <3>1. \A u \in Tasks : NoEntry(p, u) \/
            (task[u].pc = "reply" => task'[u].pc = "reply" /\ task'[u].method = task[u].method)
      BY <2>4, Names DEF Waiting
    <3> QED BY <2>4, <2>5, <3>1, AwaitedAfter
  <2>9. QueueInv' /\ (NoYes(p) => NoYes(queue'))
    BY <2>3, <2>4, <2>8, QueueFits
  <2>10. \A u \in Connectors : task[u].pc = "open" => task'[u].pc = "open"
    <3> SUFFICES ASSUME NEW u \in Connectors, task[u].pc = "open" PROVE task'[u] = task[u]
      OBVIOUS
    <3>1. u \in Tasks /\ u \notin Waiting
      BY Names DEF Waiting
    <3>2. "merged" \in Waiting => u # "merged" /\ MergedEnds(TRUE)[u] = task[u]
      BY <1>4, <3>1, MergedEndsFits
    <3> QED BY <2>1, <3>1, <3>2
  <2>11. ConnInv'
    BY <1>6, <1>8, <2>1, <2>10
  <2>12. VersionInv'
    BY <1>7, <2>1, <2>4, <2>9
  <2>13. Trying'
    BY <2>1 DEF Trying
  <2> QED BY <1>5, <2>2, <2>7, <2>9, <2>11, <2>12, <2>13 DEF Inv
<1>9. CASE socket # s
  <2>1. /\ queue' = [queue EXCEPT ![s] = <<>>]
        /\ UNCHANGED <<socket, timer, task, degraded, lastPid>>
    BY <1>9 DEF Closes
  <2>2. WorldTypes' /\ FlagTypes' /\ TaskInv' /\ Trying'
    BY <1>1, <2>1 DEF Inv, WorldTypes, FlagTypes, TaskInv, Fits, Trying
  <2>3. /\ QueueTypes(queue')
        /\ \A r \in Socks : \A i \in 1..Len(queue'[r]) : i \in 1..Len(queue[r]) /\ queue'[r] = queue[r]
    <3>1. <<>> \in Seq(Entries) /\ Len(<<>>) = 0
      BY EmptySeq
    <3>2. QueueTypes(queue')
      BY <1>4, <2>1, <3>1 DEF QueueTypes
    <3>3. ASSUME NEW r \in Socks, NEW i \in 1..Len(queue'[r])
          PROVE  i \in 1..Len(queue[r]) /\ queue'[r] = queue[r]
      <4>1. r # s
        <5> SUFFICES ASSUME r = s PROVE FALSE
          OBVIOUS
        <5>1. queue'[r] = <<>>
          BY <1>4, <2>1 DEF QueueTypes
        <5>2. Len(queue'[r]) = 0
          BY <3>1, <5>1, Zenon
        <5> QED BY <5>2
      <4> QED BY <1>4, <2>1, <4>1 DEF QueueTypes
    <3> QED BY <3>2, <3>3
  <2>4. Awaited(queue', task') /\ Single(queue') /\ (NoYes(queue) => NoYes(queue'))
    <3>1. Awaited(queue', task')
      <4> SUFFICES ASSUME NEW r \in Socks, NEW i \in 1..Len(queue'[r]), queue'[r][i].who # "none"
                   PROVE  task'[queue'[r][i].who].pc = "reply"
                          /\ task'[queue'[r][i].who].method = queue'[r][i].method
        BY Zenon DEF Awaited
      <4> QED BY <1>4, <2>1, <2>3 DEF Awaited
    <3>2. Single(queue')
      <4> SUFFICES ASSUME NEW r \in Socks, NEW z \in Socks, NEW i \in 1..Len(queue'[r]),
                          NEW j \in 1..Len(queue'[z]),
                          queue'[r][i].who = queue'[z][j].who, queue'[r][i].who # "none"
                   PROVE  r = z /\ i = j
        BY DEF Single
      <4> QED BY <1>4, <2>3 DEF Single
    <3>3. NoYes(queue) => NoYes(queue')
      BY <2>3 DEF NoYes
    <3> QED BY <3>1, <3>2, <3>3
  <2>5. QueueInv'
    BY <2>3, <2>4 DEF QueueInv, QueueTypes, Awaited, Single
  <2>6. ConnInv'
    BY <1>6, <1>9, <2>1
  <2>7. VersionInv'
    BY <1>7, <2>1, <2>4
  <2> QED BY <1>5, <2>2, <2>5, <2>6, <2>7 DEF Inv
<1> QED BY <1>8, <1>9

(***************************************************************************)
(* Tasks                                                                   *)
(***************************************************************************)
\* A task that waits for nothing goes elsewhere.
LEMMA SetTask ==
  ASSUME TaskInv, NEW t \in Tasks, NEW rec \in TaskRecords, Fits(t, rec, endpoint'),
         endpoint' = endpoint \/ endpoint' # 0, task' = [task EXCEPT ![t] = rec],
         task[t].pc \notin {"open", "reply"}
  PROVE  TaskInv' /\ Steady /\ task'[t] = rec /\ \A u \in Tasks : u # t => task'[u] = task[u]
<1>1. task' \in [Tasks -> TaskRecords] /\ \A u \in Tasks : task'[u] = IF u = t THEN rec ELSE task[u]
  BY DEF TaskInv
<1>2. TaskInv'
  BY <1>1 DEF TaskInv, Fits
<1> QED BY <1>1, <1>2 DEF Steady

\* Who joins ensureDaemon finds it running, or begins it.
LEMMA JoinedTypes ==
  ASSUME WorldTypes
  PROVE  Joined \in [st : {"no", "look", "spawn"}, pid : Pids, seen : Pids]
BY DEF Joined, WorldTypes

\* A second after a failed attempt there is another, or connectOnce fails.
LEMMA WakesKeeps ==
  ASSUME Inv, NEW k \in Connectors, Wakes(k)
  PROVE  Inv'
<1>1. /\ task[k].pc = "sleep" /\ k \in Tasks
      /\ UNCHANGED <<world, faults, net, endpoint, socket, desired, lastPid, degraded, ensuring>>
      /\ UNCHANGED <<ready, gone, ever>>
  BY Names DEF Wakes, history
<1>2. TaskInv /\ file \in Pids /\ endpoint # 0 /\ timer \in BOOLEAN /\ k \notin Users
  BY <1>1, Names DEF Inv, WorldTypes, FlagTypes, TaskInv, Fits
<1>3. WorldTypes'
  BY <1>1 DEF Inv, WorldTypes, world
<1>4. CASE task[k].tries < Retries
  <2>1. task' = [task EXCEPT ![k] = Attempt(k)] /\ timer' = timer
    BY <1>4 DEF Wakes
  <2>2. Attempt(k) \in TaskRecords /\ Attempt(k).pc = "pid" /\ Fits(k, Attempt(k), endpoint)
    BY <1>2, <1>4, AttemptFits
  <2>3. TaskInv' /\ Steady /\ task'[k].pc = "pid" /\ \A u \in Tasks : u # k => task'[u] = task[u]
    BY <1>1, <1>2, <2>1, <2>2, SetTask
  <2>4. \A c \in Closures : task[c].pc \in Connecting => task'[c].pc \in Connecting
    BY <2>3, Names DEF Connecting
  <2>5. FlagTypes'
    BY <1>1, <2>1 DEF Inv, FlagTypes
  <2> QED BY <1>1, <1>3, <2>1, <2>3, <2>4, <2>5, TasksOnly
<1>5. CASE task[k].tries >= Retries /\ k = "merged"
  <2>1. task' = MergedEnds(FALSE) /\ timer' = timer
    <3>1. ~(task[k].tries < Retries)
      BY <1>1, <1>2, <1>5, RetriesAssumption DEF TaskInv, TaskRecords
    <3> QED BY <1>5, <3>1 DEF Wakes, ConnectFails
  <2>2. /\ task' \in [Tasks -> TaskRecords] /\ \A t \in Tasks : Fits(t, task'[t], endpoint)
        /\ \A t \in Tasks : t # "merged" /\ task[t].pc # "conn" => task'[t] = task[t]
        /\ \A c \in Closures : task'[c] = task[c]
    BY <1>2, <2>1, MergedEndsFits
  <2>3. TaskInv'
    BY <1>1, <2>2 DEF TaskInv
  <2>4. Steady
    BY <1>1, <1>5, <2>2 DEF Steady
  <2>5. FlagTypes'
    BY <1>1, <2>1 DEF Inv, FlagTypes
  <2> QED BY <1>1, <1>3, <2>1, <2>2, <2>3, <2>4, <2>5, TasksOnly
<1>6. CASE task[k].tries >= Retries /\ k # "merged"
  <2>1. task' = [task EXCEPT ![k] = Idle] /\ timer' = (timer \/ socket = 0)
    <3>1. ~(task[k].tries < Retries)
      BY <1>1, <1>2, <1>6, RetriesAssumption DEF TaskInv, TaskRecords
    <3> QED BY <1>6, <3>1 DEF Wakes, ConnectFails, ScheduleReconnect
  <2>2. Idle \in TaskRecords /\ Fits(k, Idle, endpoint)
    BY <1>1, <1>2, Records DEF Fits
  <2>3. TaskInv' /\ Steady /\ \A u \in Tasks : u # k => task'[u] = task[u]
    BY <1>1, <1>2, <2>1, <2>2, SetTask
  <2>4. FlagTypes'
    BY <1>1, <2>1 DEF Inv, FlagTypes
  <2>5. UNCHANGED <<proc, file, old, conn, queue>>
    BY <1>1 DEF world, net
  <2>6. ConnInv' /\ QueueInv' /\ OldInv' /\ OldUp' = OldUp
    BY <1>1, <2>3, <2>5, ConnSteady, QueueSteady, OldSteady DEF Inv
  <2>7. VersionInv'
    BY <1>1, <2>3, <2>5, <2>6, VersionSteady DEF Inv
  <2>8. Trying'
    BY <1>1, <2>1 DEF Trying
  <2> QED BY <1>3, <2>3, <2>4, <2>6, <2>7, <2>8 DEF Inv
<1>7. task[k].tries < Retries \/ task[k].tries >= Retries
  BY <1>1, <1>2, RetriesAssumption DEF TaskInv, TaskRecords
<1> QED BY <1>4, <1>5, <1>6, <1>7

\* ensureDaemon finds a process.
LEMMA EnsureFindsKeeps ==
  ASSUME Inv, EnsureFinds
  PROVE  Inv'
<1>1. /\ ensuring' = NoEnsure /\ task' = Resumed(TRUE)
      /\ UNCHANGED <<world, faults, net, socket, timer, desired, lastPid, degraded, ready, gone, ever>>
  BY DEF EnsureFinds, history
<1>2. endpoint' \in Pids /\ endpoint' # 0
  BY DEF EnsureFinds, Alive, Inv, WorldTypes
<1>3. TaskInv /\ file \in Pids /\ NoEnsure \in [st : {"no", "look", "spawn"}, pid : Pids, seen : Pids]
  BY DEF Inv, WorldTypes, NoEnsure, Pids
<1>4. WorldTypes' /\ FlagTypes'
  BY <1>1, <1>2, <1>3 DEF Inv, WorldTypes, FlagTypes, world
<1>5. /\ task' \in [Tasks -> TaskRecords] /\ \A t \in Tasks : Fits(t, task'[t], endpoint')
      /\ \A t \in Tasks : task[t].pc \notin {"ensure", "conn"} => task'[t] = task[t]
      /\ \A c \in Closures : task[c].pc # "ensure" => task'[c] = task[c]
      /\ \A c \in Closures : task[c].pc = "ensure" => task'[c].pc = "pid"
  <2> DEFINE ep == endpoint'
  <2>1. ep # 0
    BY <1>2
  <2> HIDE DEF ep
  <2>5. PICK ok \in BOOLEAN : ok = TRUE
    OBVIOUS
  <2> DEFINE M == Resumed(ok)
  <2>2. /\ M \in [Tasks -> TaskRecords] /\ \A t \in Tasks : Fits(t, M[t], ep)
        /\ \A t \in Tasks : task[t].pc \notin {"ensure", "conn"} => M[t] = task[t]
        /\ \A c \in Closures : task[c].pc # "ensure" => M[c] = task[c]
    <3>1. TaskInv /\ file \in Pids /\ Leads(ok, ep)
      BY <1>3, <2>1 DEF Leads
    <3> QED BY <3>1, ResumedFits
  <2>4. ASSUME NEW c \in Closures, task[c].pc = "ensure" PROVE M[c].pc = "pid"
    <3>1. c \in Tasks /\ c \in Connectors
      BY Names
    <3>2. M[c] = Attempt(c)
      BY <2>4, <2>5, <3>1 DEF Resumed
    <3>3. task[c].tries < Retries
      BY <1>3, <2>4, <3>1, RetriesAssumption DEF TaskInv, Fits
    <3>4. Attempt(c).pc = "pid"
      BY <1>3, <2>1, <3>1, <3>3, AttemptFits
    <3> HIDE DEF M
    <3> QED BY <3>2, <3>4
  <2> HIDE DEF M
  <2>3. task' = M
    BY <1>1, <2>5 DEF M
  <2> QED BY <2>2, <2>3, <2>4 DEF ep
<1>6. TaskInv' /\ Steady
  BY <1>5 DEF TaskInv, Steady
<1>7. \A c \in Closures : task[c].pc \in Connecting => task'[c].pc \in Connecting
  BY <1>5 DEF Connecting
<1> QED BY <1>1, <1>4, <1>6, <1>7, TasksOnly

\* ensureDaemon gives up: a closure that waited for it schedules another.
LEMMA EnsureGivesUpKeeps ==
  ASSUME Inv, EnsureGivesUp
  PROVE  Inv'
<1>1. /\ ensuring' = NoEnsure /\ task' = Resumed(FALSE) /\ (Fault \/ NoFault)
      /\ UNCHANGED <<world, net, endpoint, socket, desired, lastPid, degraded, ready, gone, ever>>
      /\ IF \E c \in Closures : task[c].pc = "ensure" THEN timer' = (timer \/ socket = 0)
                                                      ELSE UNCHANGED timer
  BY DEF EnsureGivesUp, SpawnWaitOver, ScheduleReconnect, history
<1>2. TaskInv /\ file \in Pids /\ NoEnsure \in [st : {"no", "look", "spawn"}, pid : Pids, seen : Pids]
  BY DEF Inv, WorldTypes, NoEnsure, Pids
<1>3. WorldTypes' /\ FlagTypes'
  BY <1>1, <1>2, FaultFits DEF Inv, WorldTypes, FlagTypes, world
<1>4. /\ task' \in [Tasks -> TaskRecords] /\ \A t \in Tasks : Fits(t, task'[t], endpoint)
      /\ \A t \in Tasks : task[t].pc \notin {"ensure", "conn"} => task'[t] = task[t]
      /\ \A c \in Closures : task[c].pc # "ensure" => task'[c] = task[c]
  <2>1. TaskInv /\ file \in Pids /\ Leads(FALSE, endpoint)
    BY <1>2 DEF Leads
  <2> QED BY <1>1, <2>1, ResumedFits
<1>5. TaskInv' /\ Steady
  BY <1>1, <1>4 DEF TaskInv, Steady
<1>6. UNCHANGED <<proc, file, old, conn, queue>>
  BY <1>1 DEF world, net
<1>7. ConnInv' /\ QueueInv' /\ OldInv' /\ OldUp' = OldUp
  BY <1>1, <1>5, <1>6, ConnSteady, QueueSteady, OldSteady DEF Inv
<1>8. VersionInv'
  BY <1>1, <1>5, <1>6, <1>7, VersionSteady DEF Inv
<1>9. Trying'
  <2>1. CASE \E c \in Closures : task[c].pc = "ensure"
    BY <1>1, <2>1 DEF Trying
  <2>2. CASE ~\E c \in Closures : task[c].pc = "ensure"
    BY <1>1, <1>4, <2>2, TryingSteady DEF Inv
  <2> QED BY <2>1, <2>2
<1> QED BY <1>3, <1>5, <1>7, <1>8, <1>9 DEF Inv

\* The back-off is over: unless there is a connection again, a closure begins.
LEMMA TimerFiresKeeps ==
  ASSUME Inv, TimerFires
  PROVE  Inv'
<1>1. /\ timer' = FALSE
      /\ UNCHANGED <<world, faults, net, endpoint, socket, desired, lastPid, degraded, ready, gone, ever>>
      /\ IF socket # 0 THEN UNCHANGED <<task, ensuring>>
         ELSE \E c \in Closures :
                /\ task[c] = Idle
                /\ task' = [task EXCEPT ![c] = [Idle EXCEPT !.pc = "ensure", !.prev = lastPid]]
                /\ ensuring' = Joined
  BY DEF TimerFires, history
<1>2. TaskInv /\ file \in Pids /\ lastPid \in Pids /\ WorldTypes
  BY DEF Inv, WorldTypes
<1>3. UNCHANGED <<proc, file, old, conn, queue>>
  BY <1>1 DEF world, net
<1>4. TaskInv' /\ Steady /\ Trying' /\ ensuring' \in {ensuring, Joined}
  <2>1. CASE socket # 0
    BY <1>1, <1>2, <2>1 DEF TaskInv, Fits, Steady, Trying
  <2>2. CASE socket = 0
    <3>1. PICK c \in Closures :
            /\ task[c] = Idle
            /\ task' = [task EXCEPT ![c] = [Idle EXCEPT !.pc = "ensure", !.prev = lastPid]]
            /\ ensuring' = Joined
      BY <1>1, <2>2
    <3> DEFINE rec == [Idle EXCEPT !.pc = "ensure", !.prev = lastPid]
    <3>2. c \in Tasks /\ c \in Connectors /\ c \notin Users
      BY Names
    <3>3. Idle \in TaskRecords /\ Idle.tries = 0 /\ Idle.pc = "idle"
      BY <1>2, <3>2, Records
    <3>4. rec \in TaskRecords /\ rec.pc = "ensure" /\ rec.tries = 0
      BY <1>2, <3>3 DEF TaskRecords, Pcs
    <3> HIDE DEF rec
    <3>5. Fits(c, rec, endpoint)
      BY <3>2, <3>4 DEF Fits
    <3>6. task[c].pc \notin {"open", "reply"}
      BY <3>1, <3>3
    <3>7. task' = [task EXCEPT ![c] = rec] /\ endpoint' = endpoint
      BY <1>1, <3>1 DEF rec
    <3>8. TaskInv' /\ Steady /\ task'[c] = rec
      BY <1>2, <3>2, <3>4, <3>5, <3>6, <3>7, SetTask
    <3>9. Trying'
      BY <3>4, <3>8 DEF Trying, Connecting
    <3> QED BY <3>1, <3>8, <3>9
  <2> QED BY <2>1, <2>2 DEF Inv, ConnInv
<1>5. WorldTypes' /\ FlagTypes'
  BY <1>1, <1>2, <1>4, JoinedTypes DEF Inv, WorldTypes, FlagTypes, world
<1>6. ConnInv' /\ QueueInv' /\ OldInv' /\ OldUp' = OldUp
  BY <1>1, <1>3, <1>4, ConnSteady, QueueSteady, OldSteady DEF Inv
<1>7. VersionInv'
  BY <1>1, <1>3, <1>4, <1>6, VersionSteady DEF Inv
<1> QED BY <1>4, <1>5, <1>6, <1>7 DEF Inv

\* A caller asks for a connection, or for none.
LEMMA UserAsksKeeps ==
  ASSUME Inv, NEW m \in {"status", "disconnect"}, UserAsks(m)
  PROVE  Inv'
<1>1. /\ "ui" \in Users /\ task["ui"] = Idle
      /\ UNCHANGED <<world, faults, conn, queue, endpoint, socket, timer, desired, lastPid, degraded>>
      /\ UNCHANGED <<net, ready, gone, ever>>
  BY DEF UserAsks, net, fields, history
<1>2. /\ TaskInv /\ file \in Pids /\ WorldTypes /\ "ui" \in Tasks /\ "ui" \notin Connectors
      /\ "ui" \notin Closures /\ m \in Methods /\ m # "info"
  BY <1>1, Names DEF Inv, WorldTypes, Methods
<1>3. Idle \in TaskRecords /\ Idle.pc = "idle"
  BY <1>2, Records
<1>4. ASSUME NEW rec \in TaskRecords, rec.pc # "idle", rec.method # "info",
             task' = [task EXCEPT !["ui"] = rec], ensuring' \in {ensuring, Joined}
      PROVE  Inv'
  <2>1. Fits("ui", rec, endpoint)
    BY <1>2, <1>4 DEF Fits
  <2>2. TaskInv' /\ Steady /\ \A t \in Tasks : t # "ui" => task'[t] = task[t]
    BY <1>1, <1>2, <1>3, <1>4, <2>1, SetTask
  <2>3. WorldTypes' /\ FlagTypes'
    BY <1>1, <1>2, <1>4, JoinedTypes DEF Inv, WorldTypes, FlagTypes, world
  <2>4. \A c \in Closures : task[c].pc \in Connecting => task'[c].pc \in Connecting
    BY <1>2, <2>2, Names
  <2> QED BY <1>1, <2>2, <2>3, <2>4, TasksOnly
<1>5. CASE ready
  <2>1. task' = [task EXCEPT !["ui"] = Ask("ui", m)] /\ ensuring' = ensuring
    BY <1>5 DEF UserAsks
  <2>2. Ask("ui", m) \in TaskRecords /\ Ask("ui", m).pc = "call" /\ Ask("ui", m).method = m
    BY <1>2, AskFits
  <2> QED BY <1>2, <1>4, <2>1, <2>2
<1>6. CASE ~ready
  <2> DEFINE rec == [Idle EXCEPT !.pc = "ensure", !.method = m]
  <2>1. task' = [task EXCEPT !["ui"] = rec] /\ ensuring' = Joined
    BY <1>6 DEF UserAsks
  <2>2. rec \in TaskRecords /\ rec.pc = "ensure" /\ rec.method = m
    BY <1>2, <1>3 DEF TaskRecords, Pcs
  <2> HIDE DEF rec
  <2> QED BY <1>2, <1>4, <2>1, <2>2
<1> QED BY <1>5, <1>6

\* The poll or a page asks for something.
LEMMA PageAsksKeeps ==
  ASSUME Inv, PageAsks
  PROVE  Inv'
<1>1. /\ "page" \in Users /\ task["page"] = Idle /\ task' = [task EXCEPT !["page"] = Ask("page", "status")]
      /\ UNCHANGED <<world, faults, net, endpoint, socket, timer, desired, lastPid, degraded, ensuring>>
      /\ UNCHANGED <<ready, gone, ever>>
  BY DEF PageAsks, fields, history
<1>2. /\ TaskInv /\ file \in Pids /\ "page" \in Tasks /\ "page" \notin Connectors
      /\ "page" \notin Closures /\ "status" \in Methods
  BY <1>1, Names DEF Inv, WorldTypes, Methods
<1>3. Idle.pc = "idle"
  BY <1>2, Records
<1>4. /\ Ask("page", "status") \in TaskRecords /\ Ask("page", "status").pc = "call"
      /\ Ask("page", "status").method = "status"
  BY <1>2, AskFits
<1>5. Fits("page", Ask("page", "status"), endpoint)
  BY <1>2, <1>4 DEF Fits
<1>6. TaskInv' /\ Steady /\ \A t \in Tasks : t # "page" => task'[t] = task[t]
  BY <1>1, <1>2, <1>3, <1>4, <1>5, SetTask
<1>7. WorldTypes' /\ FlagTypes'
  BY <1>1 DEF Inv, WorldTypes, FlagTypes, world
<1>8. \A c \in Closures : task[c].pc \in Connecting => task'[c].pc \in Connecting
  BY <1>2, <1>6, Names
<1> QED BY <1>1, <1>6, <1>7, <1>8, TasksOnly

\* Quitting begins.
LEMMA QuitsKeeps ==
  ASSUME Inv, Quits
  PROVE  Inv'
<1> DEFINE rec == IF socket # 0 THEN Ask("quit", "begin") ELSE [Idle EXCEPT !.pc = "pid", !.ep = file]
<1>1. /\ "quit" \in Users /\ task["quit"] = Idle /\ task' = [task EXCEPT !["quit"] = rec]
      /\ UNCHANGED <<world, faults, net, endpoint, socket, timer, desired, lastPid, degraded, ensuring>>
      /\ UNCHANGED <<ready, gone, ever>>
  BY DEF Quits, fields, history
<1>2. /\ TaskInv /\ file \in Pids /\ "quit" \in Tasks /\ "quit" \notin Connectors
      /\ "quit" \notin Closures /\ "begin" \in Methods
  BY <1>1, Names DEF Inv, WorldTypes, Methods
<1>3. Idle \in TaskRecords /\ Idle.pc = "idle" /\ Idle.method = "none"
  BY <1>2, Records
<1>4. rec \in TaskRecords /\ rec.pc \in {"call", "pid"} /\ rec.method \in {"begin", "none"}
  <2>1. CASE socket # 0
    <3>1. rec = Ask("quit", "begin")
      BY <2>1
    <3>2. /\ Ask("quit", "begin") \in TaskRecords /\ Ask("quit", "begin").pc = "call"
          /\ Ask("quit", "begin").method = "begin"
      BY <1>2, AskFits
    <3> HIDE DEF rec
    <3> QED BY <3>1, <3>2
  <2>2. CASE socket = 0
    <3>1. rec = [Idle EXCEPT !.pc = "pid", !.ep = file]
      BY <2>2
    <3> HIDE DEF rec
    <3> QED BY <1>2, <1>3, <3>1 DEF TaskRecords, Pcs
  <2> QED BY <2>1, <2>2
<1> HIDE DEF rec
<1>5. Fits("quit", rec, endpoint)
  BY <1>2, <1>4 DEF Fits
<1>6. TaskInv' /\ Steady /\ \A t \in Tasks : t # "quit" => task'[t] = task[t]
  BY <1>1, <1>2, <1>3, <1>4, <1>5, SetTask
<1>7. WorldTypes' /\ FlagTypes'
  BY <1>1 DEF Inv, WorldTypes, FlagTypes, world
<1>8. \A c \in Closures : task[c].pc \in Connecting => task'[c].pc \in Connecting
  BY <1>2, <1>6, Names
<1> QED BY <1>1, <1>6, <1>7, <1>8, TasksOnly

\* Quitting finds a process to stop, or none.
LEMMA QuitLooksKeeps ==
  ASSUME Inv, QuitLooks
  PROVE  Inv'
<1>1. /\ "quit" \in Users /\ task["quit"].pc = "pid"
      /\ UNCHANGED <<world, faults, net, socket, timer, desired, lastPid, degraded, ensuring>>
      /\ UNCHANGED <<ready, gone, ever>>
  BY DEF QuitLooks, history
<1>2. /\ TaskInv /\ file \in Pids /\ "quit" \in Tasks /\ "quit" \notin Connectors
      /\ "quit" \notin Closures /\ "begin" \in Methods /\ "leave" \in Pcs
      /\ task["quit"] \in TaskRecords /\ task["quit"].method # "info"
  BY <1>1, Names DEF Inv, WorldTypes, Methods, Pcs, TaskInv, Fits
<1>3. PICK rec \in TaskRecords :
        /\ task' = [task EXCEPT !["quit"] = rec]
        /\ rec.pc \in {"call", "leave"} /\ rec.method # "info"
        /\ endpoint' \in Pids /\ (endpoint' = endpoint \/ endpoint' # 0)
  <2>1. CASE Alive(task["quit"].ep)
    <3>1. endpoint' = task["quit"].ep /\ task' = [task EXCEPT !["quit"] = Ask("quit", "begin")]
      BY <2>1 DEF QuitLooks
    <3>2. /\ Ask("quit", "begin") \in TaskRecords /\ Ask("quit", "begin").pc = "call"
          /\ Ask("quit", "begin").method = "begin"
      BY <1>2, AskFits
    <3>3. task["quit"].ep \in Pids /\ task["quit"].ep # 0
      BY <1>2, <2>1 DEF Alive, TaskRecords
    <3> QED BY <3>1, <3>2, <3>3
  <2>2. CASE ~Alive(task["quit"].ep)
    <3>1. endpoint' = endpoint /\ task' = [task EXCEPT !["quit"].pc = "leave"]
      BY <2>2 DEF QuitLooks
    <3>2. task' = [task EXCEPT !["quit"] = At("quit", "leave")]
      BY <3>1 DEF At
    <3>3. /\ At("quit", "leave") \in TaskRecords /\ At("quit", "leave").pc = "leave"
          /\ At("quit", "leave").method = task["quit"].method
      BY <1>2, AtFits
    <3>4. endpoint \in Pids
      BY DEF Inv, WorldTypes
    <3> QED BY <1>2, <3>1, <3>2, <3>3, <3>4
  <2> QED BY <2>1, <2>2
<1>4. Fits("quit", rec, endpoint')
  BY <1>2, <1>3 DEF Fits
<1>5. TaskInv' /\ Steady /\ \A t \in Tasks : t # "quit" => task'[t] = task[t]
  BY <1>1, <1>2, <1>3, <1>4, SetTask
<1>6. WorldTypes' /\ FlagTypes'
  BY <1>1, <1>3 DEF Inv, WorldTypes, FlagTypes, world
<1>7. \A c \in Closures : task[c].pc \in Connecting => task'[c].pc \in Connecting
  BY <1>2, <1>5, Names
<1> QED BY <1>1, <1>5, <1>6, <1>7, TasksOnly

\* The application exits.
LEMMA LeavesKeeps ==
  ASSUME Inv, Leaves
  PROVE  Inv'
<1>1. /\ gone' = TRUE
      /\ UNCHANGED <<world, faults, net, endpoint, socket, timer, desired, lastPid, degraded, ensuring>>
      /\ UNCHANGED <<ready, task, ever>>
  BY DEF Leaves, fields, history
<1>2. WorldTypes' /\ FlagTypes' /\ TaskInv' /\ Steady
  BY <1>1 DEF Inv, WorldTypes, FlagTypes, TaskInv, Fits, Steady, world
<1> QED BY <1>1, <1>2, TasksOnly

\* A caller with a connection sends its request, or stopDaemon begins.
LEMMA ProceedsKeeps ==
  ASSUME Inv, NEW u \in Users, task[u].pc \in {"call", "send"}, socket # 0, Proceeds(u),
         UNCHANGED <<world, faults, conn, endpoint, socket, timer, degraded, gone, history>>
  PROVE  Inv'
<1>1. /\ TaskInv /\ QueueInv /\ file \in Pids /\ u \in Tasks /\ u \notin Connectors /\ u \notin Closures
      /\ "disconnect" \in Methods /\ task[u].method \in Methods /\ task[u].method # "info"
      /\ task[u].pc \notin {"open", "reply"} /\ socket \in Socks
  BY Names DEF Inv, WorldTypes, ConnInv, Methods, TaskInv, TaskRecords, Fits
<1>2. /\ UNCHANGED <<world, faults, conn, endpoint, socket, timer, degraded, gone, ever, ensuring>>
      /\ UNCHANGED <<proc, file, wanted, old>> /\ ready' = (ready \/ u = "ui")
  BY DEF Proceeds, world, history
<1>3. CASE task[u].method = "begin"
  <2>1. desired' = FALSE /\ lastPid' = 0 /\ task' = [task EXCEPT ![u] = Ask(u, "disconnect")] /\ queue' = queue
    BY <1>3 DEF Proceeds
  <2>2. /\ Ask(u, "disconnect") \in TaskRecords /\ Ask(u, "disconnect").pc = "call"
        /\ Ask(u, "disconnect").method = "disconnect"
    BY <1>1, AskFits
  <2>3. Fits(u, Ask(u, "disconnect"), endpoint)
    BY <1>1, <2>2 DEF Fits
  <2>4. TaskInv' /\ Steady /\ \A t \in Tasks : t # u => task'[t] = task[t]
    BY <1>1, <1>2, <2>1, <2>2, <2>3, SetTask
  <2>5. WorldTypes' /\ FlagTypes'
    BY <1>2, <2>1 DEF Inv, WorldTypes, FlagTypes, Pids
  <2>6. \A c \in Closures : task[c].pc \in Connecting => task'[c].pc \in Connecting
    BY <1>1, <2>4, Names
  <2>7. UNCHANGED net
    BY <1>2, <2>1 DEF net
  <2> QED BY <1>2, <2>4, <2>5, <2>6, <2>7, TasksOnly
<1>4. CASE task[u].method # "begin"
  <2>1. SendDirect(u, task[u].method, queue) /\ UNCHANGED <<desired, lastPid>>
    BY <1>4 DEF Proceeds
  <2>2. QueueTypes(queue) /\ Awaited(queue, task) /\ Single(queue) /\ NoEntry(queue, u)
    BY <1>1, NoEntryUnlessReply DEF QueueInv
  <2>3. /\ TaskInv' /\ QueueInv' /\ (NoYes(queue) => NoYes(queue'))
        /\ \A t \in Tasks : t # u => task'[t] = task[t]
    BY <1>1, <1>2, <2>1, <2>2, SendDirectFits
  <2>4. Steady
    BY <1>1, <2>3 DEF Steady
  <2>5. WorldTypes' /\ FlagTypes'
    BY <1>2, <2>1 DEF Inv, WorldTypes, FlagTypes
  <2>6. ConnInv' /\ OldInv' /\ OldUp' = OldUp
    BY <1>2, <2>4, ConnSteady, OldSteady DEF Inv
  <2>7. Trying'
    BY <1>1, <1>2, <2>3, Names, TryingSteady DEF Inv
  <2>8. Checking(task) => Checking(task')
    BY <1>1, <2>3, Names DEF Checking
  <2>9. VersionInv'
    BY <1>2, <2>3, <2>6, <2>8 DEF Inv, VersionInv
  <2> QED BY <2>3, <2>5, <2>6, <2>7, <2>9 DEF Inv
<1> QED BY <1>3, <1>4

\* A caller without a connection waits for the merged connectOnce, and begins it if
\* there is none.
LEMMA CallsKeeps ==
  ASSUME Inv, NEW u \in Users, Calls(u)
  PROVE  Inv'
<1>1. /\ task[u].pc = "call"
      /\ UNCHANGED <<world, faults, conn, endpoint, socket, timer, degraded, gone, ever, history>>
  BY DEF Calls, history
<1>2. /\ TaskInv /\ file \in Pids /\ u \in Tasks /\ "merged" \in Tasks /\ "merged" \in Connectors
      /\ u # "merged" /\ u \notin Connectors /\ u \notin Closures /\ task[u].method # "info"
  BY Names DEF Inv, WorldTypes, TaskInv, Fits
<1>3. CASE socket # 0
  <2>1. Proceeds(u)
    BY <1>3 DEF Calls
  <2> QED BY <1>1, <1>3, <2>1, ProceedsKeeps
<1>4. CASE socket = 0
  <2> DEFINE rec == IF task["merged"] # Idle THEN task["merged"]
                    ELSE IF endpoint = 0 THEN At("merged", "ensure") ELSE Attempt("merged")
  <2>1. /\ task' = [task EXCEPT ![u] = At(u, "conn"), !["merged"] = rec]
        /\ ensuring' \in {Joined, ensuring} /\ UNCHANGED <<queue, desired, lastPid, ready>>
    BY <1>2, <1>4 DEF Calls, TaskInv
  <2>2. Idle.pc = "idle" /\ Idle.tries = 0
    BY <1>2, Records
  <2>3. rec \in TaskRecords /\ Fits("merged", rec, endpoint)
    <3>1. CASE task["merged"] # Idle
      BY <1>2, <3>1 DEF TaskInv
    <3>2. CASE task["merged"] = Idle /\ endpoint = 0
      <4>1. rec = At("merged", "ensure") /\ "ensure" \in Pcs
        BY <3>2 DEF Pcs
      <4>2. /\ At("merged", "ensure") \in TaskRecords /\ At("merged", "ensure").pc = "ensure"
            /\ At("merged", "ensure").tries = 0
        BY <1>2, <2>2, <3>2, <4>1, AtFits
      <4> HIDE DEF rec
      <4> QED BY <1>2, <4>1, <4>2, Names DEF Fits
    <3>3. CASE task["merged"] = Idle /\ endpoint # 0
      <4>1. rec = Attempt("merged") /\ task["merged"].tries < Retries
        BY <2>2, <3>3, RetriesAssumption
      <4> QED BY <1>2, <3>3, <4>1, AttemptFits
    <3> QED BY <3>1, <3>2, <3>3
  <2>4. task["merged"].pc # "idle" => rec = task["merged"]
    BY <2>2
  <2> HIDE DEF rec
  <2>5. At(u, "conn") \in TaskRecords /\ Fits(u, At(u, "conn"), endpoint)
    <3>1. "conn" \in Pcs
      BY DEF Pcs
    <3>2. /\ At(u, "conn") \in TaskRecords /\ At(u, "conn").pc = "conn"
          /\ At(u, "conn").method = task[u].method
      BY <1>2, <3>1, AtFits
    <3> QED BY <1>2, <3>2 DEF Fits
  <2>6. /\ task' \in [Tasks -> TaskRecords] /\ task'[u] = At(u, "conn") /\ task'["merged"] = rec
        /\ \A t \in Tasks : t # u /\ t # "merged" => task'[t] = task[t]
    BY <1>2, <2>1, <2>3, <2>5 DEF TaskInv
  <2>7. TaskInv'
    BY <1>1, <1>2, <2>3, <2>5, <2>6 DEF TaskInv
  <2>8. Steady
    BY <1>1, <2>4, <2>6 DEF Steady
  <2>9. WorldTypes' /\ FlagTypes'
    BY <1>1, <2>1, JoinedTypes DEF Inv, WorldTypes, FlagTypes, world
  <2>10. \A c \in Closures : task[c].pc \in Connecting => task'[c].pc \in Connecting
    BY <1>2, <2>6, Names
  <2>11. UNCHANGED net
    BY <1>1, <2>1 DEF net
  <2> QED BY <1>1, <2>7, <2>8, <2>9, <2>10, <2>11, TasksOnly
<1> QED BY <1>3, <1>4

\* A caller whose wait for the connection is over sends, or fails.
LEMMA SendsKeeps ==
  ASSUME Inv, NEW u \in Users, Sends(u)
  PROVE  Inv'
<1>1. /\ task[u].pc = "send"
      /\ UNCHANGED <<world, faults, conn, endpoint, socket, timer, degraded, gone, ever, history>>
  BY DEF Sends, history
<1>2. /\ TaskInv /\ file \in Pids /\ u \in Tasks /\ u \notin Connectors /\ u \notin Closures
      /\ task[u].method # "info" /\ "call" \in Pcs
  BY Names DEF Inv, WorldTypes, TaskInv, Fits, Pcs
<1>3. ASSUME NEW rec \in TaskRecords, Fits(u, rec, endpoint), task' = [task EXCEPT ![u] = rec],
             UNCHANGED <<queue, desired, lastPid, ensuring>>, ready' \in {ready, TRUE}
      PROVE  Inv'
  <2>1. TaskInv' /\ Steady /\ \A t \in Tasks : t # u => task'[t] = task[t]
    BY <1>1, <1>2, <1>3, SetTask
  <2>2. WorldTypes' /\ FlagTypes'
    BY <1>1, <1>3 DEF Inv, WorldTypes, FlagTypes, world
  <2>3. \A c \in Closures : task[c].pc \in Connecting => task'[c].pc \in Connecting
    BY <1>2, <2>1, Names
  <2>4. UNCHANGED net
    BY <1>1, <1>3 DEF net
  <2> QED BY <1>1, <2>1, <2>2, <2>3, <2>4, TasksOnly
<1>4. CASE /\ ready' = TRUE /\ task' = [task EXCEPT ![u] = At(u, "call")]
           /\ UNCHANGED <<queue, desired, lastPid, ensuring>>
  <2>1. /\ At(u, "call") \in TaskRecords /\ At(u, "call").pc = "call"
        /\ At(u, "call").method = task[u].method
    BY <1>2, AtFits
  <2>2. Fits(u, At(u, "call"), endpoint)
    BY <1>2, <2>1 DEF Fits
  <2> QED BY <1>3, <1>4, <2>1, <2>2
<1>5. CASE socket # 0 /\ Proceeds(u)
  BY <1>1, <1>5, ProceedsKeeps
<1>6. CASE /\ task' = [task EXCEPT ![u] = CallFails(u)]
           /\ UNCHANGED <<queue, desired, lastPid, ready, ensuring>>
  BY <1>2, <1>3, <1>6, CallFailsFits
<1> QED BY <1>4, <1>5, <1>6 DEF Sends

(***************************************************************************)
(* The invariant                                                           *)
(***************************************************************************)
\* It holds as the application starts, whatever an earlier run left behind.
LEMMA InitHolds == Init => Inv
<1> SUFFICES ASSUME Init PROVE Inv
  OBVIOUS
<1>1. 1 \in Daemons /\ 0 \notin Daemons /\ 0 \in Pids /\ Daemons \subseteq Pids /\ 0 \in 0..Retries
  BY DaemonsAssumption, RetriesAssumption DEF Daemons, Pids
<1>2. PICK p \in {"none", "up", "dead"} :
        /\ proc = [d \in Daemons |-> IF d = 1 THEN p ELSE "none"]
        /\ file = IF p = "none" THEN 0 ELSE 1
        /\ old \in {{}} \cup {S \in {{1}} : p = "up"}
  BY DEF Init
<1>3. old = {} \/ (old = {1} /\ p = "up")
  BY <1>2
<1>4. WorldTypes
  BY <1>1, <1>2, <1>3, FaultsAssumption DEF Init, WorldTypes, NoEnsure
<1>5. OldInv
  BY <1>1, <1>2, <1>3 DEF OldInv, OldUp
<1>6. FlagTypes
  BY DEF Init, FlagTypes
<1>7. TaskInv
  <2>1. Idle \in TaskRecords /\ Idle.pc = "idle" /\ Idle.method = "none"
    BY <1>1 DEF Idle, TaskRecords, Pcs, Methods
  <2> QED BY <2>1 DEF Init, TaskInv, Fits
<1>8. Closed \in ConnRecords /\ Closed.st = "closed"
  BY <1>1 DEF Closed, ConnRecords
<1>9. ConnInv
  BY <1>8 DEF Init, ConnInv
<1>10. \A s \in Socks : queue[s] = <<>>
  BY DEF Init
<1>11. <<>> \in Seq(Entries) /\ Len(<<>>) = 0
  BY EmptySeq
<1>12. QueueTypes(queue)
  BY <1>11 DEF Init, QueueTypes
<1>13. \A s \in Socks : 1..Len(queue[s]) = {}
  BY <1>10, <1>11
<1>14. QueueInv
  BY <1>12, <1>13 DEF QueueInv, Awaited, Single
<1>15. Trying /\ VersionInv
  BY <1>8, <1>13 DEF Init, Trying, VersionInv, NoYes
<1> QED BY <1>4, <1>5, <1>6, <1>7, <1>9, <1>14, <1>15 DEF Inv

\* Every step keeps it.
LEMMA NextKeeps == Inv /\ [Next]_vars => Inv'
<1> SUFFICES ASSUME Inv, [Next]_vars PROVE Inv'
  OBVIOUS
<1>1. CASE UNCHANGED vars
  <2>1. /\ UNCHANGED <<world, net, socket, degraded, ever, task>>
        /\ UNCHANGED <<faults, endpoint, timer, desired, lastPid, ensuring, ready, gone>>
    BY <1>1 DEF vars, fields, history
  <2>2. WorldTypes' /\ FlagTypes' /\ TaskInv' /\ Steady
    BY <2>1 DEF Inv, WorldTypes, FlagTypes, TaskInv, Fits, Steady, world
  <2> QED BY <2>1, <2>2, TasksOnly
<1>2. CASE Leaves
  BY <1>2, LeavesKeeps
<1>3. CASE Step
  <2>1. ASSUME NEW d \in Daemons, Checks(d) \/ Publishes(d) \/ Crashes(d) PROVE Inv'
    BY <2>1, ChecksKeeps, PublishesKeeps, CrashesKeeps
  <2>2. ASSUME NEW s \in Socks, Serves(s) \/ Connects(s) \/ ConnectRefused(s) \/ Replies(s) \/ Closes(s)
        PROVE  Inv'
    BY <2>2, ServesKeeps, ConnectsKeeps, ConnectRefusedKeeps, RepliesKeeps, ClosesKeeps
  <2>3. ASSUME NEW k \in Connectors, Opens(k) \/ Wakes(k) PROVE Inv'
    BY <2>3, OpensKeeps, WakesKeeps
  <2>4. ASSUME NEW t \in Tasks, TimesOut(t) PROVE Inv'
    BY <2>4, TimesOutKeeps
  <2>5. ASSUME NEW u \in Users, Calls(u) \/ Sends(u) PROVE Inv'
    BY <2>5, CallsKeeps, SendsKeeps
  <2>6. CASE Ensure
    BY <2>6, EnsureFindsKeeps, EnsureSpawnsKeeps, EnsureGivesUpKeeps DEF Ensure
  <2>7. CASE TimerFires \/ QuitLooks
    BY <2>7, TimerFiresKeeps, QuitLooksKeeps
  <2>8. CASE Requests
    BY <2>8, UserAsksKeeps, PageAsksKeeps, QuitsKeeps DEF Requests
  <2> QED BY <1>3, <2>1, <2>2, <2>3, <2>4, <2>5, <2>6, <2>7, <2>8 DEF Step
<1> QED BY <1>1, <1>2, <1>3 DEF Next

\* So it always holds.
LEMMA InvHolds == Spec => []Inv
BY InitHolds, NextKeeps, PTL DEF Spec

\* Types, for every number of processes, connections, closures, retries and faults;
\* no connection attempt exceeds CONNECT_RETRIES (connectOnce's loop).
THEOREM TypeCorrect == Spec => []TypeOK
<1>1. Inv => TypeOK
  <2> SUFFICES ASSUME Inv PROVE TypeOK
    OBVIOUS
  <2> USE DEF Inv, WorldTypes, FlagTypes, TaskInv, ConnInv, QueueInv, QueueTypes
  <2>1. {timer, desired, degraded, ready, gone, ever} \subseteq BOOLEAN
    BY Zenon
  <2> QED BY <2>1 DEF TypeOK, Pids, ConnRecords, TaskRecords, Entries
<1> QED BY <1>1, InvHolds, PTL

\* A client that has lost its connection is never left alone: the timer is set or a
\* closure of it is at work (scheduleReconnect and its callers).
THEOREM NeverLeftAlone == Spec => []NeverAbandoned
<1>1. Inv => NeverAbandoned
  <2> SUFFICES ASSUME Inv, ever, socket = 0, ~timer PROVE \E c \in Closures : task[c] # Idle
    BY DEF NeverAbandoned
  <2>1. PICK c \in Closures : task[c].pc \in Connecting
    BY DEF Inv, Trying
  <2> QED BY <2>1 DEF Idle, Connecting
<1> QED BY <1>1, InvHolds, PTL

\* A client connected to a process of another version, with nothing under way, shows
\* the degraded state (checkProtocolVersion).
THEOREM OldIsNoticed == Spec => []OldIsDegraded
<1>1. Inv => OldIsDegraded
  <2> SUFFICES ASSUME Inv, Calm, conn[socket].to \in old PROVE degraded
    BY DEF OldIsDegraded
  <2>1. conn[socket].to \in OldUp
    BY DEF Calm, OldUp
  <2>2. ~Checking(task)
    BY Names DEF Calm, Checking, Idle
  <2> QED BY <2>1, <2>2 DEF Calm, Inv, VersionInv
<1> QED BY <1>1, InvHolds, PTL
=============================================================================

----------------------------- MODULE FetchBridge -----------------------------
\* The desktop's answers to the band's quick app (fetch-bridge-direct.ts): the
\* handshake and the fetches that arrive as device.interconnect events, each
\* handled on its own, and replied to by a call of the daemon that can fail, or
\* time out although the reply goes out. The band's side is external: it asks
\* once with a number of its own and takes the first reply with that number.
EXTENDS Naturals, Sequences, FiniteSets

CONSTANTS
  Messages,      \* the numbers of the messages the band sends
  MaxLate     \* bound: replies whose call timed out and that are sent later

VARIABLES
  said,       \* what the band sent under each number, "nothing" before
  job,        \* where the handler of each message stands
  late,       \* replies the daemon still holds after their call timed out
  counted,    \* requestCount
  responses,  \* calls of metrics.onResponse for each message
  taken,      \* the reply the band took for each of its messages
  broken,     \* the replies to each message that were reported as failed
  icMode      \* the band's side of the handshake: init, waiting, ready

fetchVars == <<said, job, late, counted, responses, taken, broken, icMode>>

\* A handshake carries its count, a fetch an address of a scheme that is
\* supported or not; others are of another package, not JSON or of another tag.
Kinds == {"hello", "helloBack", "fetch", "badUrl", "foreign", "noise"}
BandPackage(kind) == kind # "foreign"

FetchInit ==
  /\ said = [i \in Messages |-> "nothing"] /\ job = [i \in Messages |-> "none"]
  /\ late = {} /\ counted = 0
  /\ responses = [i \in Messages |-> 0]
  /\ taken = [i \in Messages |-> "nothing"]
  /\ broken = [i \in Messages |-> {}]
  /\ icMode = "init"

-----------------------------------------------------------------------------
\* The band (external).

\* It greets until it is answered, and fetches once it has been.
BandSends ==
  \E i \in Messages, k \in Kinds :
    /\ said[i] = "nothing" /\ job[i] = "none"
    /\ k \in {"hello", "helloBack"} => icMode # "ready"
    /\ k = "fetch" => icMode = "ready"
    /\ said' = [said EXCEPT ![i] = k]
    /\ icMode' = IF k = "hello" THEN "waiting" ELSE icMode
    /\ UNCHANGED <<job, late, counted, responses, taken, broken>>

\* The first reply with a number the band waits for is taken; any handshake
\* reply ends the handshake.
Takes(i, reply) ==
  /\ taken' = IF reply \in {"data", "error"} /\ taken[i] = "nothing"
              THEN [taken EXCEPT ![i] = reply] ELSE taken
  /\ icMode' = IF reply = "hello" THEN "ready" ELSE icMode

-----------------------------------------------------------------------------
\* onMessage and its handlers.

\* What a message makes the handler do first: a handshake that has gone round
\* enough is not replied to, an address that is not http gets an error.
FirstStep(k) ==
  CASE k = "hello" -> "greet"
    [] k = "fetch" -> "fetching"
    [] k = "badUrl" -> "refusing"
    [] OTHER -> "done"

\* The bridge counts what is for the band's package, whatever it says.
OnMessage(i) ==
  /\ job[i] = "none" /\ said[i] # "nothing"
  /\ counted' = IF BandPackage(said[i]) THEN counted + 1 ELSE counted
  /\ job' = [job EXCEPT ![i] = FirstStep(said[i])]
  /\ UNCHANGED <<said, late, responses, taken, broken, icMode>>

\* The fetch of the local service ends, well or not, within its ten seconds.
Fetched(i) ==
  /\ job[i] = "fetching"
  /\ \E ok \in BOOLEAN : job' = [job EXCEPT ![i] = IF ok THEN "replying" ELSE "refusing"]
  /\ responses' = [responses EXCEPT ![i] = @ + 1]
  /\ UNCHANGED <<said, late, counted, taken, broken, icMode>>

Reply(i) == CASE job[i] = "greet" -> "hello" [] job[i] = "replying" -> "data" [] OTHER -> "error"
Replying(i) == job[i] \in {"greet", "replying", "refusing"}

\* Mutant: a reply that fails ends the handler, whatever it was.
AfterFailure_Ends(at) == "unhandled"

\* Where a failed reply leaves the handler: the data's failure is caught like
\* the fetch's and replied to with an error; no other failure is caught.
AfterFailure(at) == IF at = "replying" THEN "refusing" ELSE "unhandled"

SendOk(i) ==
  /\ Replying(i)
  /\ job' = [job EXCEPT ![i] = "done"]
  /\ Takes(i, Reply(i))
  /\ UNCHANGED <<said, late, counted, responses, broken>>

\* Fails: the daemon refuses it, or has not answered in fifteen seconds and may
\* still send it.
SendFails(i) ==
  /\ Replying(i)
  /\ \/ UNCHANGED late
     \/ Cardinality(late) < MaxLate /\ late' = late \cup {[to |-> i, reply |-> Reply(i)]}
  /\ job' = [job EXCEPT ![i] = AfterFailure(job[i])]
  /\ responses' = [responses EXCEPT ![i] = IF job[i] = "replying" THEN @ + 1 ELSE @]
  /\ broken' = [broken EXCEPT ![i] = @ \cup {Reply(i)}]
  /\ UNCHANGED <<said, counted, taken, icMode>>

LateReply ==
  \E r \in late :
    /\ late' = late \ {r}
    /\ Takes(r.to, r.reply)
    /\ UNCHANGED <<said, job, counted, responses, broken>>

FetchNext ==
  \/ BandSends \/ LateReply
  \/ \E i \in Messages : OnMessage(i) \/ Fetched(i) \/ SendOk(i) \/ SendFails(i)

-----------------------------------------------------------------------------

\* Every fetch the band sends is answered: with what the service said, or with
\* an error; and it stays without an answer only if the error that stands for it
\* could not be sent either. A call that was reported as failed can still have
\* reached the band, so the data and an error for it may both arrive: the band
\* takes one. Every fetch is measured once, and once more only when its data
\* could not be sent (fetch-bridge-direct.ts, handleFetch and its catch).
FetchesAreAnswered ==
  \A i \in Messages : said[i] \in {"fetch", "badUrl"} =>
    /\ job[i] = "done" => taken[i] # "nothing"
    /\ job[i] = "unhandled" => "error" \in broken[i]
    /\ taken[i] = "data" => responses[i] >= 1
    /\ responses[i] = (IF said[i] = "fetch" /\ job[i] \notin {"none", "fetching"} THEN 1 ELSE 0)
                      + (IF "data" \in broken[i] THEN 1 ELSE 0)

=============================================================================

---------------------------- MODULE MassTransfer ----------------------------
(***************************************************************************)
(* Flow control of the Mass transfer (core/src/install/xiaomi): parts of a *)
(* body go out as frames of the one link, numbered by the 8-bit seq_out    *)
(* they share with every other frame; the band acknowledges frames         *)
(* cumulatively; the sender keeps a window of unacknowledged parts.        *)
(*                                                                         *)
(* Frames are counted from the oldest one whose acknowledgement can still  *)
(* arrive when prepare opens the dispatch gate, so frame n has the number  *)
(* n % Mod on the wire (only differences of numbers are compared).  The    *)
(* acknowledgements queued for the sender are a set: the band acknowledges *)
(* in increasing order, so the front of the queue is the least of them.    *)
(* RFCOMM neither loses nor reorders frames; a link that goes down fails   *)
(* the transfer.  The bytes of the parts are abstracted.                   *)
(***************************************************************************)
EXTENDS Integers, FiniteSets

CONSTANTS
  Half,        \* 128: half of the sequence space
  Window,      \* MASS_TX_WINDOW
  Total,       \* parts of the body
  AckQueue,    \* MAX_PENDING_ACKS
  MaxForeign   \* bound: other frames sent from the opening of the gate on

ASSUME HalfAssumption == Half \in Nat \ {0}
ASSUME WindowAssumption == Window \in Nat \ {0}
ASSUME TotalAssumption == Total \in Nat \ {0}
ASSUME QueueAssumption == AckQueue \in Nat \ {0}
ASSUME ForeignAssumption == MaxForeign \in Nat

Mod == 2 * Half

VARIABLES
  phase,       \* "upload" (chunks still arrive), "transfer", "drain", "done", "failed"
  kind,        \* "app" or "watchface": which of the two copies of the loop runs
  foreign,     \* frames sent that are not parts
  sent,        \* parts sent
  confirmed,   \* parts popped from inflight: inflight is confirmed + 1 .. sent
  before,      \* before[j]: frames that are not parts sent before part j
  got,         \* frames the band has
  delivered,   \* parts among them
  acked,       \* frames the band has acknowledged
  acks         \* acknowledgements queued for the sender

sender == <<phase, kind, sent, confirmed, before>>
band == <<got, delivered, acked>>
vars == <<sender, band, foreign, acks>>

Parts == 1..Total
Frames == 0 .. MaxForeign + Total

Init ==
  /\ phase = "upload"
  /\ kind = "app"
  /\ foreign = 0
  /\ sent = 0
  /\ confirmed = 0
  /\ before = [j \in Parts |-> 0]
  /\ got = 0
  /\ delivered = 0
  /\ acked = 0
  /\ acks = {}

NextFrame == foreign + sent
Number(j) == before[j] + j - 1
Wire(n) == n % Mod

\* Mutant: numbers are compared as they are, without the wrap.
Covers_Plain(a, j) == Wire(Number(j)) <= Wire(a)

\* Mutant: the half that counts as "not later" is one too small.
Covers_Short(a, j) == (Wire(a) - Wire(Number(j))) % Mod < Half - 1

\* ack_seq.wrapping_sub(front) < 128
Covers(a, j) == (Wire(a) - Wire(Number(j))) % Mod < Half

\* ack_cumulative: the front of inflight is popped while a covers it.
PopCovered(a, c) ==
  /\ c \in confirmed .. sent
  /\ \A j \in confirmed + 1 .. c : Covers(a, j)
  /\ c < sent => ~Covers(a, c + 1)

\* note_frame_ack: a full queue forgets its oldest entry.
Queue(S, a) ==
  IF Cardinality(S) < AckQueue
    THEN S \cup {a}
    ELSE {b \in S : \E c \in S : c < b} \cup {a}

\* Any other frame of the link: an answer to a fetch, a handshake reply, ...
ForeignFrame ==
  /\ foreign < MaxForeign
  /\ foreign' = foreign + 1
  /\ UNCHANGED <<sender, band, acks>>

BandReceives ==
  /\ got < NextFrame
  /\ got' = got + 1
  /\ delivered' = IF \E j \in 1..sent : Number(j) = got
                    THEN delivered + 1
                    ELSE delivered
  /\ UNCHANGED <<sender, acked, foreign, acks>>

\* The band acknowledges what it has; the pump queues the number.
BandAcks ==
  /\ acked < got
  /\ acked' = got
  /\ acks' = Queue(acks, got - 1)
  /\ UNCHANGED <<sender, got, delivered, foreign>>

\* All chunks are in.  inflight is cleared, the acknowledgements queued while
\* the chunks arrived are not.
Start ==
  /\ phase = "upload"
  /\ phase' = "transfer"
  /\ kind' \in {"app", "watchface"}
  /\ UNCHANGED <<sent, confirmed, before, band, foreign, acks>>

\* Mutant: the loop sends one part too many into the window.
SendPart_WideWindow ==
  /\ phase = "transfer"
  /\ sent < Total
  /\ sent - confirmed <= Window
  /\ sent' = sent + 1
  /\ before' = [before EXCEPT ![sent + 1] = foreign]
  /\ UNCHANGED <<phase, kind, confirmed, band, foreign, acks>>

\* Mutant: the loop runs once too often (0..=total_parts).
SendPart_OneTooMany ==
  /\ phase = "transfer"
  /\ sent <= Total
  /\ sent - confirmed < Window
  /\ sent' = sent + 1
  /\ before' = [before EXCEPT ![sent + 1] = foreign]
  /\ UNCHANGED <<phase, kind, confirmed, band, foreign, acks>>

SendPart ==
  /\ phase = "transfer"
  /\ sent < Total
  /\ sent - confirmed < Window
  /\ sent' = sent + 1
  /\ before' = [before EXCEPT ![sent + 1] = foreign]
  /\ UNCHANGED <<phase, kind, confirmed, band, foreign, acks>>

\* The window is full, or the app transfer waits for its last parts.
MustWait ==
  /\ phase = "transfer"
  /\ IF sent < Total THEN sent - confirmed >= Window
                     ELSE kind = "app" /\ confirmed < sent

\* wait_frame_ack returns the front of the queue.
PopAck ==
  /\ \E a \in acks :
        /\ \A b \in acks : a <= b
        /\ acks' = acks \ {a}
        /\ \E c \in confirmed .. sent : PopCovered(a, c) /\ confirmed' = c
  /\ UNCHANGED <<phase, kind, sent, before, band, foreign>>

WaitAck == MustWait /\ PopAck

\* No acknowledgement in time, the deadline of the transfer, or a send on a
\* link that has gone.
Fail ==
  /\ phase = "transfer"
  /\ phase' = "failed"
  /\ UNCHANGED <<kind, sent, confirmed, before, band, foreign, acks>>

\* The watchface loop does not insist on the last acknowledgements.
BeginDrain ==
  /\ phase = "transfer" /\ kind = "watchface"
  /\ sent = Total
  /\ phase' = "drain"
  /\ UNCHANGED <<kind, sent, confirmed, before, band, foreign, acks>>

DrainAck == phase = "drain" /\ PopAck

EndDrain ==
  /\ phase = "drain"
  /\ acks = {}
  /\ phase' = "done"
  /\ UNCHANGED <<kind, sent, confirmed, before, band, foreign, acks>>

Finish ==
  /\ phase = "transfer" /\ kind = "app"
  /\ sent = Total
  /\ confirmed = sent
  /\ phase' = "done"
  /\ UNCHANGED <<kind, sent, confirmed, before, band, foreign, acks>>

Next ==
  \/ ForeignFrame \/ BandReceives \/ BandAcks
  \/ Start \/ SendPart \/ WaitAck \/ Fail
  \/ BeginDrain \/ DrainAck \/ EndDrain \/ Finish

Spec == Init /\ [][Next]_vars

(***************************************************************************)
(* Properties                                                              *)
(***************************************************************************)
TypeOK ==
  /\ phase \in {"upload", "transfer", "drain", "done", "failed"}
  /\ kind \in {"app", "watchface"}
  /\ foreign \in 0..MaxForeign
  /\ sent \in 0..Total
  /\ confirmed \in 0..sent
  /\ before \in [Parts -> 0..MaxForeign]
  /\ got \in 0..NextFrame
  /\ delivered \in 0..sent
  /\ acked \in 0..got
  /\ acks \in SUBSET Frames

\* While other traffic is light, the half of the sequence space that counts as
\* "later" is enough for whatever can be in the queue or in flight.
Quiet == MaxForeign + Window <= Half

\* ack_cumulative removes only what the acknowledgement covers: a part the
\* sender has struck off is with the band, whatever acknowledgements of other
\* frames were left in the queue and however the numbers wrapped.
AckedIsReceived == \A j \in 1..confirmed : Number(j) < got

\* The other half: an acknowledgement that covers the oldest part in flight is
\* never taken from the queue without striking that part off, so a full window
\* waits only for acknowledgements that are still to come.
NoLostAck ==
  (confirmed < sent /\ Number(confirmed + 1) < acked)
     => \E a \in acks : Number(confirmed + 1) <= a

\* The transfer is a sliding window over reliable delivery.
SW == INSTANCE SlidingWindow
        WITH strict <- (kind = "app"),
             status <- CASE phase = "upload" -> "idle"
                         [] phase \in {"transfer", "drain"} -> "running"
                         [] OTHER -> phase

\* Every step of the transfer is a step of the sliding window or none of it:
\* no part is confirmed before it is delivered, the window is kept, and an app
\* transfer ends only with every part delivered.
SlidingWindowSpec == SW!Spec
=============================================================================

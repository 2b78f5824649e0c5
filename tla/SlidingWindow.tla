--------------------------- MODULE SlidingWindow ---------------------------
(***************************************************************************)
(* What the Mass transfer promises, without sequence numbers: parts are    *)
(* sent in order, at most Window of them unconfirmed; a part is confirmed  *)
(* only after the band has it; a strict transfer is done only when every   *)
(* part is confirmed, any other when every part is sent.                   *)
(***************************************************************************)
EXTENDS Integers

CONSTANTS Total,   \* parts of the body
          Window   \* parts that may be unconfirmed

VARIABLES
  strict,      \* the transfer waits for its last confirmations
  status,      \* "idle", "running", "done" or "failed"
  sent,        \* parts sent
  delivered,   \* parts the band has
  confirmed    \* parts the sender takes for delivered

vars == <<strict, status, sent, delivered, confirmed>>

Init == strict \in BOOLEAN /\ status = "idle" /\ sent = 0 /\ delivered = 0 /\ confirmed = 0

Start == /\ status = "idle"
         /\ status' = "running"
         /\ strict' \in BOOLEAN
         /\ UNCHANGED <<sent, delivered, confirmed>>

Send == /\ status = "running"
        /\ sent < Total
        /\ sent - confirmed < Window
        /\ sent' = sent + 1
        /\ UNCHANGED <<strict, status, delivered, confirmed>>

\* Delivery is in order and goes on after the sender has stopped.
Deliver == /\ delivered < sent
           /\ delivered' = delivered + 1
           /\ UNCHANGED <<strict, status, sent, confirmed>>

Confirm == /\ status = "running"
           /\ \E c \in confirmed + 1 .. delivered : confirmed' = c
           /\ UNCHANGED <<strict, status, sent, delivered>>

Finish == /\ status = "running"
          /\ sent = Total
          /\ strict => confirmed = sent
          /\ status' = "done"
          /\ UNCHANGED <<strict, sent, delivered, confirmed>>

Fail == /\ status \in {"idle", "running"}
        /\ status' = "failed"
        /\ UNCHANGED <<strict, sent, delivered, confirmed>>

Next == Start \/ Send \/ Deliver \/ Confirm \/ Finish \/ Fail

Spec == Init /\ [][Next]_vars
=============================================================================

------------------------- MODULE MassTransferProofs -------------------------
(***************************************************************************)
(* Proofs about the Mass flow control, for every size of the sequence      *)
(* space, window, body and queue, as long as other traffic is light        *)
(* (Quiet): ack_cumulative strikes off exactly the parts its               *)
(* acknowledgement covers, and the transfer implements SlidingWindow.      *)
(***************************************************************************)
EXTENDS MassTransfer, TLAPS

(***************************************************************************)
(* Arithmetic of sequence numbers                                          *)
(***************************************************************************)
\* A multiple of m strictly between -m and m is zero.
LEMMA SmallMultiple ==
  ASSUME NEW m \in Nat \ {0}, NEW d \in Int, m * d < m, -m < m * d
  PROVE  d = 0
<1>1. CASE d >= 1
  <2>1. m * (d - 1) >= 0  BY <1>1
  <2> QED  BY <2>1
<1>2. CASE d <= -1
  <2>1. m * (-1 - d) >= 0  BY <1>2
  <2> QED  BY <2>1
<1> QED  BY <1>1, <1>2

\* The remainder is the only number below m that differs by a multiple of m.
LEMMA Residue ==
  ASSUME NEW m \in Nat \ {0}, NEW z \in Int, NEW k \in Int, NEW r \in 0..m-1,
         z = m * k + r
  PROVE  z % m = r
<1> DEFINE q == z \div m
           s == z % m
<1>1. q \in Int /\ s \in 0..m-1 /\ z = m * q + s
  OBVIOUS
<1> HIDE DEF q, s
<1>2. m * (q - k) = r - s
  BY <1>1
<1>3. q - k = 0
  BY <1>1, <1>2, SmallMultiple
<1>4. s = r
  BY <1>1, <1>2, <1>3
<1> QED  BY <1>4 DEF s

\* Subtracting two wire numbers gives the wire number of the difference.
LEMMA WireDifference ==
  ASSUME NEW m \in Nat \ {0}, NEW x \in Int, NEW y \in Int
  PROVE  ((x % m) - (y % m)) % m = (x - y) % m
<1> DEFINE qx == x \div m  rx == x % m
           qy == y \div m  ry == y % m
           w == rx - ry
           q == w \div m   r == w % m
<1>1. /\ qx \in Int /\ rx \in 0..m-1 /\ x = m * qx + rx
      /\ qy \in Int /\ ry \in 0..m-1 /\ y = m * qy + ry
  OBVIOUS
<1> HIDE DEF qx, rx, qy, ry
<1>2. q \in Int /\ r \in 0..m-1 /\ w = m * q + r
  BY <1>1
<1> HIDE DEF q, r
<1>3. x - y = m * (qx - qy + q) + r
  <2>1. m * (qx - qy + q) = m * qx - m * qy + m * q
    BY <1>1, <1>2
  <2> QED  BY <1>1, <1>2, <2>1 DEF w
<1>4. (x - y) % m = r
  BY <1>1, <1>2, <1>3, Residue
<1> QED  BY <1>4 DEF r, w, rx, ry

\* The half-range comparison decides the order of two frame counts that are
\* close enough: x - y below half of the space, y - x at most half of it.
LEMMA HalfRange ==
  ASSUME NEW h \in Nat \ {0}, NEW x \in Int, NEW y \in Int,
         x - y < h, y - x <= h
  PROVE  (((x % (2 * h)) - (y % (2 * h))) % (2 * h) < h) <=> (y <= x)
<1> DEFINE m == 2 * h
<1>1. m \in Nat \ {0} /\ m = h + h
  OBVIOUS
<1> HIDE DEF m
<1>2. ((x % m) - (y % m)) % m = (x - y) % m
  BY <1>1, WireDifference
<1>3. CASE y <= x
  <2>1. x - y \in 0..m-1 /\ x - y = m * 0 + (x - y)
    BY <1>1, <1>3
  <2>2. (x - y) % m = x - y
    BY <1>1, <2>1, Residue
  <2> QED  BY <1>2, <1>3, <2>2 DEF m
<1>4. CASE x < y
  <2>1. x - y + m \in 0..m-1 /\ x - y = m * (-1) + (x - y + m)
    BY <1>1, <1>4
  <2>2. (x - y) % m = x - y + m
    BY <1>1, <2>1, Residue
  <2>3. x - y + m >= h
    BY <1>1
  <2> QED  BY <1>1, <1>2, <1>4, <2>2, <2>3 DEF m
<1> QED  BY <1>3, <1>4

(***************************************************************************)
(* The inductive invariant                                                 *)
(***************************************************************************)
\* Parts are numbered in the order they are sent.
InOrder == /\ \A j \in 1..sent : before[j] <= foreign
           /\ \A i, j \in 1..sent : i <= j => before[i] <= before[j]

\* Frames, hence parts, arrive in order.
Delivery == \A j \in 1..sent : j <= delivered <=> Number(j) < got

\* What is queued was acknowledged, and after the last part struck off.
Queued == \A a \in acks : a < acked /\ (confirmed > 0 => Number(confirmed) < a)

Windowed == sent - confirmed <= Window

\* Parts struck off were acknowledged.
Struck == /\ confirmed <= delivered
          /\ confirmed > 0 => Number(confirmed) < acked

\* The newest acknowledgement stays queued while it covers a part in flight.
Pending == (confirmed < sent /\ Number(confirmed + 1) < acked) => acked - 1 \in acks

\* Only a watchface transfer drains, once all is sent.
Draining == phase = "drain" => kind = "watchface" /\ sent = Total

IInv == /\ TypeOK /\ InOrder /\ Delivery /\ Queued
        /\ Windowed /\ Struck /\ Pending /\ Draining

\* The constants are numbers.
LEMMA Sizes ==
  /\ Half \in Nat \ {0} /\ Window \in Nat \ {0} /\ Total \in Nat \ {0}
  /\ AckQueue \in Nat \ {0} /\ MaxForeign \in Nat
BY HalfAssumption, WindowAssumption, TotalAssumption, QueueAssumption,
   ForeignAssumption

\* The strengthening holds before a transfer.
LEMMA InitIInv == Init => IInv
<1> SUFFICES ASSUME Init PROVE IInv
  OBVIOUS
<1> USE Sizes
<1>1. TypeOK
  BY DEF Init, TypeOK, NextFrame, Parts, Frames
<1>2. InOrder /\ Delivery /\ Queued /\ Windowed /\ Struck /\ Pending /\ Draining
  BY DEF Init, InOrder, Delivery, Queued, Windowed, Struck, Pending, Draining
<1> QED  BY <1>1, <1>2 DEF IInv

\* In a quiet transfer ack_cumulative decides "not later than" correctly for
\* every acknowledgement that can be queued and every part that can be in flight.
LEMMA CoversMeansNotLater ==
  ASSUME Quiet, IInv,
         NEW a \in acks, NEW j \in confirmed + 1 .. sent
  PROVE  Covers(a, j) <=> Number(j) <= a
<1> USE Sizes
<1>1. /\ a \in Nat /\ a < foreign + sent
      /\ j \in Nat /\ j >= 1 /\ j <= sent /\ before[j] \in Nat
      /\ foreign \in Nat /\ foreign <= MaxForeign
      /\ sent \in Nat /\ sent <= Total
      /\ confirmed \in Nat /\ confirmed < j /\ sent - confirmed <= Window
  BY DEF IInv, TypeOK, Queued, Windowed, Frames, Parts, NextFrame
<1>2. before[j] <= foreign
  BY <1>1 DEF IInv, InOrder
<1>3. Number(j) \in Nat /\ Number(j) = before[j] + j - 1
  BY <1>1 DEF Number
<1>4. a - Number(j) < Half
  BY <1>1, <1>3 DEF Quiet
<1>5. Number(j) - a <= Half
  <2>1. CASE confirmed = 0
    BY <1>1, <1>2, <1>3, <2>1 DEF Quiet
  <2>2. CASE confirmed > 0
    <3>1. Number(confirmed) < a
      BY <2>2 DEF IInv, Queued
    <3>2. before[confirmed] \in Nat
      BY <1>1, <2>2 DEF IInv, TypeOK, Parts
    <3> QED  BY <1>1, <1>2, <1>3, <3>1, <3>2 DEF Quiet, Number
  <2> QED  BY <1>1, <2>1, <2>2
<1>6. (((a % (2 * Half)) - (Number(j) % (2 * Half))) % (2 * Half) < Half)
         <=> (Number(j) <= a)
  BY <1>1, <1>3, <1>4, <1>5, HalfRange
<1> QED  BY <1>6 DEF Covers, Wire, Mod

\* Steps that touch neither the counts nor the queue.
LEMMA ControlSteps ==
  ASSUME IInv,
         Start \/ Fail \/ BeginDrain \/ EndDrain \/ Finish \/ UNCHANGED vars
  PROVE  IInv'
<1> USE Sizes
<1>1. /\ UNCHANGED <<foreign, sent, confirmed, before, got, delivered, acked, acks>>
      /\ phase' \in {"upload", "transfer", "drain", "done", "failed"}
      /\ kind' \in {"app", "watchface"}
  BY DEF IInv, TypeOK, Start, Fail, BeginDrain, EndDrain, Finish, vars, sender, band
<1>2. TypeOK'
  BY <1>1 DEF IInv, TypeOK, NextFrame
<1>3. (InOrder /\ Delivery /\ Queued /\ Windowed /\ Struck /\ Pending)'
  BY <1>1 DEF IInv, InOrder, Delivery, Queued, Windowed, Struck, Pending, Number
<1>4. Draining'
  BY DEF IInv, Draining, Start, Fail, BeginDrain, EndDrain, Finish, vars, sender
<1> QED  BY <1>2, <1>3, <1>4 DEF IInv

\* A frame of another task takes a number of the link's (l2_writer) and keeps it.
LEMMA ForeignStep == IInv /\ ForeignFrame => IInv'
<1> SUFFICES ASSUME IInv, ForeignFrame PROVE IInv'
  OBVIOUS
<1> USE Sizes
<1>1. /\ UNCHANGED <<phase, kind, sent, confirmed, before, got, delivered, acked, acks>>
      /\ foreign' = foreign + 1 /\ foreign < MaxForeign
  BY DEF ForeignFrame, sender, band
<1>2. TypeOK'
  BY <1>1 DEF IInv, TypeOK, NextFrame
<1>3. InOrder'
  BY <1>1 DEF IInv, TypeOK, InOrder, Parts
<1>4. (Delivery /\ Queued /\ Windowed /\ Struck /\ Pending /\ Draining)'
  BY <1>1 DEF IInv, Delivery, Queued, Windowed, Struck, Pending, Draining, Number
<1> QED  BY <1>2, <1>3, <1>4 DEF IInv

\* The types of one part, as the steps below use them.
LEMMA PartTypes ==
  ASSUME IInv, NEW j \in 1..sent
  PROVE  /\ j \in Parts /\ before[j] \in Nat /\ Number(j) \in Nat
         /\ Number(j) = before[j] + j - 1 /\ Number(j) < NextFrame
<1> USE Sizes
<1>1. j \in Parts /\ j \in Int /\ 1 <= j /\ j <= sent /\ sent \in Nat /\ foreign \in Nat
  BY DEF IInv, TypeOK, Parts
<1>2. before[j] \in Nat /\ before[j] <= foreign
  BY <1>1 DEF IInv, TypeOK, InOrder
<1> QED  BY <1>1, <1>2 DEF Number, NextFrame

\* Later parts have greater numbers.
LEMMA NumbersGrow ==
  ASSUME IInv, NEW i \in 1..sent, NEW j \in 1..sent, i < j
  PROVE  Number(i) < Number(j)
<1>1. before[i] <= before[j]
  BY DEF IInv, InOrder, TypeOK
<1>2. i \in Int /\ j \in Int
  BY DEF IInv, TypeOK
<1> QED  BY <1>1, <1>2, PartTypes DEF Number

\* The band receiving the next frame keeps it.
LEMMA ReceiveStep == IInv /\ BandReceives => IInv'
<1> SUFFICES ASSUME IInv, BandReceives PROVE IInv'
  OBVIOUS
<1> USE Sizes
<1>1. /\ UNCHANGED <<phase, kind, sent, confirmed, before, foreign, acked, acks>>
      /\ got' = got + 1 /\ got < NextFrame
  BY DEF BandReceives, sender
<1>2. /\ sent \in Nat /\ got \in Nat /\ delivered \in 0..sent /\ acked \in 0..got
      /\ confirmed \in 0..sent
  BY DEF IInv, TypeOK, NextFrame
<1>3. (InOrder /\ Queued /\ Windowed /\ Pending /\ Draining)'
  BY <1>1 DEF IInv, InOrder, Queued, Windowed, Pending, Draining, Number
<1>4. CASE \E j \in 1..sent : Number(j) = got
  <2>1. PICK j \in 1..sent : Number(j) = got
    BY <1>4
  <2>2. delivered' = delivered + 1
    BY <1>4 DEF BandReceives
  <2>3. ~(j <= delivered)
    BY <1>2, <2>1 DEF IInv, Delivery
  <2>4. \A i \in 1..sent : i < j => i <= delivered
    BY <2>1, NumbersGrow DEF IInv, Delivery
  <2>5. j = delivered + 1
    <3>1. CASE delivered + 1 < j
      <4>1. delivered + 1 \in 1..sent
        BY <1>2, <2>1, <3>1
      <4> QED  BY <1>2, <2>4, <3>1, <4>1
    <3> QED  BY <1>2, <2>3, <3>1
  <2>6. TypeOK'
    BY <1>1, <1>2, <2>1, <2>2, <2>5 DEF IInv, TypeOK, NextFrame
  <2>7. Delivery'
    <3> SUFFICES ASSUME NEW i \in 1..sent
                 PROVE  i <= delivered + 1 <=> Number(i) < got + 1
      BY <1>1, <2>2 DEF Delivery, Number
    <3>1. i <= delivered <=> Number(i) < got
      BY DEF IInv, Delivery
    <3>2. Number(i) \in Nat
      BY PartTypes
    <3>3. CASE i = j
      BY <1>2, <2>1, <2>5, <3>3
    <3>4. CASE i < j
      BY <1>2, <2>4, <2>5, <3>1, <3>2, <3>4
    <3>5. CASE j < i
      <4>1. got < Number(i)
        BY <2>1, <3>5, NumbersGrow
      <4> QED  BY <1>2, <2>1, <2>5, <3>2, <3>5, <4>1
    <3> QED  BY <1>2, <2>1, <3>3, <3>4, <3>5
  <2>8. Struck'
    BY <1>1, <1>2, <2>2 DEF IInv, Struck, Number
  <2> QED  BY <1>3, <2>6, <2>7, <2>8 DEF IInv
<1>5. CASE ~ \E j \in 1..sent : Number(j) = got
  <2>1. delivered' = delivered
    BY <1>5 DEF BandReceives
  <2>2. TypeOK'
    BY <1>1, <1>2, <2>1 DEF IInv, TypeOK, NextFrame
  <2>3. Delivery'
    <3> SUFFICES ASSUME NEW i \in 1..sent
                 PROVE  i <= delivered <=> Number(i) < got + 1
      BY <1>1, <2>1 DEF Delivery, Number
    <3>1. Number(i) \in Nat /\ Number(i) # got
      BY <1>5, PartTypes
    <3> QED  BY <1>2, <3>1 DEF IInv, Delivery
  <2>4. Struck'
    BY <1>1, <2>1 DEF IInv, Struck, Number
  <2> QED  BY <1>3, <2>2, <2>3, <2>4 DEF IInv
<1> QED  BY <1>4, <1>5

\* The band acknowledging all it has received keeps it.
LEMMA AckStep == IInv /\ BandAcks => IInv'
<1> SUFFICES ASSUME IInv, BandAcks PROVE IInv'
  OBVIOUS
<1> USE Sizes
<1>1. /\ UNCHANGED <<phase, kind, sent, confirmed, before, foreign, got, delivered>>
      /\ acked' = got /\ acked < got
      /\ acks' = Queue(acks, got - 1)
  BY DEF BandAcks, sender
<1>2. acks' \subseteq acks \cup {got - 1} /\ got - 1 \in acks'
  BY <1>1 DEF Queue
<1>3. /\ sent \in Nat /\ got \in Nat /\ delivered \in 0..sent /\ acked \in 0..got
      /\ confirmed \in 0..sent /\ foreign \in 0..MaxForeign /\ sent <= Total
      /\ got <= foreign + sent
  BY DEF IInv, TypeOK, NextFrame
<1>4. got - 1 \in Frames
  BY <1>1, <1>3 DEF Frames
<1>5. TypeOK'
  BY <1>1, <1>2, <1>3, <1>4 DEF IInv, TypeOK, NextFrame
<1>6. Queued'
  <2> SUFFICES ASSUME NEW a \in acks'
               PROVE  a < got /\ (confirmed > 0 => Number(confirmed) < a)
    BY <1>1 DEF Queued, Number
  <2>1. CASE a \in acks
    BY <1>1, <1>3, <2>1 DEF IInv, Queued, TypeOK, Frames
  <2>2. CASE a = got - 1
    <3>1. CASE confirmed > 0
      <4>1. confirmed \in 1..sent
        BY <1>3, <3>1
      <4>2. Number(confirmed) < acked /\ Number(confirmed) \in Nat
        BY <3>1, <4>1, PartTypes DEF IInv, Struck
      <4> QED  BY <1>1, <1>3, <2>2, <4>2
    <3> QED  BY <1>3, <2>2, <3>1
  <2> QED  BY <1>2, <2>1, <2>2
<1>7. (InOrder /\ Delivery /\ Windowed /\ Draining)'
  BY <1>1 DEF IInv, InOrder, Delivery, Windowed, Draining, Number
<1>9. Struck'
  <2>1. CASE confirmed > 0
    <3>1. confirmed \in 1..sent
      BY <1>3, <2>1
    <3>2. Number(confirmed) < acked /\ Number(confirmed) \in Nat
      BY <2>1, <3>1, PartTypes DEF IInv, Struck
    <3> QED  BY <1>1, <1>3, <3>2 DEF IInv, Struck, Number
  <2>2. CASE ~(confirmed > 0)
    BY <1>1, <2>2 DEF IInv, Struck
  <2> QED  BY <2>1, <2>2
<1>8. Pending'
  BY <1>1, <1>2 DEF Pending
<1> QED  BY <1>5, <1>6, <1>7, <1>8, <1>9 DEF IInv

\* The sender's next part keeps it (send_data).
LEMMA SendStep == IInv /\ SendPart => IInv'
<1> SUFFICES ASSUME IInv, SendPart PROVE IInv'
  OBVIOUS
<1> USE Sizes
<1>1. /\ UNCHANGED <<phase, kind, confirmed, got, delivered, acked, foreign, acks>>
      /\ sent' = sent + 1 /\ sent < Total /\ sent - confirmed < Window
      /\ before' = [before EXCEPT ![sent + 1] = foreign]
  BY DEF SendPart, band
<1>2. /\ sent \in Nat /\ got \in Nat /\ delivered \in 0..sent /\ acked \in 0..got
      /\ confirmed \in 0..sent /\ foreign \in 0..MaxForeign
      /\ got <= foreign + sent /\ sent + 1 \in Parts
      /\ before \in [Parts -> 0..MaxForeign]
  BY <1>1 DEF IInv, TypeOK, NextFrame, Parts
<1>3. /\ \A j \in 1..sent : before'[j] = before[j]
      /\ before'[sent + 1] = foreign
  BY <1>1, <1>2 DEF Parts
<1>4. TypeOK'
  BY <1>1, <1>2 DEF IInv, TypeOK, NextFrame
<1>5. InOrder'
  <2>1. \A j \in 1..sent : before[j] <= foreign /\ before[j] \in Nat
    BY PartTypes DEF IInv, InOrder
  <2>2. \A j \in 1..sent' : j \in 1..sent \/ j = sent + 1
    BY <1>1, <1>2
  <2>3. \A j \in 1..sent' : before'[j] <= foreign'
    BY <1>1, <1>2, <1>3, <2>1, <2>2
  <2>4. \A i, j \in 1..sent' : i <= j => before'[i] <= before'[j]
    BY <1>1, <1>2, <1>3, <2>1, <2>2 DEF IInv, InOrder
  <2> QED  BY <2>3, <2>4 DEF InOrder
<1>6. Delivery'
  <2> SUFFICES ASSUME NEW j \in 1..sent'
               PROVE  (j <= delivered <=> Number(j)' < got)
    BY <1>1 DEF Delivery
  <2>1. CASE j \in 1..sent
    <3>1. Number(j)' = Number(j)
      BY <1>3, <2>1 DEF Number
    <3> QED  BY <2>1, <3>1 DEF IInv, Delivery
  <2>2. CASE j = sent + 1
    <3>1. Number(j)' = foreign + sent
      BY <1>2, <1>3, <2>2 DEF Number
    <3> QED  BY <1>2, <2>2, <3>1
  <2> QED  BY <1>1, <1>2, <2>1, <2>2
<1>7. Queued' /\ Struck'
  <2>1. confirmed > 0 => Number(confirmed)' = Number(confirmed)
    BY <1>1, <1>2, <1>3 DEF Number
  <2> QED  BY <1>1, <2>1 DEF IInv, Queued, Struck
<1>8. Windowed' /\ Draining'
  BY <1>1, <1>2 DEF Windowed, Draining, SendPart
<1>9. Pending'
  <2>1. CASE confirmed < sent
    <3>1. Number(confirmed + 1)' = Number(confirmed + 1)
      BY <1>1, <1>2, <1>3, <2>1 DEF Number
    <3> QED  BY <1>1, <2>1, <3>1 DEF IInv, Pending
  <2>2. CASE confirmed = sent
    <3>1. Number(confirmed + 1)' = foreign + sent
      BY <1>1, <1>2, <1>3, <2>2 DEF Number
    <3> QED  BY <1>1, <1>2, <2>2, <3>1 DEF Pending
  <2> QED  BY <1>2, <2>1, <2>2
<1> QED  BY <1>4, <1>5, <1>6, <1>7, <1>8, <1>9 DEF IInv

\* Taking an acknowledgement keeps it, and confirms only what was delivered.
LEMMA PopStep ==
  ASSUME Quiet, IInv, PopAck
  PROVE  IInv' /\ confirmed <= confirmed' /\ confirmed' <= delivered
<1> USE Sizes
<1>1. PICK a \in acks : /\ \A b \in acks : a <= b
                        /\ acks' = acks \ {a}
                        /\ \E c \in confirmed .. sent : PopCovered(a, c) /\ confirmed' = c
  BY DEF PopAck
<1>2. PICK c \in confirmed .. sent : PopCovered(a, c) /\ confirmed' = c
  BY <1>1
<1>3. UNCHANGED <<phase, kind, sent, before, got, delivered, acked, foreign>>
  BY DEF PopAck, band
<1>4. /\ sent \in Nat /\ got \in Nat /\ delivered \in 0..sent /\ acked \in 0..got
      /\ confirmed \in 0..sent /\ foreign \in 0..MaxForeign
      /\ acks \subseteq Nat
  BY DEF IInv, TypeOK, NextFrame, Frames
<1>5. c \in Nat /\ confirmed <= c /\ c <= sent /\ a \in Nat /\ a < acked
  BY <1>4 DEF IInv, Queued
<1>6. c > confirmed => Number(c) <= a
  BY <1>2, <1>4, <1>5, CoversMeansNotLater DEF PopCovered
<1>7. c < sent => a < Number(c + 1)
  <2> SUFFICES ASSUME c < sent PROVE a < Number(c + 1)
    OBVIOUS
  <2>1. c + 1 \in confirmed + 1 .. sent /\ c + 1 \in 1..sent
    BY <1>4, <1>5
  <2>2. ~Covers(a, c + 1)
    BY <1>2 DEF PopCovered
  <2>3. ~(Number(c + 1) <= a)
    BY <2>1, <2>2, CoversMeansNotLater
  <2> QED  BY <1>5, <2>1, <2>3, PartTypes
<1>8. c > 0 => Number(c) < acked
  <2>1. CASE c > confirmed
    <3>1. c \in 1..sent
      BY <1>4, <1>5, <2>1
    <3> QED  BY <1>4, <1>5, <1>6, <2>1, <3>1, PartTypes
  <2>2. CASE c = confirmed
    BY <2>2 DEF IInv, Struck
  <2> QED  BY <1>4, <1>5, <2>1, <2>2
<1>9. c <= delivered
  <2>1. CASE c > confirmed
    <3>1. c \in 1..sent
      BY <1>4, <1>5, <2>1
    <3>2. Number(c) < got
      BY <1>4, <1>5, <1>6, <2>1, <3>1, PartTypes
    <3> QED  BY <3>1, <3>2 DEF IInv, Delivery
  <2>2. CASE c = confirmed
    BY <2>2 DEF IInv, Struck
  <2> QED  BY <1>4, <1>5, <2>1, <2>2
<1>10. TypeOK'
  BY <1>1, <1>2, <1>3, <1>4, <1>5 DEF IInv, TypeOK, NextFrame
<1>11. (InOrder /\ Delivery /\ Draining)'
  BY <1>3 DEF IInv, InOrder, Delivery, Draining, Number
<1>12. Queued'
  <2> SUFFICES ASSUME NEW b \in acks' PROVE b < acked /\ (c > 0 => Number(c) < b)
    BY <1>2, <1>3 DEF Queued, Number
  <2>1. b \in acks /\ b # a /\ a <= b /\ b \in Nat
    BY <1>1, <1>4
  <2>2. CASE c > confirmed
    <3>1. c \in 1..sent
      BY <1>4, <1>5, <2>2
    <3> QED  BY <1>5, <1>6, <2>1, <2>2, <3>1, PartTypes DEF IInv, Queued
  <2>3. CASE c = confirmed
    BY <2>1, <2>3 DEF IInv, Queued
  <2> QED  BY <1>4, <1>5, <2>2, <2>3
<1>13. Windowed'
  BY <1>2, <1>3, <1>4, <1>5 DEF IInv, Windowed
<1>14. Struck'
  BY <1>2, <1>3, <1>8, <1>9 DEF Struck, Number
<1>15. Pending'
  <2> SUFFICES ASSUME c < sent, Number(c + 1) < acked PROVE acked - 1 \in acks'
    BY <1>2, <1>3 DEF Pending, Number
  <2>1. c + 1 \in 1..sent /\ Number(c + 1) \in Nat
    BY <1>4, <1>5, PartTypes
  <2>2. acked - 1 # a
    BY <1>4, <1>5, <1>7, <2>1
  <2>3. confirmed < sent /\ confirmed + 1 \in 1..sent
    BY <1>4, <1>5
  <2>4. Number(confirmed + 1) <= Number(c + 1) /\ Number(confirmed + 1) \in Nat
    <3>1. CASE c = confirmed
      BY <2>1, <3>1
    <3>2. CASE confirmed < c
      BY <1>4, <1>5, <2>1, <2>3, <3>2, NumbersGrow, PartTypes
    <3> QED  BY <1>4, <1>5, <3>1, <3>2
  <2>5. acked - 1 \in acks
    BY <1>4, <2>1, <2>3, <2>4 DEF IInv, Pending
  <2> QED  BY <1>1, <2>2, <2>5
<1> QED
  BY <1>2, <1>5, <1>9, <1>10, <1>11, <1>12, <1>13, <1>14, <1>15 DEF IInv

\* So every step keeps it, while other traffic is light.
LEMMA StepIInv == Quiet /\ IInv /\ [Next]_vars => IInv'
<1> SUFFICES ASSUME Quiet, IInv, [Next]_vars PROVE IInv'
  OBVIOUS
<1>1. CASE ForeignFrame
  BY <1>1, ForeignStep
<1>2. CASE BandReceives
  BY <1>2, ReceiveStep
<1>3. CASE BandAcks
  BY <1>3, AckStep
<1>4. CASE SendPart
  BY <1>4, SendStep
<1>5. CASE WaitAck \/ DrainAck
  BY <1>5, PopStep DEF WaitAck, DrainAck
<1>6. CASE Start \/ Fail \/ BeginDrain \/ EndDrain \/ Finish \/ UNCHANGED vars
  BY <1>6, ControlSteps
<1> QED
  BY <1>1, <1>2, <1>3, <1>4, <1>5, <1>6 DEF Next

(***************************************************************************)
(* Theorems                                                                *)
(***************************************************************************)
\* The invariant holds of every quiet transfer.
THEOREM Invariance ==
  ASSUME Quiet
  PROVE  Spec => []IInv
<1>1. Init => IInv
  BY InitIInv
<1>2. IInv /\ [Next]_vars => IInv'
  BY StepIInv
<1> QED  BY <1>1, <1>2, PTL DEF Spec

\* Type correctness of a quiet transfer.
THEOREM TypeCorrect ==
  ASSUME Quiet
  PROVE  Spec => []TypeOK
<1>1. IInv => TypeOK
  BY DEF IInv
<1> QED  BY <1>1, Invariance, PTL

\* No part is struck off inflight before the band has it (ack_cumulative).
THEOREM NothingIsStruckOffEarly ==
  ASSUME Quiet
  PROVE  Spec => []AckedIsReceived
<1>1. IInv => AckedIsReceived
  <2> SUFFICES ASSUME IInv, NEW j \in 1..confirmed PROVE Number(j) < got
    BY DEF AckedIsReceived
  <2>1. /\ confirmed \in 0..sent /\ delivered \in 0..sent /\ sent \in Nat
        /\ confirmed <= delivered
    BY DEF IInv, TypeOK, Struck
  <2>2. j \in 1..sent /\ j <= delivered
    BY <2>1
  <2> QED  BY <2>2 DEF IInv, Delivery
<1> QED  BY <1>1, Invariance, PTL

\* No acknowledgement a full window waits for has been thrown away.
THEOREM NoAckIsWasted ==
  ASSUME Quiet
  PROVE  Spec => []NoLostAck
<1>1. IInv => NoLostAck
  <2> SUFFICES ASSUME IInv, confirmed < sent, Number(confirmed + 1) < acked
               PROVE  \E a \in acks : Number(confirmed + 1) <= a
    BY DEF NoLostAck
  <2>1. acked - 1 \in acks
    BY DEF IInv, Pending
  <2>2. confirmed + 1 \in 1..sent /\ acked \in Int
    BY DEF IInv, TypeOK
  <2>3. Number(confirmed + 1) <= acked - 1
    BY <2>2, PartTypes
  <2> QED  BY <2>1, <2>3
<1> QED  BY <1>1, Invariance, PTL

(***************************************************************************)
(* The transfer implements the sliding window.                             *)
(***************************************************************************)
\* A transfer begins where the window begins.
LEMMA InitRefines == Init => SW!Init
BY Sizes DEF Init, SW!Init

\* Every step of a transfer is one of the window, or leaves it alone.
LEMMA StepRefines ==
  ASSUME Quiet, IInv, [Next]_vars
  PROVE  [SW!Next]_SW!vars
<1> USE Sizes
<1>1. /\ sent \in Nat /\ delivered \in 0..sent /\ confirmed \in 0..sent
      /\ phase \in {"upload", "transfer", "drain", "done", "failed"}
  BY DEF IInv, TypeOK
<1>2. CASE ForeignFrame \/ BandAcks \/ UNCHANGED vars
  BY <1>2 DEF ForeignFrame, BandAcks, vars, sender, band, SW!vars
<1>3. CASE BandReceives
  <2>1. CASE \E j \in 1..sent : Number(j) = got
    <3>1. TypeOK'
      BY <1>3, ReceiveStep DEF IInv
    <3>2. delivered' = delivered + 1 /\ UNCHANGED sender
      BY <1>3, <2>1 DEF BandReceives
    <3>3. delivered < sent
      BY <1>1, <3>1, <3>2 DEF TypeOK, sender
    <3>4. SW!Deliver
      BY <3>2, <3>3 DEF SW!Deliver, sender
    <3> QED  BY <3>4 DEF SW!Next
  <2>2. CASE ~ \E j \in 1..sent : Number(j) = got
    BY <1>3, <2>2 DEF BandReceives, sender, SW!vars
  <2> QED  BY <2>1, <2>2
<1>4. CASE Start
  <2>1. SW!Start
    BY <1>4 DEF Start, band, SW!Start
  <2> QED  BY <2>1 DEF SW!Next
<1>5. CASE SendPart
  <2>1. SW!Send
    BY <1>5 DEF SendPart, band, SW!Send
  <2> QED  BY <2>1 DEF SW!Next
<1>6. CASE WaitAck \/ DrainAck
  <2>1. /\ PopAck /\ phase \in {"transfer", "drain"}
        /\ UNCHANGED <<phase, kind, sent, delivered>>
    BY <1>6 DEF WaitAck, DrainAck, MustWait, PopAck, band
  <2>2. confirmed <= confirmed' /\ confirmed' <= delivered
    BY <2>1, PopStep
  <2>3. confirmed' \in Nat
    BY <2>1, <1>1, PopStep DEF IInv, TypeOK
  <2>4. CASE confirmed' = confirmed
    BY <2>1, <2>4 DEF SW!vars
  <2>5. CASE confirmed' # confirmed
    <3>1. confirmed' \in confirmed + 1 .. delivered
      BY <1>1, <2>2, <2>3, <2>5
    <3>2. SW!Confirm
      BY <2>1, <3>1 DEF SW!Confirm
    <3> QED  BY <3>2 DEF SW!Next
  <2> QED  BY <2>4, <2>5
<1>7. CASE Fail
  <2>1. SW!Fail
    BY <1>7 DEF Fail, band, SW!Fail
  <2> QED  BY <2>1 DEF SW!Next
<1>8. CASE BeginDrain
  BY <1>8 DEF BeginDrain, band, SW!vars
<1>9. CASE Finish
  <2>1. SW!Finish
    BY <1>9 DEF Finish, band, SW!Finish
  <2> QED  BY <2>1 DEF SW!Next
<1>10. CASE EndDrain
  <2>1. SW!Finish
    BY <1>10 DEF IInv, Draining, EndDrain, band, SW!Finish
  <2> QED  BY <2>1 DEF SW!Next
<1> QED
  BY <1>2, <1>3, <1>4, <1>5, <1>6, <1>7, <1>8, <1>9, <1>10 DEF Next

\* Every quiet transfer is a sliding window over in-order delivery: parts are
\* confirmed only once delivered, at most Window are unconfirmed, and an app
\* transfer is done only with every part delivered.
THEOREM Implements ==
  ASSUME Quiet
  PROVE  Spec => SlidingWindowSpec
<1>1. Init => SW!Init
  BY InitRefines
<1>2. IInv /\ [Next]_vars => [SW!Next]_SW!vars
  BY StepRefines
<1> QED  BY <1>1, <1>2, Invariance, PTL DEF Spec, SlidingWindowSpec, SW!Spec
=============================================================================

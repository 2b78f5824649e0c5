-------------------------- MODULE AppInstallProofs --------------------------
(***************************************************************************)
(* Proofs about the install of an app, for every set of packages, every    *)
(* size and every bound.  First the transport: the body handed to the band *)
(* is the declared file, an install is believed only on replies to itself, *)
(* and the gate is closed whenever no install runs.  Then the desktop's    *)
(* service: an install that is said to be done was sent whole, committed   *)
(* last and concluded by the core, and a cancelled one is left alone.      *)
(*                                                                         *)
(* TypeOK is inductive only with Phases: what a call waits for, the status *)
(* of the service's session and the three copies of the file agree.  The   *)
(* other invariants rest on both.                                          *)
(***************************************************************************)
EXTENDS MCAppInstall, SequenceTheorems, FiniteSetTheorems, TLAPS

Sending == {"waitMass", "transfer", "acked", "unacked"}

\* The call that runs fits the status of the service's session.
CallFitsStatus ==
  /\ op = "waitReady" => cstat = "preparing"
  /\ op \in Sending => cstat = "transferring"
  /\ op \in {"waitResult", "waitList"} => cstat = "verifying"

\* The service's file is the transport's, from its answer to prepare on.
OneFile ==
  /\ cstat # "none" => cfile \in Files
  /\ cstat = "preparing" => meta = cfile /\ cnext = 0
  /\ cstat \in {"transferring", "sent", "verifying"} => meta = cfile /\ session = cfile

Phases == CallFitsStatus /\ OneFile

\* The chunks counted so far are the last ones of the buffer, in order; what lies
\* before them is left from an install that failed.
Assembled ==
  /\ cstat = "transferring" =>
       /\ sent \in 0..Size[cfile] /\ sent <= Len(buffer)
       /\ sent = IF op \in Sending THEN cnext + 1 ELSE cnext
       /\ \A i \in 1..sent : buffer[Len(buffer) - sent + i] = <<cfile, i>>
  /\ op = "transfer" => sent = Size[cfile]
  /\ WholeFile

Elements(s) == {s[i] : i \in 1..Len(s)}

\* Frames of the band that name no package, and a list it has sent is one.
WellFormed(f) ==
  /\ f.kind \in {"ready", "mass", "faces"} => f.apps = {}
  /\ f.kind = "list" => f.ok

Waiting == Elements(inq) \cup Elements(events)

\* A frame that waits and that this install would believe was read since it began,
\* and what the install has gone through was heard.
FramesAreFormed == \A f \in Elements(air) \cup Waiting : WellFormed(f)
WaitingWasHeard == \A f \in Waiting : Accepts(f) => f.kind \in heard
StagesWereHeard ==
  /\ cstat \in {"transferring", "sent", "verifying"} => "ready" \in heard
  /\ cstat = "transferring" /\ prepared => "mass" \in heard
  /\ op = "transfer" => prepared
  /\ op = "waitList" => "result" \in heard
  /\ outcome = "completed" => {"result", "list"} \subseteq heard

Believed == FramesAreFormed /\ WaitingWasHeard /\ StagesWereHeard

-----------------------------------------------------------------------------
(***************************************************************************)
(* The queues                                                              *)
(***************************************************************************)
QueueTypes ==
  /\ air \in Seq(Frames) /\ inq \in Seq(Frames) /\ events \in Seq(Frames)
  /\ Len(events) <= QueueMax

\* A call takes the first of the frames that wait, and drops none of the others
\* but those it moves to its own queue.
LEMMA Taken ==
  ASSUME QueueTypes, NEW k, TakeFrame(k)
  PROVE  /\ Head(Incoming) \in Frames /\ Head(Incoming).kind = k
         /\ inq' \in Seq(Frames) /\ events' = <<>> /\ events' \in Seq(Frames)
         /\ Len(events') <= QueueMax
  <1>1. Incoming \in Seq(Frames)
    BY DEF QueueTypes, Incoming
  <1> HIDE DEF Incoming
  <1>2. Head(Incoming) \in Frames /\ Tail(Incoming) \in Seq(Frames)
    BY <1>1, HeadTailProperties DEF TakeFrame
  <1>3. Len(<<>>) = 0 /\ <<>> \in Seq(Frames)
    BY EmptySeq
  <1> QED
    BY <1>2, <1>3, QueueAssumption DEF TakeFrame

\* The global queue keeps its frames and its limit.
LEMMA DispatchedType ==
  ASSUME QueueTypes, NEW f \in Frames
  PROVE  Dispatched(f) \in Seq(Frames) /\ Len(Dispatched(f)) <= QueueMax
  <1> DEFINE q == Append(events, f)
  <1>1. q \in Seq(Frames) /\ q # <<>> /\ Len(q) = Len(events) + 1
    BY AppendProperties DEF QueueTypes
  <1>2. Tail(q) \in Seq(Frames) /\ Len(Tail(q)) = Len(q) - 1
    BY <1>1, HeadTailProperties
  <1>3. Len(events) \in Nat
    BY DEF QueueTypes
  <1> HIDE DEF q
  <1>4. Dispatched(f) = IF Len(q) > QueueMax THEN Tail(q) ELSE q
    BY DEF Dispatched, q
  <1> QED
    BY <1>1, <1>2, <1>3, <1>4, QueueAssumption DEF QueueTypes

\* A query goes out: the band's frames stay frames.
LEMMA AnswerType ==
  ASSUME QueueTypes, NEW S \in SUBSET Frames, BandMayAnswer(S)
  PROVE  air' \in Seq(Frames)
  <1>1. \A f \in S : Append(air, f) \in Seq(Frames)
    BY AppendProperties DEF QueueTypes
  <1> QED
    BY <1>1 DEF QueueTypes, BandMayAnswer

\* The queries' possible answers are frames.
LEMMA AnswersAreFrames ==
  ASSUME installed \subseteq Files
  PROVE  /\ \A k \in {"ready", "mass"} : {Frame(k, {}, ok) : ok \in BOOLEAN} \subseteq Frames
         /\ {Frame("list", installed, TRUE)} \subseteq Frames
         /\ {Frame("faces", {}, TRUE)} \subseteq Frames
  BY DEF Frames, Frame, Kinds

-----------------------------------------------------------------------------
(***************************************************************************)
(* Types and phases                                                        *)
(***************************************************************************)
\* Every step keeps the queues to frames, and the global one to its limit.
LEMMA QueuesStep ==
  ASSUME TypeOK, [Next]_vars
  PROVE  QueueTypes'
  <1>1. QueueTypes /\ installed \subseteq Files
    BY DEF TypeOK, QueueTypes
  <1>2. Len(<<>>) = 0 /\ <<>> \in Seq(Frames)
    BY EmptySeq
  <1> USE QueueAssumption DEF queues, radio, Fails
  <1>3. CASE UNCHANGED <<air, queues>>
    BY <1>1, <1>3 DEF QueueTypes
  <1>4. CASE LinkUp \/ LinkReleased \/ WaitFails \/ ChunkRejected \/ LaterChunk
             \/ SizeMismatch \/ BodyArrives \/ Commit \/ ResultTimesOut \/ Cancel
             \/ UNCHANGED vars
    <2>1. UNCHANGED <<air, queues>>
      BY <1>4 DEF LinkUp, LinkReleased, WaitFails, ChunkRejected, LaterChunk, TakeChunk,
                  SizeMismatch, BodyArrives, Commit, ResultTimesOut, Cancel, vars
    <2> QED
      BY <2>1, <1>3
  <1>5. CASE PumpExits
    BY <1>1, <1>2, <1>5 DEF PumpExits, QueueTypes
  <1>6. CASE PumpReads
    <2>1. Head(air) \in Frames /\ Tail(air) \in Seq(Frames)
      BY <1>1, <1>6, HeadTailProperties DEF PumpReads, QueueTypes
    <2> QED
      BY <1>1, <1>6, <2>1, DispatchedType DEF PumpReads, QueueTypes
  <1>7. CASE BandReports
    <2>1. job.file \in Files
      BY <1>7 DEF BandReports, TypeOK
    <2>2. \A ok \in BOOLEAN, apps \in {{job.file}, {}} : Frame("result", apps, ok) \in Frames
      BY <2>1 DEF Frame, Frames, Kinds
    <2>3. \A f \in Frames : Append(air, f) \in Seq(Frames)
      BY <1>1, AppendProperties DEF QueueTypes
    <2>4. air' \in Seq(Frames) /\ UNCHANGED queues
      BY <1>7, <2>2, <2>3 DEF BandReports
    <2> QED
      BY <1>1, <2>4 DEF QueueTypes
  <1>8. ASSUME NEW f \in Files, Prepare(f)
        PROVE  QueueTypes'
    <2>1. air' \in Seq(Frames)
      BY <1>1, <1>8, AnswerType, AnswersAreFrames DEF Prepare, QueueTypes
    <2> QED
      BY <1>2, <1>8, <2>1 DEF Prepare, QueueTypes
  <1>9. CASE SkipFrame \/ PrepareReady \/ BandRefuses \/ MassReady \/ ResultIsBad
             \/ ListShowsIt \/ ListLacksIt
    <2>1. (\E k \in Kinds : TakeFrame(k)) /\ UNCHANGED air
      BY <1>9 DEF SkipFrame, PrepareReady, BandRefuses, MassReady, ResultIsBad,
                  ListShowsIt, ListLacksIt, Kinds
    <2> QED
      BY <1>1, <2>1, Taken DEF QueueTypes
  <1>10. CASE FirstChunk
    <2>1. air' \in Seq(Frames)
      BY <1>1, <1>10, AnswerType, AnswersAreFrames DEF FirstChunk, QueueTypes
    <2> QED
      BY <1>1, <1>10, <2>1 DEF FirstChunk, TakeChunk, QueueTypes
  <1>11. CASE TransferDone \/ TransferBreaks
    <2>1. Incoming \in Seq(Frames)
      BY <1>1, ConcatProperties DEF Incoming, QueueTypes
    <2>2. inq' = Incoming /\ events' = <<>> /\ UNCHANGED air
      BY <1>11 DEF TransferDone, TransferBreaks
    <2> QED
      BY <1>1, <1>2, <2>1, <2>2 DEF QueueTypes
  <1>12. CASE ResultIsGood
    <2>1. air' \in Seq(Frames)
      BY <1>1, <1>12, AnswerType, AnswersAreFrames DEF ResultIsGood, QueueTypes
    <2> QED
      BY <1>1, <1>12, <2>1, Taken DEF ResultIsGood, QueueTypes
  <1>13. CASE Faces
    <2>1. air' \in Seq(Frames)
      BY <1>1, <1>13, AnswerType, AnswersAreFrames DEF Faces, QueueTypes
    <2>2. (events' = events /\ inq' = inq) \/ (events' = <<>> /\ inq' = <<>>)
      BY <1>13 DEF Faces
    <2>3. CASE events' = events /\ inq' = inq
      BY <1>1, <2>1, <2>3 DEF QueueTypes
    <2>4. CASE events' = <<>> /\ inq' = <<>>
      <3>1. events' \in Seq(Frames) /\ inq' \in Seq(Frames)
        BY <1>2, <2>4, Zenon
      <3>2. Len(events') <= QueueMax
        BY <1>2, <2>4
      <3> QED
        BY <2>1, <3>1, <3>2 DEF QueueTypes
    <2> QED
      BY <2>2, <2>3, <2>4
  <1>14. CASE FacesEnd
    BY <1>1, <1>14, Taken DEF FacesEnd, QueueTypes
  <1> QED
    BY <1>4, <1>5, <1>6, <1>7, <1>8, <1>9, <1>10, <1>11, <1>12, <1>13, <1>14 DEF Next, Calls

\* The other variables: what a call may leave of them.
CallTypes ==
  /\ link \in {"up", "closing", "down"} /\ gate \in BOOLEAN /\ prepared \in BOOLEAN
  /\ meta \in Files \cup {NoFile} /\ session \in Files \cup {NoFile}
  /\ sent \in Nat /\ cnext \in Nat
  /\ buffer \in Seq(Files \X Nat)
  /\ op \in {"waitReady", "waitMass", "waitResult", "waitList", "waitFaces",
             "none", "transfer", "acked", "unacked"}
  /\ job = NoFile \/ job \in [file : Files, body : Seq(Files \X Nat)]
  /\ installed \subseteq Files
  /\ cfile \in Files \cup {NoFile}
  /\ cstat \in {"none", "preparing", "transferring", "sent", "verifying", "failed", "unknown"}
  /\ outcome \in {"none", "completed", "unknown"}
  /\ heard \subseteq Kinds

\* The types, those of the queue apart.
LEMMA TypesSplit == TypeOK <=> QueueTypes /\ CallTypes
  BY DEF TypeOK, QueueTypes, CallTypes, Awaited

\* Every step keeps the other types, and the phases with them.
LEMMA CallsStep ==
  ASSUME TypeOK, Phases, [Next]_vars
  PROVE  CallTypes' /\ Phases'
  <1>0. CallTypes
    BY TypesSplit
  <1> USE FilesAssumption
      DEF Phases, CallFitsStatus, OneFile, Sending, proto, band, service, history, Linked
  <1>1. CASE LinkUp \/ PumpExits \/ LinkReleased
    <2>1. /\ UNCHANGED <<meta, session, sent, prepared, buffer, op, job, installed,
                         cfile, cnext, cstat, outcome, heard>>
          /\ link' \in {"up", "closing", "down"} /\ gate' \in BOOLEAN
      BY <1>0, <1>1 DEF LinkUp, PumpExits, LinkReleased, CallTypes
    <2> QED
      BY <1>0, <2>1 DEF CallTypes
  <1>2. CASE PumpReads
    <2>1. Head(air) \in Frames
      BY <1>2, HeadTailProperties DEF PumpReads, TypeOK
    <2>2. Head(air).kind \in Kinds
      BY <2>1 DEF Frames
    <2>3. heard' \subseteq Kinds
      BY <1>0, <1>2, <2>2 DEF PumpReads, CallTypes
    <2> QED
      BY <1>0, <1>2, <2>3 DEF PumpReads, CallTypes
  <1>3. CASE BandReports
    BY <1>0, <1>3 DEF BandReports, CallTypes, radio
  <1>4. ASSUME NEW f \in Files, Prepare(f)
        PROVE  CallTypes' /\ Phases'
    BY <1>0, <1>4 DEF Prepare, MayPrepare, CallTypes
  <1>5. CASE SkipFrame
    <2>1. UNCHANGED <<link, gate, meta, session, sent, prepared, buffer, op, job, installed,
                      cfile, cnext, cstat, outcome, heard>>
      BY <1>5 DEF SkipFrame, radio
    <2> QED
      BY <1>0, <2>1 DEF CallTypes
  <1>6. CASE PrepareReady
    BY <1>0, <1>6 DEF PrepareReady, CallTypes, radio
  <1>7. CASE WaitFails \/ BandRefuses \/ ChunkRejected \/ SizeMismatch \/ TransferBreaks
             \/ ResultIsBad \/ ListLacksIt
    <2>1. UNCHANGED <<link, meta, session, sent, prepared, buffer, job, installed, outcome, heard>>
      BY <1>7 DEF WaitFails, BandRefuses, ChunkRejected, SizeMismatch, TransferBreaks,
                  ResultIsBad, ListLacksIt, radio
    <2>2. Fails /\ cstat # "none"
      BY <1>7 DEF WaitFails, BandRefuses, ChunkRejected, NextChunk, SizeMismatch,
                  TransferBreaks, ResultIsBad, ListLacksIt
    <2> QED
      BY <1>0, <2>1, <2>2 DEF CallTypes, Fails
  <1>8. ASSUME TakeChunk
        PROVE  /\ buffer' \in Seq(Files \X Nat) /\ sent' \in Nat
               /\ op = "none" /\ cstat = "transferring" /\ cfile \in Files
    <2>1. <<cfile, cnext + 1>> \in Files \X Nat /\ buffer \in Seq(Files \X Nat) /\ sent \in Nat
      BY <1>0, <1>8 DEF TakeChunk, NextChunk, CallTypes
    <2>2. Append(buffer, <<cfile, cnext + 1>>) \in Seq(Files \X Nat)
      BY <2>1, AppendProperties
    <2> QED
      BY <1>8, <2>1, <2>2 DEF TakeChunk, NextChunk
  <1>9. CASE FirstChunk
    <2>1. UNCHANGED <<link, meta, session, prepared, job, installed, outcome, heard>>
      BY <1>9 DEF FirstChunk, TakeChunk
    <2>2. TakeChunk
      BY <1>9 DEF FirstChunk
    <2>3. Fails \/ (op' = "waitMass" /\ gate' = TRUE /\ UNCHANGED <<cfile, cnext, cstat>>)
      BY <1>9 DEF FirstChunk
    <2>4. CASE Fails
      BY <1>0, <1>8, <2>1, <2>2, <2>4 DEF CallTypes, Fails
    <2>5. CASE op' = "waitMass" /\ gate' = TRUE /\ UNCHANGED <<cfile, cnext, cstat>>
      BY <1>0, <1>8, <2>1, <2>2, <2>5 DEF CallTypes
    <2> QED
      BY <2>3, <2>4, <2>5
  <1>10. CASE LaterChunk
    BY <1>0, <1>8, <1>10 DEF LaterChunk, TakeChunk, CallTypes
  <1>11. CASE MassReady
    BY <1>0, <1>11 DEF MassReady, CallTypes, radio
  <1>18. CASE TransferDone
    BY <1>0, <1>18 DEF TransferDone, CallTypes, radio
  <1>12. CASE BodyArrives
    BY <1>0, <1>12 DEF BodyArrives, CallTypes, radio
  <1>13. CASE Commit \/ ResultTimesOut \/ ListShowsIt
    BY <1>0, <1>13 DEF Commit, ResultTimesOut, ListShowsIt, CallTypes, radio
  <1>14. CASE ResultIsGood
    <2>1. UNCHANGED <<link, meta, session, sent, prepared, buffer, job, installed, outcome, heard>>
      BY <1>14 DEF ResultIsGood
    <2>2. Fails \/ (op' = "waitList" /\ UNCHANGED <<gate, cfile, cnext, cstat>>)
      BY <1>14 DEF ResultIsGood
    <2>3. cstat = "verifying"
      BY <1>14 DEF ResultIsGood
    <2>4. CASE Fails
      BY <1>0, <2>1, <2>4, <2>3 DEF CallTypes, Fails
    <2>5. CASE op' = "waitList" /\ UNCHANGED <<gate, cfile, cnext, cstat>>
      BY <1>0, <2>1, <2>5, <2>3 DEF CallTypes
    <2> QED
      BY <2>2, <2>4, <2>5
  <1>15. CASE Cancel
    <2>1. <<>> \in Seq(Files \X Nat)
      BY EmptySeq
    <2> QED
      BY <1>0, <1>15, <2>1 DEF Cancel, CallTypes, radio
  <1>16. CASE Faces \/ FacesEnd
    <2>1. /\ UNCHANGED <<link, meta, session, sent, prepared, buffer, job, installed,
                         cfile, cnext, cstat, outcome, heard>>
          /\ gate' \in BOOLEAN /\ op' \in {"none", "waitFaces"}
      BY <1>16 DEF Faces, FacesEnd, radio
    <2> QED
      BY <1>0, <2>1 DEF CallTypes
  <1>17. CASE UNCHANGED vars
    BY <1>0, <1>17 DEF vars, CallTypes, radio
  <1> QED
    BY <1>1, <1>2, <1>3, <1>4, <1>5, <1>6, <1>7, <1>9, <1>10, <1>11, <1>12, <1>13, <1>14,
       <1>15, <1>16, <1>17, <1>18 DEF Next, Calls

\* The types hold, and with them the phases.
LEMMA Typing == Spec => [](TypeOK /\ Phases)
  <1>1. Init => TypeOK /\ Phases
    <2> SUFFICES ASSUME Init PROVE QueueTypes /\ CallTypes /\ Phases
      BY TypesSplit
    <2>1. <<>> \in Seq(Files \X Nat) /\ <<>> \in Seq(Frames) /\ Len(<<>>) = 0
      BY EmptySeq
    <2> QED
      <3>1. QueueTypes
        BY <2>1, QueueAssumption, SMT DEF Init, QueueTypes
      <3>2. CallTypes
        <4>1. buffer \in Seq(Files \X Nat)
          BY <2>1, Zenon DEF Init
        <4> QED
          BY <4>1 DEF Init, CallTypes
      <3>3. Phases
        BY DEF Init, Phases, CallFitsStatus, OneFile, Sending
      <3> QED
        BY <3>1, <3>2, <3>3
  <1>2. TypeOK /\ Phases /\ [Next]_vars => (TypeOK /\ Phases)'
    <2> SUFFICES ASSUME TypeOK, Phases, [Next]_vars
                 PROVE  TypeOK' /\ Phases'
      OBVIOUS
    <2>1. QueueTypes' /\ CallTypes' /\ Phases'
      BY QueuesStep, CallsStep
    <2> QED
      BY <2>1 DEF TypeOK, QueueTypes, CallTypes, Awaited
  <1> QED
    BY <1>1, <1>2, PTL DEF Spec

\* Types of the transport and of the service's session hold, and the queue that
\* crosses threads never outgrows MAX_INSTALL_EVENT_QUEUE, for any number of
\* packages, links, installs and frames (runtime_bridge.rs).
THEOREM TypeCorrect == Spec => []TypeOK
  BY Typing, PTL
-----------------------------------------------------------------------------
(***************************************************************************)
(* The gate                                                                *)
(***************************************************************************)
\* The gate is open only while a call runs or an install is between its calls,
\* whichever way the calls and the link end (runtime_bridge.rs).
THEOREM GateIsClosedWhenIdle == Spec => []GateOnlyDuringInstall
  <1>1. Init => GateOnlyDuringInstall
    BY DEF Init, GateOnlyDuringInstall
  <1>2. ASSUME TypeOK, Phases, GateOnlyDuringInstall, [Next]_vars
        PROVE  GateOnlyDuringInstall'
    <2> USE <1>2 DEF GateOnlyDuringInstall
    <2>1. CASE UNCHANGED <<gate, op, cstat>>
      BY <2>1
    <2>2. CASE gate' = FALSE
      BY <2>2
    <2>3. CASE op' # "none"
      BY <2>3
    <2>4. CASE cstat' \in {"transferring", "sent"}
      BY <2>4
    <2>5. CASE Next
      <3>1. CASE LinkUp \/ PumpExits \/ LinkReleased \/ PumpReads \/ BandReports \/ SkipFrame
        BY <2>1, <2>2, <3>1 DEF LinkUp, PumpExits, LinkReleased, PumpReads, BandReports,
                                SkipFrame, radio, service
      <3>2. CASE WaitFails \/ BandRefuses \/ ChunkRejected \/ SizeMismatch \/ TransferBreaks
                 \/ ResultIsBad \/ ListLacksIt
        BY <2>2, <3>2 DEF WaitFails, BandRefuses, ChunkRejected, SizeMismatch,
                          TransferBreaks, ResultIsBad, ListLacksIt, Fails
      <3>3. ASSUME NEW f \in Files, Prepare(f)
            PROVE  gate' = FALSE \/ op' # "none"
        BY <3>3 DEF Prepare
      <3>4. CASE FirstChunk \/ LaterChunk
        BY <2>2, <2>3, <2>4, <3>4 DEF FirstChunk, LaterChunk, TakeChunk, NextChunk, Fails
      <3>5. CASE PrepareReady \/ MassReady \/ TransferDone
        BY <2>4, <3>5 DEF PrepareReady, MassReady, TransferDone, Phases, CallFitsStatus, Sending
      <3>6. CASE BodyArrives \/ Commit
        BY <2>2, <2>3, <3>6 DEF BodyArrives, Commit
      <3>7. CASE ResultIsGood
        BY <2>2, <2>3, <3>7 DEF ResultIsGood, Fails
      <3>8. CASE ResultTimesOut \/ ListShowsIt \/ Cancel \/ FacesEnd
        BY <2>2, <3>8 DEF ResultTimesOut, ListShowsIt, Cancel, FacesEnd
      <3>9. CASE Faces
        BY <2>2, <2>3, <3>9 DEF Faces
      <3> QED
        BY <2>2, <2>3, <2>5, <3>1, <3>2, <3>3, <3>4, <3>5, <3>6, <3>7, <3>8, <3>9 DEF Next, Calls
    <2> QED
      BY <1>2, <2>1, <2>5 DEF vars, service
  <1> QED
    BY <1>1, <1>2, Typing, PTL DEF Spec

-----------------------------------------------------------------------------
(***************************************************************************)
(* The body                                                                *)
(***************************************************************************)
\* A chunk more: the last ones of the buffer are still in order.
LEMMA ChunkAppended ==
  ASSUME NEW b \in Seq(Files \X Nat), NEW n \in Nat, n <= Len(b), NEW f \in Files,
         \A i \in 1..n : b[Len(b) - n + i] = <<f, i>>
  PROVE  LET c == Append(b, <<f, n + 1>>)
         IN  /\ n + 1 <= Len(c)
             /\ \A i \in 1..(n + 1) : c[Len(c) - (n + 1) + i] = <<f, i>>
  <1> DEFINE c == Append(b, <<f, n + 1>>)
  <1>1. <<f, n + 1>> \in Files \X Nat
    OBVIOUS
  <1>2. /\ Len(c) = Len(b) + 1 /\ Len(b) \in Nat
        /\ \A i \in 1..Len(b) : c[i] = b[i]
        /\ c[Len(b) + 1] = <<f, n + 1>>
    BY <1>1, AppendProperties
  <1> HIDE DEF c
  <1>3. ASSUME NEW i \in 1..(n + 1)
        PROVE  c[Len(c) - (n + 1) + i] = <<f, i>>
    <2>1. Len(c) - (n + 1) + i = Len(b) - n + i
      BY <1>2
    <2>2. CASE i = n + 1
      BY <1>2, <2>1, <2>2
    <2>3. CASE i \in 1..n
      <3>1. Len(b) - n + i \in 1..Len(b)
        BY <1>2, <2>3
      <3>2. b[Len(b) - n + i] = <<f, i>>
        BY <2>3
      <3> QED
        BY <1>2, <2>1, <3>1, <3>2
    <2> QED
      BY <2>2, <2>3
  <1>4. n + 1 <= Len(c)
    BY <1>2
  <1> QED
    BY <1>3, <1>4 DEF c

\* A buffer of the declared length whose last chunks are all of the file's is the
\* file's body.
LEMMA WholeBuffer ==
  ASSUME NEW f \in Files, NEW b \in Seq(Files \X Nat), Len(b) = Size[f],
         \A i \in 1..Size[f] : b[Len(b) - Size[f] + i] = <<f, i>>
  PROVE  b = Body(f)
  <1>1. Size[f] \in Nat
    BY FilesAssumption
  <1>2. \A i \in 1..Len(b) : b[i] = <<f, i>>
    BY <1>1
  <1>3. b = [i \in 1..Len(b) |-> b[i]]
    BY LenProperties
  <1> QED
    BY <1>2, <1>3 DEF Body

\* Every step keeps the buffer in order.
LEMMA AssembledStep ==
  ASSUME TypeOK, Phases, Assembled, [Next]_vars
  PROVE  Assembled'
  <1>0. /\ sent \in Nat /\ cnext \in Nat /\ buffer \in Seq(Files \X Nat)
        /\ cstat # "none" => cfile \in Files /\ Size[cfile] \in Nat \ {0}
    BY FilesAssumption DEF TypeOK, Phases, OneFile
  <1> USE DEF Assembled, Sending, Phases, CallFitsStatus, OneFile, proto, service, band
  <1>1. CASE /\ UNCHANGED <<sent, buffer, cfile, job>>
             /\ cstat' # "transferring" /\ op' # "transfer"
    BY <1>1 DEF WholeFile
  <1>2. CASE UNCHANGED <<sent, buffer, cfile, job, cstat, cnext>> /\ op' = op
    BY <1>2 DEF WholeFile
  <1>3. CASE LinkUp \/ PumpExits \/ LinkReleased \/ PumpReads \/ SkipFrame \/ UNCHANGED vars
    BY <1>2, <1>3 DEF LinkUp, PumpExits, LinkReleased, PumpReads, SkipFrame, vars
  <1>4. CASE BandReports
    BY <1>4 DEF BandReports, WholeFile
  <1>5. CASE WaitFails \/ BandRefuses \/ ChunkRejected \/ SizeMismatch \/ TransferBreaks
             \/ ResultIsBad \/ ListLacksIt
    BY <1>1, <1>5 DEF WaitFails, BandRefuses, ChunkRejected, SizeMismatch, TransferBreaks,
                      ResultIsBad, ListLacksIt, Fails
  <1>6. ASSUME NEW f \in Files, Prepare(f)
        PROVE  Assembled'
    BY <1>6 DEF Prepare, WholeFile
  <1>7. CASE PrepareReady
    BY <1>0, <1>7, LenProperties DEF PrepareReady, WholeFile
  <1>8. CASE FirstChunk \/ LaterChunk
    <2>1. /\ NextChunk /\ session = cfile /\ job' = job /\ cfile' = cfile
          /\ buffer' = Append(buffer, <<cfile, sent + 1>>) /\ sent' = sent + 1
      BY <1>0, <1>8 DEF FirstChunk, LaterChunk, TakeChunk, NextChunk, Fails
    <2>2. /\ sent + 1 <= Len(buffer')
          /\ \A i \in 1..(sent + 1) : buffer'[Len(buffer') - (sent + 1) + i] = <<cfile, i>>
      BY <1>0, <2>1, ChunkAppended DEF NextChunk
    <2>3. sent + 1 \in 0..Size[cfile] /\ sent = cnext
      BY <1>0, <2>1 DEF NextChunk
    <2>4. /\ cstat' = "transferring" =>
               sent' = IF op' \in Sending THEN cnext' + 1 ELSE cnext'
          /\ op' = "transfer" => sent' = Size[cfile']
      BY <1>0, <1>8, <2>1, <2>3 DEF FirstChunk, LaterChunk, TakeChunk, NextChunk, Fails
    <2> QED
      BY <2>1, <2>2, <2>3, <2>4 DEF WholeFile
  <1>9. CASE MassReady
    <2>1. /\ UNCHANGED <<sent, buffer, cfile, cstat, job>> /\ cstat = "transferring"
          /\ session = cfile /\ sent = cnext + 1
      BY <1>9 DEF MassReady
    <2>2. \/ op' = "transfer" /\ cnext' = cnext /\ sent >= Size[cfile]
          \/ op' = "none" /\ cnext' = cnext + 1
      BY <1>9, <2>1 DEF MassReady
    <2>3. /\ sent \in 0..Size[cfile] /\ sent <= Len(buffer)
          /\ \A i \in 1..sent : buffer[Len(buffer) - sent + i] = <<cfile, i>>
      BY <2>1
    <2>4. /\ sent = IF op' \in Sending THEN cnext' + 1 ELSE cnext'
          /\ op' = "transfer" => sent = Size[cfile]
      BY <1>0, <2>1, <2>2, <2>3
    <2> QED
      BY <2>1, <2>3, <2>4 DEF WholeFile
  <1>10. CASE BodyArrives
    <2>1. buffer = Body(meta)
      BY <1>0, <1>10, WholeBuffer DEF BodyArrives, SizeMatches
    <2>2. job'.body = Body(job'.file)
      BY <1>10, <2>1 DEF BodyArrives
    <2> QED
      BY <1>10, <2>2 DEF BodyArrives, WholeFile
  <1>11. CASE TransferDone \/ Commit \/ ResultTimesOut
    BY <1>1, <1>11 DEF TransferDone, Commit, ResultTimesOut
  <1>12. CASE ResultIsGood \/ ListShowsIt
    BY <1>1, <1>12 DEF ResultIsGood, ListShowsIt, Fails
  <1>13. CASE Cancel
    BY <1>13 DEF Cancel, WholeFile
  <1>14. CASE Faces \/ FacesEnd
    BY <1>14 DEF Faces, FacesEnd, WholeFile
  <1> QED
    BY <1>3, <1>4, <1>5, <1>6, <1>7, <1>8, <1>9, <1>10, <1>11, <1>12, <1>13, <1>14 DEF Next, Calls

\* Whatever failed, was cancelled or was left in the buffer by an earlier install,
\* the body handed to the band is the declared file, for every size of every
\* package (protocol.rs).
THEOREM BodyIsWholeFile == Spec => []WholeFile
  <1>1. Init => Assembled
    BY DEF Init, Assembled, WholeFile
  <1>2. TypeOK /\ Phases /\ Assembled /\ [Next]_vars => Assembled'
    BY AssembledStep
  <1>3. Assembled => WholeFile
    BY DEF Assembled
  <1> QED
    BY <1>1, <1>2, <1>3, Typing, PTL DEF Spec
-----------------------------------------------------------------------------
(***************************************************************************)
(* What is believed                                                        *)
(***************************************************************************)
\* The elements of the sequences a step may build.
LEMMA ElementsOf ==
  ASSUME NEW S, NEW s \in Seq(S)
  PROVE  /\ \A e \in S : Elements(Append(s, e)) = Elements(s) \cup {e}
         /\ \A t \in Seq(S) : Elements(s \o t) = Elements(s) \cup Elements(t)
         /\ s # <<>> => Head(s) \in Elements(s) /\ Elements(Tail(s)) \subseteq Elements(s)
         /\ Elements(s) \subseteq S
         /\ Elements(<<>>) = {}
  <1>0. Len(s) \in Nat
    OBVIOUS
  <1>1. ASSUME NEW e \in S
        PROVE  Elements(Append(s, e)) = Elements(s) \cup {e}
    BY <1>0, AppendProperties DEF Elements
  <1>2. ASSUME NEW t \in Seq(S)
        PROVE  Elements(s \o t) = Elements(s) \cup Elements(t)
    <2> DEFINE c == s \o t
    <2>1. /\ Len(c) = Len(s) + Len(t) /\ Len(t) \in Nat
          /\ \A i \in 1..Len(s) + Len(t) : c[i] = IF i <= Len(s) THEN s[i] ELSE t[i - Len(s)]
      BY ConcatProperties
    <2> HIDE DEF c
    <2>2. ASSUME NEW i \in 1..Len(c)
          PROVE  c[i] \in Elements(s) \cup Elements(t)
      <3>1. CASE i <= Len(s)
        BY <1>0, <2>1, <3>1 DEF Elements
      <3>2. CASE i > Len(s)
        <4>1. i - Len(s) \in 1..Len(t) /\ c[i] = t[i - Len(s)]
          BY <1>0, <2>1, <3>2
        <4> QED
          BY <4>1 DEF Elements
      <3> QED
        BY <1>0, <3>1, <3>2
    <2>3. Elements(s) \subseteq Elements(c)
      BY <1>0, <2>1 DEF Elements
    <2>4. ASSUME NEW i \in 1..Len(t)
          PROVE  t[i] \in Elements(c)
      <3>1. Len(s) + i \in 1..Len(c) /\ c[Len(s) + i] = t[i]
        BY <1>0, <2>1
      <3> QED
        BY <3>1 DEF Elements
    <2> QED
      BY <2>2, <2>3, <2>4 DEF Elements, c
  <1>3. ASSUME s # <<>>
        PROVE  Head(s) \in Elements(s) /\ Elements(Tail(s)) \subseteq Elements(s)
    <2>1. /\ Len(s) \in Nat \ {0} /\ Head(s) = s[1] /\ Len(Tail(s)) = Len(s) - 1
          /\ \A i \in 1..Len(Tail(s)) : Tail(s)[i] = s[i + 1]
      BY <1>3, EmptySeq, HeadTailProperties
    <2>2. \A i \in 1..Len(Tail(s)) : i + 1 \in 1..Len(s)
      BY <2>1
    <2> QED
      BY <2>1, <2>2 DEF Elements
  <1>4. Elements(s) \subseteq S
    BY DEF Elements
  <1>5. Elements(<<>>) = {}
    BY DEF Elements
  <1> QED
    BY <1>1, <1>2, <1>3, <1>4, <1>5

\* Taking a frame leaves only frames that waited before, and it is one of them.
LEMMA TakenWaited ==
  ASSUME QueueTypes, NEW k, TakeFrame(k)
  PROVE  Head(Incoming) \in Waiting /\ Waiting' \subseteq Waiting
  <1>1. Incoming \in Seq(Frames) /\ Elements(Incoming) = Waiting
    BY ConcatProperties, ElementsOf DEF QueueTypes, Incoming, Waiting
  <1> HIDE DEF Incoming
  <1>2. Head(Incoming) \in Elements(Incoming) /\ Elements(Tail(Incoming)) \subseteq Elements(Incoming)
    BY <1>1, ElementsOf DEF TakeFrame
  <1>3. Elements(inq') \subseteq Waiting /\ Elements(events') = {}
    BY <1>1, <1>2, ElementsOf DEF TakeFrame, QueueTypes
  <1> QED
    BY <1>1, <1>2, <1>3 DEF Waiting

\* Only the pump adds to what waits, and it adds what it has read.
LEMMA WaitingStep ==
  ASSUME TypeOK, [Next]_vars
  PROVE  \/ Waiting' \subseteq Waiting
         \/ PumpReads /\ air # <<>> /\ Waiting' \subseteq Waiting \cup {Head(air)}
  <1>0. QueueTypes
    BY TypesSplit
  <1>1. Elements(<<>>) = {}
    BY DEF Elements
  <1> USE DEF queues, radio
  <1>2. CASE LinkUp \/ LinkReleased \/ WaitFails \/ ChunkRejected \/ LaterChunk \/ FirstChunk
             \/ SizeMismatch \/ BodyArrives \/ Commit \/ ResultTimesOut \/ Cancel \/ BandReports
             \/ UNCHANGED vars
    <2>1. events' = events /\ inq' = inq
      BY <1>2 DEF LinkUp, LinkReleased, WaitFails, ChunkRejected, LaterChunk, FirstChunk,
                  TakeChunk, SizeMismatch, BodyArrives, Commit, ResultTimesOut, Cancel,
                  BandReports, vars
    <2> QED
      BY <2>1 DEF Waiting
  <1>3. CASE PumpExits
    BY <1>1, <1>3 DEF PumpExits, Waiting
  <1>4. CASE PumpReads
    <2>1. Head(air) \in Frames /\ air # <<>>
      BY <1>0, <1>4, HeadTailProperties DEF PumpReads, QueueTypes
    <2> DEFINE q == Append(events, Head(air))
    <2>2. q \in Seq(Frames) /\ q # <<>> /\ Elements(q) = Elements(events) \cup {Head(air)}
      BY <1>0, <2>1, AppendProperties, ElementsOf DEF QueueTypes
    <2>3. Elements(Tail(q)) \subseteq Elements(q)
      BY <2>2, ElementsOf
    <2> HIDE DEF q
    <2>4. events' \in {events, q, Tail(q)} /\ inq' = inq
      BY <1>4 DEF PumpReads, Dispatched, q
    <2> QED
      BY <1>4, <2>1, <2>2, <2>3, <2>4 DEF Waiting
  <1>5. ASSUME NEW f \in Files, Prepare(f)
        PROVE  Waiting' \subseteq Waiting
    BY <1>1, <1>5 DEF Prepare, Waiting
  <1>6. CASE SkipFrame \/ PrepareReady \/ BandRefuses \/ MassReady \/ ResultIsBad
             \/ ResultIsGood \/ ListShowsIt \/ ListLacksIt
    <2>1. \E k \in Kinds : TakeFrame(k)
      BY <1>6 DEF SkipFrame, PrepareReady, BandRefuses, MassReady, ResultIsBad,
                  ResultIsGood, ListShowsIt, ListLacksIt, Kinds
    <2> QED
      BY <1>0, <2>1, TakenWaited
  <1>7. CASE TransferDone \/ TransferBreaks
    <2>1. inq' = Incoming /\ events' = <<>>
      BY <1>7 DEF TransferDone, TransferBreaks
    <2>2. Elements(Incoming) = Waiting
      BY <1>0, ElementsOf DEF QueueTypes, Incoming, Waiting
    <2> QED
      BY <1>1, <2>1, <2>2 DEF Waiting
  <1>8. CASE Faces
    <2>1. (events' = events /\ inq' = inq) \/ (events' = <<>> /\ inq' = <<>>)
      BY <1>8 DEF Faces
    <2> QED
      BY <1>1, <2>1 DEF Waiting
  <1>9. CASE FacesEnd
    <2>1. TakeFrame("faces") \/ (events' = events /\ inq' = inq)
      BY <1>9 DEF FacesEnd
    <2> QED
      BY <1>0, <2>1, TakenWaited DEF Waiting
  <1> QED
    BY <1>2, <1>3, <1>4, <1>5, <1>6, <1>7, <1>8, <1>9 DEF Next, Calls

\* The band's answers are well formed.
LEMMA AnswersAreFormed ==
  /\ \A ok \in BOOLEAN, k \in {"ready", "mass", "faces"} : WellFormed(Frame(k, {}, ok))
  /\ \A apps : WellFormed(Frame("list", apps, TRUE))
  /\ \A ok, apps : WellFormed(Frame("result", apps, ok))
  BY DEF WellFormed, Frame

\* What the band has sent keeps its form.
LEMMA FormedStep ==
  ASSUME TypeOK, FramesAreFormed, [Next]_vars
  PROVE  FramesAreFormed'
  <1>0. QueueTypes /\ installed \subseteq Files
    BY TypesSplit DEF CallTypes
  <1>1. Elements(<<>>) = {}
    BY DEF Elements
  <1>2. ASSUME air # <<>>
        PROVE  Head(air) \in Elements(air) /\ Elements(Tail(air)) \subseteq Elements(air)
    BY <1>0, <1>2, ElementsOf DEF QueueTypes
  <1>3. \A f \in Waiting' : WellFormed(f)
    BY <1>2, WaitingStep DEF FramesAreFormed
  <1>4. ASSUME NEW S \in SUBSET Frames, BandMayAnswer(S), \A f \in S : WellFormed(f)
        PROVE  \A f \in Elements(air') : WellFormed(f)
    <2>1. \A f \in S : Elements(Append(air, f)) = Elements(air) \cup {f}
      BY <1>0, ElementsOf DEF QueueTypes
    <2> QED
      BY <1>4, <2>1 DEF BandMayAnswer, FramesAreFormed
  <1> USE DEF radio
  <1>5. CASE LinkUp \/ LinkReleased \/ SkipFrame \/ WaitFails \/ PrepareReady \/ BandRefuses
             \/ ChunkRejected \/ LaterChunk \/ MassReady \/ SizeMismatch \/ BodyArrives
             \/ TransferDone \/ TransferBreaks \/ Commit \/ ResultIsBad \/ ResultTimesOut
             \/ ListShowsIt \/ ListLacksIt \/ Cancel \/ FacesEnd \/ UNCHANGED vars
    <2>1. air' = air
      BY <1>5 DEF LinkUp, LinkReleased, SkipFrame, WaitFails, PrepareReady, BandRefuses,
                  ChunkRejected, LaterChunk, MassReady, SizeMismatch, BodyArrives,
                  TransferDone, TransferBreaks, Commit, ResultIsBad, ResultTimesOut,
                  ListShowsIt, ListLacksIt, Cancel, FacesEnd, vars
    <2> QED
      BY <1>3, <2>1 DEF FramesAreFormed
  <1>6. CASE PumpExits \/ PumpReads
    <2>1. Elements(air') \subseteq Elements(air)
      BY <1>1, <1>2, <1>6 DEF PumpExits, PumpReads
    <2> QED
      BY <1>3, <2>1 DEF FramesAreFormed
  <1>7. CASE BandReports
    <2>1. job.file \in Files
      BY <1>7 DEF BandReports, TypeOK
    <2>2. PICK ok \in BOOLEAN, apps \in {{job.file}, {}} :
             air' = Append(air, Frame("result", apps, ok))
      BY <1>7 DEF BandReports
    <2>3. Frame("result", apps, ok) \in Frames /\ WellFormed(Frame("result", apps, ok))
      BY <2>1, AnswersAreFormed DEF Frame, Frames, Kinds
    <2>4. Elements(air') = Elements(air) \cup {Frame("result", apps, ok)}
      BY <1>0, <2>2, <2>3, ElementsOf DEF QueueTypes
    <2> QED
      BY <1>3, <2>3, <2>4 DEF FramesAreFormed
  <1>8. ASSUME NEW f \in Files, Prepare(f)
        PROVE  FramesAreFormed'
    <2>1. \/ air' = air
          \/ BandMayAnswer({Frame("ready", {}, ok) : ok \in BOOLEAN})
      BY <1>8 DEF Prepare
    <2>2. \A g \in Elements(air') : WellFormed(g)
      BY <1>0, <1>4, <2>1, AnswersAreFrames, AnswersAreFormed DEF FramesAreFormed
    <2> QED
      BY <1>3, <2>2 DEF FramesAreFormed
  <1>9. CASE FirstChunk \/ ResultIsGood \/ Faces
    <2>1. \/ air' = air
          \/ BandMayAnswer({Frame("mass", {}, ok) : ok \in BOOLEAN})
          \/ BandMayAnswer({Frame("list", installed, TRUE)})
          \/ BandMayAnswer({Frame("faces", {}, TRUE)})
      BY <1>9 DEF FirstChunk, ResultIsGood, Faces
    <2>2. \A g \in Elements(air') : WellFormed(g)
      BY <1>0, <1>4, <2>1, AnswersAreFrames, AnswersAreFormed DEF FramesAreFormed
    <2> QED
      BY <1>3, <2>2 DEF FramesAreFormed
  <1> QED
    BY <1>5, <1>6, <1>7, <1>8, <1>9 DEF Next, Calls

\* A frame an install would believe has been heard since it began: prepare empties
\* both queues, and after a cancel less is believed.
LEMMA HeardStep ==
  ASSUME TypeOK, WaitingWasHeard, [Next]_vars
  PROVE  WaitingWasHeard'
  <1>1. CASE meta' = meta /\ heard \subseteq heard' /\ ~PumpReads
    BY <1>1, WaitingStep DEF WaitingWasHeard, Accepts
  <1>2. CASE PumpReads
    BY <1>2, WaitingStep DEF PumpReads, WaitingWasHeard, Accepts, proto
  <1>3. ASSUME NEW f \in Files, Prepare(f)
        PROVE  WaitingWasHeard'
    BY <1>3 DEF Prepare, WaitingWasHeard, Waiting, Elements
  <1>4. CASE Cancel
    <2>1. Waiting \subseteq Frames
      BY TypesSplit, ElementsOf DEF QueueTypes, Waiting
    <2>2. \A f \in Waiting : Accepts(f)' => Accepts(f)
      BY <1>4, <2>1, FilesAssumption DEF Cancel, Accepts, Frames
    <2>3. Waiting' = Waiting /\ heard' = heard
      BY <1>4 DEF Cancel, Waiting, queues, history
    <2> QED
      BY <2>2, <2>3 DEF WaitingWasHeard
  <1>5. CASE UNCHANGED vars
    BY <1>5, WaitingStep DEF vars, WaitingWasHeard, Waiting, Accepts, proto, history, queues
  <1>6. CASE Next /\ ~PumpReads /\ ~Cancel /\ ~(\E f \in Files : Prepare(f))
    <2>1. meta' = meta /\ heard' = heard
      BY <1>6 DEF Next, Calls, LinkUp, PumpExits, LinkReleased, BandReports, SkipFrame, WaitFails,
                  PrepareReady, BandRefuses, ChunkRejected, FirstChunk, LaterChunk, TakeChunk,
                  MassReady, SizeMismatch, BodyArrives, TransferDone, TransferBreaks, Commit,
                  ResultIsBad, ResultIsGood, ResultTimesOut, ListShowsIt, ListLacksIt, Faces,
                  FacesEnd, proto, history
    <2> QED
      BY <1>1, <1>6, <2>1
  <1> QED
    BY <1>2, <1>3, <1>4, <1>5, <1>6

\* What the install has gone through, it has heard.
LEMMA StagesStep ==
  ASSUME TypeOK, Phases, Believed, [Next]_vars
  PROVE  StagesWereHeard'
  <1>0. QueueTypes
    BY TypesSplit
  <1>1. ASSUME NEW k \in Kinds, TakeFrame(k)
        PROVE  /\ WellFormed(Head(Incoming)) /\ Head(Incoming).kind = k
               /\ Accepts(Head(Incoming)) => k \in heard
    BY <1>0, <1>1, TakenWaited, Taken DEF Believed, FramesAreFormed, WaitingWasHeard
  <1>2. {"ready", "mass", "result", "list"} \subseteq Kinds
    BY DEF Kinds
  <1> USE DEF Believed, StagesWereHeard, Phases, CallFitsStatus, OneFile, Sending, proto,
              service, history
  <1>3. CASE /\ UNCHANGED outcome /\ heard \subseteq heard'
             /\ UNCHANGED <<cstat, prepared>> /\ op' \in {op, "none", "waitFaces", "waitMass", "acked", "unacked"}
    BY <1>3
  <1>4. CASE /\ UNCHANGED <<heard, outcome>>
             /\ cstat' \notin {"transferring", "sent", "verifying"} /\ op' = "none"
    BY <1>4
  <1>5. CASE LinkUp \/ PumpExits \/ LinkReleased \/ PumpReads \/ BandReports \/ SkipFrame
             \/ BodyArrives \/ Faces \/ FacesEnd \/ UNCHANGED vars
    BY <1>3, <1>5 DEF LinkUp, PumpExits, LinkReleased, PumpReads, BandReports, SkipFrame,
                      BodyArrives, Faces, FacesEnd, vars
  <1>6. CASE WaitFails \/ BandRefuses \/ ChunkRejected \/ SizeMismatch \/ TransferBreaks
             \/ ResultIsBad \/ ListLacksIt \/ Cancel
    BY <1>4, <1>6 DEF WaitFails, BandRefuses, ChunkRejected, SizeMismatch, TransferBreaks,
                      ResultIsBad, ListLacksIt, Fails, Cancel
  <1>7. ASSUME NEW f \in Files, Prepare(f)
        PROVE  StagesWereHeard'
    BY <1>7 DEF Prepare
  <1>8. CASE PrepareReady
    <2>1. "ready" \in heard
      BY <1>1, <1>2, <1>8 DEF PrepareReady, WellFormed, Accepts
    <2> QED
      BY <1>8, <2>1 DEF PrepareReady
  <1>9. CASE FirstChunk
    BY <1>3, <1>4, <1>9 DEF FirstChunk, TakeChunk, Fails
  <1>10. CASE LaterChunk
    BY <1>10 DEF LaterChunk, TakeChunk
  <1>11. CASE MassReady
    <2>1. "mass" \in heard
      BY <1>1, <1>2, <1>11 DEF MassReady, WellFormed, Accepts
    <2> QED
      BY <1>11, <2>1 DEF MassReady
  <1>12. CASE TransferDone \/ Commit
    BY <1>12 DEF TransferDone, Commit
  <1>13. CASE ResultTimesOut
    BY <1>13 DEF ResultTimesOut
  <1>14. CASE ResultIsGood
    <2>1. "result" \in heard
      BY <1>1, <1>2, <1>14 DEF ResultIsGood
    <2> QED
      BY <1>4, <1>14, <2>1 DEF ResultIsGood, Fails
  <1>15. CASE ListShowsIt
    <2>1. "list" \in heard
      BY <1>1, <1>2, <1>15 DEF ListShowsIt, WellFormed, Accepts
    <2> QED
      BY <1>15, <2>1 DEF ListShowsIt
  <1> QED
    BY <1>5, <1>6, <1>7, <1>8, <1>9, <1>10, <1>11, <1>12, <1>13, <1>14, <1>15 DEF Next, Calls

\* An install is reported completed only if, since it began, the band reported its
\* success and listed the package, and the body goes out only after the band agreed
\* to this install and to its transfer: replies to an earlier install, wherever they
\* still wait, never stand in (runtime_bridge.rs, protocol.rs).
THEOREM OnlyOwnReplies == Spec => []RepliesAreItsOwn
  <1>1. Init => Believed
    BY DEF Init, Believed, FramesAreFormed, WaitingWasHeard, StagesWereHeard, Waiting, Elements
  <1>2. TypeOK /\ Phases /\ Believed /\ [Next]_vars => Believed'
    BY FormedStep, HeardStep, StagesStep DEF Believed
  <1>3. Phases /\ Believed => RepliesAreItsOwn
    BY DEF Phases, CallFitsStatus, Sending, Believed, StagesWereHeard, RepliesAreItsOwn
  <1> QED
    BY <1>1, <1>2, <1>3, Typing, PTL DEF Spec

-----------------------------------------------------------------------------
(***************************************************************************)
(* The service                                                             *)
(***************************************************************************)
Asking == {"prepare", "chunk", "commit", "cancel"}
CallPlaces == {"invoked", "hash"} \cup Asking
CallRecords ==
  [pc : CallPlaces, kind : {"bundled", "select", "send", "cancel"}, file : Packages,
   id : Ids \cup {NoId}, next : Nat, to : Ids \cup {NoId}, seen : BOOLEAN]
Sessions ==
  [id : Ids, file : Packages, status : {"preparing", "transferring", "verifying"} \cup Conclusions,
   got : SUBSET Nat, bytes : Nat, core : Ids \cup {NoId}, concluded : Conclusions \cup {"none"}]
Forms == [busy : BOOLEAN, prepared : Ids \cup {NoId}, ok : BOOLEAN]
Active(s) == s.status \in {"preparing", "transferring"}

ServiceTypes ==
  /\ current \in Sessions \cup {NoSession}
  /\ call \in [Callers -> CallRecords \cup {Idle}]
  /\ form \in Forms
  /\ dropped \subseteq Ids

\* Where a call is fits whose it is and what it asks for.
CallStands(c, r) ==
  r # Idle =>
    /\ r.kind = "bundled" <=> c = "wizard"
    /\ r.pc \in {"hash", "prepare"} => r.kind \in {"bundled", "select"}
    /\ r.pc \in {"chunk", "commit"} => r.kind \in {"bundled", "send"}
    /\ r.pc = "cancel" => r.kind = "cancel"
    /\ r.pc = "prepare" => r.id # NoId

\* A call that main has not taken up stands once in its queue, and one that the core
\* has been asked for stands in the other.
IpcFits ==
  /\ ipc \in Seq(Callers)
  /\ \A i \in DOMAIN ipc : call[ipc[i]].pc = "invoked"
  /\ \A i, j \in DOMAIN ipc : ipc[i] = ipc[j] => i = j
In(w, c) == \E i \in DOMAIN w : w[i] = c
Before(w, d, c) == \E i, j \in DOMAIN w : w[i] = d /\ w[j] = c /\ i < j
WireFits == wire \in Seq(Callers) /\ \A c \in Callers : call[c].pc \in Asking => In(wire, c)

\* An id whose prepare the core has not answered is known to nobody else.
IdIsNew(c) ==
  call[c].pc = "prepare" =>
    /\ \A d \in Callers \ {c} : call[d] # Idle =>
         /\ call[d].pc = "prepare" \/ call[d].kind \in {"send", "cancel"} => call[d].id # call[c].id
         /\ call[d].pc = "commit" => call[d].to # call[c].id
    /\ form.prepared # call[c].id /\ call[c].id \notin dropped
    /\ Alive(current) => current.core # call[c].id /\ (0 \in current.got => current.id # call[c].id)

\* A session that the step of c leaves takes chunks only before its commit, was not
\* cancelled, and counts its bytes.
Ready(c, s) ==
  /\ s \in Sessions /\ CoreId(s) \notin dropped
  /\ Active(s) => \A d \in Callers \ {c} : call[d].pc = "commit" => call[d].to # CoreId(s)
  /\ s.got \subseteq 0..(Total(s.file) - 1) /\ s.bytes = LengthOf(s.file, s.got)
  /\ \A d \in Callers \ {c} :
       call[d].pc = "prepare" => s.core # call[d].id /\ (0 \in s.got => s.id # call[d].id)
SessionIsOpen ==
  Alive(current) =>
    /\ CoreId(current) \notin dropped
    /\ Active(current) =>
         \A c \in Callers : call[c].pc = "commit" => call[c].to # CoreId(current)
    /\ current.got \subseteq 0..(Total(current.file) - 1)
    /\ current.bytes = LengthOf(current.file, current.got)

ServiceInv ==
  /\ ServiceTypes
  /\ \A c \in Callers : CallStands(c, call[c])
  /\ IpcFits /\ WireFits
  /\ \A c \in Callers : IdIsNew(c)
  /\ SessionIsOpen
  /\ CommitComesLast

-----------------------------------------------------------------------------
\* A set of numbers has a smallest one.
LEMMA Smallest ==
  ASSUME NEW T \in SUBSET Nat, T # {}
  PROVE  \E x \in T : \A y \in T : x =< y
  <1>1. PICK x \in T : \A y \in T : <<y, x>> \notin OpToRel(<, Nat)
    BY NatLessThanWellFounded, WFMin, Zenon
  <1>2. \A y \in T : ~(y < x)
    BY <1>1, Zenon DEF OpToRel
  <1> QED
    BY <1>2

\* The first element that is c is taken out; the others stay in their order.
LEMMA Removed ==
  ASSUME NEW w \in Seq(Callers), NEW c
  PROVE  /\ RemoveFirst(w, c) \in Seq(Callers)
         /\ \A d \in Callers \ {c} : In(w, d) => In(RemoveFirst(w, c), d)
         /\ \A d, e \in Callers \ {c} : Before(w, d, e) => Before(RemoveFirst(w, c), d, e)
  <1>1. CASE \A i \in 1..Len(w) : w[i] # c
    <2>1. RemoveFirst(w, c) = w
      BY <1>1 DEF RemoveFirst
    <2> QED
      BY <2>1
  <1>2. CASE \E i \in 1..Len(w) : w[i] = c
    <2> DEFINE I == {i \in 1..Len(w) : w[i] = c}
               k == CHOOSE x \in I : \A y \in I : x =< y
               r == RemoveAt(w, k)
    <2>1. k \in I
      <3>1. I \in SUBSET Nat /\ I # {}
        BY <1>2
      <3> HIDE DEF I
      <3>2. \E x \in I : \A y \in I : x =< y
        BY <3>1, Smallest
      <3> QED
        BY <3>2
    <2>2. RemoveFirst(w, c) = r
      BY <1>2 DEF RemoveFirst, SelectInSeq, Min
    <2>3. k \in 1..Len(w) /\ w[k] = c /\ Len(w) \in Nat
      BY <2>1
    <2> HIDE DEF k, I
    <2>4. /\ r \in Seq(Callers) /\ DOMAIN r = 1..(Len(w) - 1) /\ DOMAIN w = 1..Len(w)
          /\ \A i \in 1..(k - 1) : r[i] = w[i]
          /\ \A i \in k..(Len(w) - 1) : r[i] = w[i + 1]
      <3> DEFINE u == SubSeq(w, 1, k - 1)
                 v == SubSeq(w, k + 1, Len(w))
      <3>1. u \in Seq(Callers) /\ Len(u) = k - 1 /\ \A i \in 1..(k - 1) : u[i] = w[i]
        BY <2>3
      <3>2. v \in Seq(Callers) /\ Len(v) = Len(w) - k /\ \A i \in 1..(Len(w) - k) : v[i] = w[k + i]
        BY <2>3
      <3> HIDE DEF u, v
      <3>3. r = u \o v
        BY DEF RemoveAt, u, v
      <3>4. /\ r \in Seq(Callers) /\ Len(r) = Len(w) - 1
            /\ \A i \in 1..Len(r) : r[i] = IF i <= Len(u) THEN u[i] ELSE v[i - Len(u)]
        <4> HIDE DEF r
        <4>1. /\ u \o v \in Seq(Callers) /\ Len(u \o v) = Len(u) + Len(v)
              /\ \A i \in 1..Len(u) + Len(v) : (u \o v)[i] = IF i <= Len(u) THEN u[i] ELSE v[i - Len(u)]
          BY <3>1, <3>2, ConcatProperties, Zenon
        <4>2. Len(u) + Len(v) = Len(w) - 1
          BY <2>3, <3>1, <3>2
        <4> QED
          BY <3>3, <4>1, <4>2, Zenon
      <3>5. \A i \in k..(Len(w) - 1) : r[i] = w[i + 1]
        BY <2>3, <3>1, <3>2, <3>4
      <3> QED
        BY <2>3, <3>1, <3>4, <3>5
    <2> DEFINE p(i) == IF i < k THEN i ELSE i - 1
    <2>5. \A i \in DOMAIN w : w[i] # c => i # k /\ p(i) \in DOMAIN r /\ r[p(i)] = w[i] /\ i \in Nat
      BY <2>3, <2>4
    <2>6. \A i, j \in DOMAIN w : i # k /\ j # k /\ i < j => p(i) < p(j)
      BY <2>3, <2>4
    <2> HIDE DEF p, r
    <2>7. \A d \in Callers \ {c} : In(w, d) => In(r, d)
      BY <2>5 DEF In
    <2>8. \A d, e \in Callers \ {c} : Before(w, d, e) => Before(r, d, e)
      BY <2>5, <2>6 DEF Before
    <2> QED
      BY <2>2, <2>4, <2>7, <2>8
  <1> QED
    BY <1>1, <1>2

\* A call is put at the end, behind all others.
LEMMA PutLast ==
  ASSUME NEW w \in Seq(Callers), NEW c \in Callers
  PROVE  /\ Append(w, c) \in Seq(Callers) /\ In(Append(w, c), c)
         /\ \A d : In(w, d) => In(Append(w, c), d) /\ Before(Append(w, c), d, c)
         /\ \A d, e : Before(w, d, e) => Before(Append(w, c), d, e)
  <1> DEFINE v == Append(w, c)
             n == Len(w) + 1
  <1>1. /\ v \in Seq(Callers) /\ n \in DOMAIN v /\ v[n] = c /\ n \in Nat
        /\ \A i \in DOMAIN w : i \in DOMAIN v /\ v[i] = w[i] /\ i < n
    OBVIOUS
  <1> HIDE DEF v, n
  <1>2. In(v, c)
    BY <1>1 DEF In
  <1>3. \A d : In(w, d) => In(v, d) /\ Before(v, d, c)
    BY <1>1 DEF In, Before
  <1>4. \A d, e : Before(w, d, e) => Before(v, d, e)
    BY <1>1 DEF Before
  <1> QED
    BY <1>1, <1>2, <1>3, <1>4 DEF v

-----------------------------------------------------------------------------
\* A file has as many chunks as it takes, all full but the last.
LEMMA ChunksOfFile ==
  ASSUME NEW f \in Packages
  PROVE  /\ Total(f) \in Nat \ {0} /\ Bytes[f] \in Nat \ {0} /\ ChunkSize \in Nat \ {0}
         /\ Total(f) * ChunkSize >= Bytes[f] /\ (Total(f) - 1) * ChunkSize < Bytes[f]
         /\ \A i \in 0..(Total(f) - 1) :
              ChunkLen(f, i) = IF i = Total(f) - 1 THEN Bytes[f] - i * ChunkSize ELSE ChunkSize
  <1> DEFINE b == Bytes[f]
             z == ChunkSize
             t == (b + z - 1) \div z
  <1>1. b \in Nat \ {0} /\ z \in Nat \ {0}
    BY FileAssumption, ChunkAssumption
  <1> HIDE DEF b, z
  <1>2. t \in Int /\ t * z <= b + z - 1 /\ b + z - 1 < (t + 1) * z
    BY <1>1
  <1> HIDE DEF t
  <1>3. (t + 1) * z = t * z + z /\ (t - 1) * z = t * z - z
    BY <1>1, <1>2
  <1>4. t * z >= b /\ (t - 1) * z < b
    BY <1>1, <1>2, <1>3
  <1>5. t >= 1
    <2>1. t * z > 0
      BY <1>1, <1>2, <1>3, <1>4
    <2> QED
      BY <1>1, <1>2, <2>1
  <1>6. ASSUME NEW i \in 0..(t - 1)
        PROVE  Min({z, b - i * z}) = IF i = t - 1 THEN b - i * z ELSE z
    <2>1. i \in Int /\ i * z \in Int
      BY <1>1
    <2>2. CASE i = t - 1
      <3>1. b - i * z <= z
        BY <1>1, <1>2, <1>3, <1>4, <2>2
      <3> QED
        BY <1>1, <2>1, <2>2, <3>1 DEF Min
    <2>3. CASE i # t - 1
      <3>1. i <= t - 2
        BY <1>2, <2>3
      <3>2. i * z <= (t - 2) * z /\ (t - 2) * z = (t - 1) * z - z
        BY <1>1, <1>2, <2>1, <3>1
      <3>3. z < b - i * z
        BY <1>1, <1>2, <1>4, <2>1, <3>2
      <3> QED
        BY <1>1, <2>1, <2>3, <3>3 DEF Min
    <2> QED
      BY <2>2, <2>3
  <1>7. Total(f) = t /\ \A i : ChunkLen(f, i) = Min({z, b - i * z})
    BY DEF Total, ChunkLen, t, b, z
  <1>8. \A i \in 0..(t - 1) : ChunkLen(f, i) = IF i = t - 1 THEN b - i * z ELSE z
    BY <1>6, <1>7
  <1>9. t \in Nat \ {0}
    BY <1>2, <1>5
  <1> QED
    BY <1>1, <1>4, <1>7, <1>8, <1>9 DEF b, z

\* One chunk more adds its length, and all together are the file.
LEMMA LengthAdds ==
  ASSUME NEW f \in Packages, NEW S \in SUBSET (0..(Total(f) - 1)), NEW i \in 0..(Total(f) - 1)
  PROVE  /\ LengthOf(f, {}) = 0 /\ LengthOf(f, S) \in Int /\ ChunkLen(f, i) \in Nat
         /\ LengthOf(f, S \cup {i}) = LengthOf(f, S) + (IF i \in S THEN 0 ELSE ChunkLen(f, i))
         /\ LengthOf(f, S \cup {i}) <= Bytes[f]
         /\ Cardinality(S) = Total(f) => 0 \in S
  <1> DEFINE t == Total(f)  b == Bytes[f]  z == ChunkSize
             n == Cardinality(S)  m == Cardinality(S \cup {i})
  <1>1. /\ t \in Nat \ {0} /\ b \in Nat \ {0} /\ z \in Nat \ {0}
        /\ t * z >= b /\ (t - 1) * z < b
        /\ ChunkLen(f, i) = IF i = t - 1 THEN b - i * z ELSE z
    BY ChunksOfFile
  <1>2. IsFiniteSet(0..(t - 1)) /\ Cardinality(0..(t - 1)) = t
    BY <1>1, FS_Interval
  <1>3. IsFiniteSet(S) /\ n <= t /\ n \in Nat /\ (n = t => S = 0..(t - 1))
    BY <1>2, FS_Subset, FS_CardinalityType
  <1>4. m = IF i \in S THEN n ELSE n + 1
    BY <1>3, FS_AddElement
  <1>5. m <= t /\ (m = t => S \cup {i} = 0..(t - 1))
    BY <1>2, FS_Subset
  <1>6. (n + 1) * z = n * z + z /\ n * z \in Int /\ m * z \in Int /\ t * z \in Int
        /\ (t - 1) * z = t * z - z /\ i * z \in Int
    BY <1>1, <1>3, <1>4
  <1>7. m * z <= t * z /\ (m <= t - 1 => m * z <= (t - 1) * z)
    BY <1>1, <1>3, <1>4, <1>5
  <1>8. \A T : LengthOf(f, T) = Cardinality(T) * z - (IF t - 1 \in T THEN t * z - b ELSE 0)
    BY DEF LengthOf
  <1>9. LengthOf(f, {}) = 0
    BY <1>1, <1>8, FS_EmptySet
  <1>10. LengthOf(f, S) \in Int /\ ChunkLen(f, i) \in Nat
    BY <1>1, <1>6, <1>8
  <1>11. LengthOf(f, S \cup {i}) = LengthOf(f, S) + (IF i \in S THEN 0 ELSE ChunkLen(f, i))
    BY <1>1, <1>4, <1>6, <1>8
  <1>12. LengthOf(f, S \cup {i}) <= b
    <2>1. t - 1 \notin S \cup {i} => m <= t - 1
      BY <1>1, <1>3, <1>4, <1>5
    <2> QED
      BY <1>1, <1>6, <1>7, <1>8, <2>1
  <1>13. n = t => 0 \in S
    BY <1>1, <1>3
  <1> QED
    BY <1>9, <1>10, <1>11, <1>12, <1>13

-----------------------------------------------------------------------------
(***************************************************************************)
(* Steps                                                                   *)
(***************************************************************************)
\* Calls and sessions are told from those that are none.
LEMMA RecordsAreSome ==
  /\ \A r \in CallRecords : r # Idle
  /\ \A s \in Sessions : Alive(s) /\ s # NoSession
  /\ Idle.pc = "idle" /\ ~Alive(NoSession)
  /\ \A s \in Sessions : CoreId(s) \in Ids
  BY NameAssumption DEF CallRecords, CallPlaces, Asking, Idle, Sessions, NoSession, Alive, CoreId

\* A call that is somewhere is a record.
LEMMA CallIsRecord ==
  ASSUME ServiceTypes, NEW c \in Callers
  PROVE  /\ call[c] \in CallRecords \cup {Idle} /\ (call[c] # Idle => call[c] \in CallRecords)
         /\ call[c].pc \in CallPlaces \cup {"idle"} /\ (call[c].pc # "idle" => call[c] \in CallRecords)
  BY RecordsAreSome DEF ServiceTypes, CallRecords

\* The main process takes up the first call.
LEMMA IpcTaken ==
  ASSUME IpcFits, NEW c \in Callers, NEW kinds, TakeUp(c, kinds), NEW q,
         call \in [Callers -> CallRecords \cup {Idle}], call' = [call EXCEPT ![c] = q]
  PROVE  call[c].pc = "invoked" /\ call[c].kind \in kinds /\ IpcFits'
  <1>1. /\ ipc # <<>> /\ ipc[1] = c /\ ipc' = Tail(ipc) /\ 1 \in DOMAIN ipc /\ ipc \in Seq(Callers)
        /\ call[c].kind \in kinds
    BY DEF TakeUp, IpcFits
  <1>2. /\ ipc' \in Seq(Callers)
        /\ \A i \in DOMAIN ipc' : i + 1 \in DOMAIN ipc /\ ipc'[i] = ipc[i + 1] /\ i + 1 # 1 /\ i \in Nat
    BY <1>1
  <1>3. \A i \in DOMAIN ipc' : ipc'[i] # c /\ ipc'[i] \in Callers
    BY <1>1, <1>2 DEF IpcFits
  <1>4. \A i \in DOMAIN ipc' : call'[ipc'[i]].pc = "invoked"
    BY <1>2, <1>3 DEF IpcFits
  <1>5. \A i, j \in DOMAIN ipc' : ipc'[i] = ipc'[j] => i = j
    <2> SUFFICES ASSUME NEW i \in DOMAIN ipc', NEW j \in DOMAIN ipc', ipc'[i] = ipc'[j]
                 PROVE  i = j
      OBVIOUS
    <2>1. i + 1 = j + 1 /\ i \in Nat /\ j \in Nat
      BY <1>2 DEF IpcFits
    <2> QED
      BY <2>1
  <1> QED
    BY <1>1, <1>2, <1>4, <1>5 DEF IpcFits

\* A call beyond the queue takes its turn.
LEMMA IpcKept ==
  ASSUME IpcFits, NEW c \in Callers, call[c].pc # "invoked", ipc' = ipc, NEW q,
         call \in [Callers -> CallRecords \cup {Idle}], call' = [call EXCEPT ![c] = q]
  PROVE  IpcFits'
  <1>1. \A i \in DOMAIN ipc : ipc[i] \in Callers /\ ipc[i] # c
    BY DEF IpcFits
  <1> QED
    BY <1>1 DEF IpcFits

\* A page calls.
LEMMA IpcAdded ==
  ASSUME IpcFits, NEW c \in Callers, call[c].pc # "invoked", ipc' = Append(ipc, c), NEW q,
         q.pc = "invoked",
         call \in [Callers -> CallRecords \cup {Idle}], call' = [call EXCEPT ![c] = q]
  PROVE  IpcFits'
  <1>1. ipc \in Seq(Callers) /\ \A i \in DOMAIN ipc : ipc[i] \in Callers /\ ipc[i] # c
    BY DEF IpcFits
  <1>2. PICK n \in Nat :
        /\ ipc' \in Seq(Callers) /\ DOMAIN ipc' = DOMAIN ipc \cup {n} /\ n \notin DOMAIN ipc
        /\ ipc'[n] = c /\ \A i \in DOMAIN ipc : ipc'[i] = ipc[i]
    <2>1. /\ Len(ipc) + 1 \in Nat /\ ipc' \in Seq(Callers)
          /\ DOMAIN ipc' = DOMAIN ipc \cup {Len(ipc) + 1} /\ Len(ipc) + 1 \notin DOMAIN ipc
          /\ ipc'[Len(ipc) + 1] = c /\ \A i \in DOMAIN ipc : ipc'[i] = ipc[i]
      BY <1>1
    <2> QED
      BY <2>1
  <1> QED
    BY <1>1, <1>2 DEF IpcFits

\* What the page learns when a call ends.
LEMMA ReturnTells ==
  ASSUME ServiceTypes, NEW c \in Callers, NEW i \in Ids \cup {NoId}, NEW v, Return(c, i, v)
  PROVE  /\ call' = [call EXCEPT ![c] = Idle] /\ form' \in Forms
         /\ form'.prepared \in {form.prepared, NoId, i}
         /\ (form'.ok /\ ~form.ok => call[c].kind = "send" /\ v = "completed")
         /\ (step' = "done" /\ step # "done" => call[c].kind = "bundled" /\ v = "completed")
  <1>1. form \in Forms /\ FreshForm \in Forms /\ FreshForm.prepared = NoId /\ ~FreshForm.ok
    BY DEF ServiceTypes, Forms, FreshForm
  <1>2. call' = [call EXCEPT ![c] = Idle]
    BY DEF Return
  <1>3. CASE form' = form /\ step' = step
    BY <1>1, <1>2, <1>3 DEF Forms
  <1>4. CASE form' = FreshForm /\ step' = step
    BY <1>1, <1>2, <1>4
  <1>5. CASE call[c].kind = "bundled" /\ EndBundled(v)
    BY <1>1, <1>2, <1>5 DEF EndBundled, Forms
  <1>6. CASE EndSelect(i)
    BY <1>1, <1>2, <1>6 DEF EndSelect, Forms
  <1>7. CASE call[c].kind = "send" /\ EndSend(v)
    <2>1. CASE v = "completed"
      <3>1. form' = [form EXCEPT !.busy = FALSE, !.ok = TRUE] /\ step' = step
        BY <1>7, <2>1 DEF EndSend
      <3> QED
        BY <1>1, <1>2, <1>7, <2>1, <3>1 DEF Forms
    <2>2. CASE v # "completed"
      <3>1. form' = [form EXCEPT !.busy = FALSE, !.ok = FALSE] /\ step' = step
        BY <1>7, <2>2 DEF EndSend
      <3> QED
        BY <1>1, <1>2, <3>1 DEF Forms
    <2> QED
      BY <2>1, <2>2
  <1> QED
    BY <1>3, <1>4, <1>5, <1>6, <1>7 DEF Return

\* A call that takes its turn leaves the others as they are.
LEMMA OthersStay ==
  ASSUME ServiceTypes, NEW c \in Callers, NEW q \in CallRecords \cup {Idle},
         call' = [call EXCEPT ![c] = q]
  PROVE  /\ call'[c] = q /\ \A d \in Callers \ {c} : call'[d] = call[d]
         /\ call' \in [Callers -> CallRecords \cup {Idle}]
  BY DEF ServiceTypes

\* The wire of a step that only takes away or adds the call whose turn it is.
WireKept(c) ==
  /\ wire' \in Seq(Callers)
  /\ \A d \in Callers \ {c} : In(wire, d) => In(wire', d)
  /\ \A d, e \in Callers \ {c} : Before(wire, d, e) => Before(wire', d, e)

\* A call takes its turn and sends nothing to the core but what ends it.
LEMMA TurnKeeps ==
  ASSUME ServiceInv, NEW c \in Callers, NEW q \in CallRecords \cup {Idle},
         call' = [call EXCEPT ![c] = q], CallStands(c, q), IpcFits',
         q.pc \notin {"prepare", "chunk", "commit"},
         q # Idle /\ q.kind \in {"send", "cancel"} =>
           (call[c] # Idle /\ q.kind = call[c].kind /\ q.id = call[c].id) \/ q.id = form.prepared,
         WireKept(c), q.pc = "cancel" => In(wire', c),
         form' \in Forms, dropped' \subseteq Ids,
         current' = NoSession \/ (Ready(c, current') /\ dropped' = dropped),
         \A d \in Callers \ {c} : call[d].pc = "prepare" =>
           form'.prepared # call[d].id /\ call[d].id \notin dropped'
  PROVE  ServiceInv'
  <1>0. /\ ServiceTypes /\ WireFits /\ CommitComesLast /\ (\A e \in Callers : CallStands(e, call[e]))
        /\ \A e \in Callers : IdIsNew(e)
    BY DEF ServiceInv
  <1>1. /\ call'[c] = q /\ \A d \in Callers \ {c} : call'[d] = call[d]
        /\ call' \in [Callers -> CallRecords \cup {Idle}]
    BY <1>0, OthersStay
  <1>2. ServiceTypes'
    BY <1>1 DEF ServiceTypes, Ready
  <1>3. \A e \in Callers : CallStands(e, call[e])'
    BY <1>0, <1>1 DEF CallStands
  <1>4. WireFits'
    BY <1>0, <1>1, RecordsAreSome DEF WireFits, WireKept, Asking, CallRecords, CallPlaces
  <1>5. ASSUME NEW e \in Callers
        PROVE  IdIsNew(e)'
    <2> SUFFICES ASSUME call'[e].pc = "prepare" PROVE IdIsNew(e)'
      BY DEF IdIsNew
    <2>1. e # c /\ call'[e] = call[e] /\ call[e].pc = "prepare" /\ IdIsNew(e)
      BY <1>0, <1>1
    <2>2. ASSUME NEW d \in Callers \ {e}, call'[d] # Idle
          PROVE  /\ call'[d].pc = "prepare" \/ call'[d].kind \in {"send", "cancel"} => call'[d].id # call'[e].id
                 /\ call'[d].pc = "commit" => call'[d].to # call'[e].id
      <3>1. CASE d # c
        BY <1>1, <2>1, <2>2, <3>1 DEF IdIsNew
      <3>2. CASE d = c
        BY <1>1, <2>1, <2>2, <3>2 DEF IdIsNew
      <3> QED
        BY <3>1, <3>2
    <2>3. Alive(current') => current'.core # call[e].id /\ (0 \in current'.got => current'.id # call[e].id)
      BY <2>1, RecordsAreSome DEF Ready
    <2> QED
      BY <2>1, <2>2, <2>3 DEF IdIsNew
  <1>6. SessionIsOpen'
    BY <1>1, RecordsAreSome DEF SessionIsOpen, Ready, CoreId, Active
  <1>7. CommitComesLast'
    <2> SUFFICES ASSUME NEW x \in Callers, NEW d \in Callers, x # d, call'[x].pc = "commit",
                        call'[d].pc \in {"chunk", "commit"}, call'[x].to = call'[d].to
                 PROVE  Before(wire', d, x)
      BY DEF CommitComesLast, Before
    <2>1. x # c /\ d # c /\ call'[x] = call[x] /\ call'[d] = call[d]
      BY <1>1
    <2>2. Before(wire, d, x)
      BY <1>0, <2>1 DEF CommitComesLast, Before
    <2> QED
      BY <2>1, <2>2 DEF WireKept
  <1> QED
    BY <1>2, <1>3, <1>4, <1>5, <1>6, <1>7 DEF ServiceInv

\* A call sends a chunk or the commit of the session it found.
LEMMA SendKeeps ==
  ASSUME ServiceInv, NEW c \in Callers, NEW q \in CallRecords, NEW s \in Sessions,
         call' = [call EXCEPT ![c] = q], CallStands(c, q), IpcFits',
         q.pc \in {"chunk", "commit"}, q.to = CoreId(s),
         call[c] # Idle, q.kind = call[c].kind, q.id = call[c].id,
         Ready(c, s), Active(s), q.pc = "commit" => 0 \in s.got,
         current' \in Sessions, current'.id = s.id, current'.core = s.core, current'.file = s.file,
         Active(current') => q.pc = "chunk",
         current'.got \subseteq 0..(Total(s.file) - 1),
         current'.bytes = LengthOf(s.file, current'.got),
         0 \in current'.got =>
           0 \in s.got \/ \A d \in Callers \ {c} : call[d].pc = "prepare" => call[d].id # s.id,
         wire' = Append(RemoveFirst(wire, c), c), UNCHANGED <<form, dropped>>
  PROVE  ServiceInv'
  <1>0. /\ ServiceTypes /\ WireFits /\ CommitComesLast /\ (\A e \in Callers : CallStands(e, call[e]))
        /\ \A e \in Callers : IdIsNew(e)
    BY DEF ServiceInv
  <1>1. /\ call'[c] = q /\ \A d \in Callers \ {c} : call'[d] = call[d]
        /\ call' \in [Callers -> CallRecords \cup {Idle}]
    BY <1>0, OthersStay
  <1>2. /\ wire' \in Seq(Callers) /\ In(wire', c)
        /\ \A d \in Callers \ {c} : In(wire, d) => In(wire', d) /\ Before(wire', d, c)
        /\ \A d, e \in Callers \ {c} : Before(wire, d, e) => Before(wire', d, e)
    <2>1. wire \in Seq(Callers)
      BY <1>0 DEF WireFits
    <2> DEFINE w == RemoveFirst(wire, c)
    <2>2. /\ w \in Seq(Callers)
          /\ \A d \in Callers \ {c} : In(wire, d) => In(w, d)
          /\ \A d, e \in Callers \ {c} : Before(wire, d, e) => Before(w, d, e)
      BY <2>1, Removed
    <2> HIDE DEF w
    <2>3. wire' = Append(w, c)
      BY DEF w
    <2> QED
      BY <2>2, <2>3, PutLast
  <1>3. ServiceTypes'
    BY <1>0, <1>1 DEF ServiceTypes
  <1>4. \A e \in Callers : CallStands(e, call[e])'
    BY <1>0, <1>1 DEF CallStands
  <1>5. WireFits'
    BY <1>0, <1>1, <1>2 DEF WireFits
  <1>6. ASSUME NEW e \in Callers
        PROVE  IdIsNew(e)'
    <2> SUFFICES ASSUME call'[e].pc = "prepare" PROVE IdIsNew(e)'
      BY DEF IdIsNew
    <2>1. e # c /\ call'[e] = call[e] /\ call[e].pc = "prepare" /\ IdIsNew(e)
      BY <1>0, <1>1
    <2>2. s.core # call[e].id /\ (0 \in s.got => s.id # call[e].id)
      BY <2>1 DEF Ready
    <2>3. ASSUME NEW d \in Callers \ {e}, call'[d] # Idle
          PROVE  /\ call'[d].pc = "prepare" \/ call'[d].kind \in {"send", "cancel"} => call'[d].id # call'[e].id
                 /\ call'[d].pc = "commit" => call'[d].to # call'[e].id
      <3>1. CASE d # c
        BY <1>1, <2>1, <2>3, <3>1 DEF IdIsNew
      <3>2. CASE d = c
        <4>1. q.kind \in {"send", "cancel"} => q.id # call[e].id
          BY <2>1, <3>2 DEF IdIsNew
        <4>2. q.pc = "commit" => q.to # call[e].id
          BY <2>2 DEF CoreId
        <4> QED
          BY <1>1, <2>1, <3>2, <4>1, <4>2
      <3> QED
        BY <3>1, <3>2
    <2>4. current'.core # call[e].id /\ (0 \in current'.got => current'.id # call[e].id)
      BY <2>1, <2>2
    <2> QED
      BY <2>1, <2>3, <2>4 DEF IdIsNew
  <1>7. SessionIsOpen'
    <2>1. CoreId(current') = CoreId(s)
      BY DEF CoreId
    <2>2. ASSUME Active(current'), NEW d \in Callers, call'[d].pc = "commit"
          PROVE  call'[d].to # CoreId(s)
      BY <1>1, <2>2 DEF Ready
    <2> QED
      BY <2>1, <2>2 DEF SessionIsOpen, Ready, CoreId, Active
  <1>8. CommitComesLast'
    <2> SUFFICES ASSUME NEW x \in Callers, NEW d \in Callers, x # d, call'[x].pc = "commit",
                        call'[d].pc \in {"chunk", "commit"}, call'[x].to = call'[d].to
                 PROVE  Before(wire', d, x)
      BY DEF CommitComesLast, Before
    <2>1. CASE x = c
      BY <1>0, <1>1, <1>2, <2>1 DEF WireFits, Asking
    <2>2. CASE d = c
      BY <1>1, <2>2 DEF Ready
    <2>3. CASE x # c /\ d # c
      <3>1. Before(wire, d, x)
        BY <1>0, <1>1, <2>3 DEF CommitComesLast, Before
      <3> QED
        BY <1>2, <2>3, <3>1
    <2> QED
      BY <2>1, <2>2, <2>3
  <1> QED
    BY <1>3, <1>4, <1>5, <1>6, <1>7, <1>8 DEF ServiceInv

\* What is current, and stays as it is but for how it stands, is ready.
LEMMA CurrentIsReady ==
  ASSUME ServiceInv, NEW c \in Callers, NEW s \in Sessions, Alive(current),
         s.id = current.id, s.core = current.core, s.file = current.file, s.got = current.got,
         s.bytes = current.bytes, Active(s) => Active(current)
  PROVE  Ready(c, s)
  BY DEF ServiceInv, SessionIsOpen, IdIsNew, Ready, CoreId

\* A step that goes on with a session, or with none.
Stands(c, s) == s = NoSession \/ Ready(c, s)

\* What is current stands, and does so when it has failed.
LEMMA CurrentStands ==
  ASSUME ServiceInv, NEW c \in Callers
  PROVE  Stands(c, current)
  BY CurrentIsReady DEF ServiceInv, ServiceTypes, Stands, Alive

\* A session that fails is left as it is otherwise.
LEMMA FailStands ==
  ASSUME NEW c \in Callers, NEW s, Stands(c, s)
  PROVE  Stands(c, Fail(s))
  <1>1. CASE s = NoSession
    BY <1>1 DEF Stands, Fail, Alive
  <1>2. CASE Ready(c, s)
    <2> DEFINE f == [s EXCEPT !.status = "failed"]
    <2>1. s \in Sessions
      BY <1>2 DEF Ready
    <2>2. /\ f \in Sessions /\ f.id = s.id /\ f.core = s.core /\ f.file = s.file /\ f.got = s.got
          /\ f.bytes = s.bytes /\ f.status = "failed"
      BY <2>1 DEF Sessions, Conclusions
    <2>3. Fail(s) = f
      BY <2>1, RecordsAreSome DEF Fail
    <2> HIDE DEF f
    <2>4. Ready(c, f)
      BY <1>2, <2>2 DEF Ready, CoreId, Active
    <2> QED
      BY <2>3, <2>4 DEF Stands
  <1> QED
    BY <1>1, <1>2 DEF Stands

\* The step takes up c, or finds it beyond the queue.
IpcMoves(c) ==
  \/ ipc' = ipc /\ call[c].pc # "invoked"
  \/ \E kinds \in SUBSET {"bundled", "select", "send", "cancel"} : TakeUp(c, kinds)

\* The queue fits after such a step.
LEMMA IpcMoved ==
  ASSUME ServiceInv, NEW c \in Callers, IpcMoves(c), NEW q, call' = [call EXCEPT ![c] = q]
  PROVE  IpcFits'
  <1>1. IpcFits /\ call \in [Callers -> CallRecords \cup {Idle}]
    BY DEF ServiceInv, ServiceTypes
  <1> QED
    BY <1>1, IpcKept, IpcTaken DEF IpcMoves

\* What the core answered is off the wire.
LEMMA WireAnswered ==
  ASSUME ServiceInv, NEW c \in Callers, Answered(c) \/ wire' = wire
  PROVE  WireKept(c)
  BY Removed DEF ServiceInv, WireFits, WireKept, Answered

\* A call ends.
LEMMA ReturnKeeps ==
  ASSUME ServiceInv, NEW c \in Callers, NEW i \in Ids \cup {NoId}, NEW v, Return(c, i, v),
         IpcMoves(c), Answered(c) \/ wire' = wire, Stands(c, current'), dropped' = dropped,
         \A d \in Callers \ {c} : call[d].pc = "prepare" => i # call[d].id
  PROVE  ServiceInv'
  <1>1. /\ call' = [call EXCEPT ![c] = Idle] /\ form' \in Forms
        /\ form'.prepared \in {form.prepared, NoId, i}
    BY ReturnTells DEF ServiceInv
  <1>2. IpcFits' /\ WireKept(c)
    BY <1>1, IpcMoved, WireAnswered
  <1>3. \A d \in Callers \ {c} : call[d].pc = "prepare" =>
           form'.prepared # call[d].id /\ call[d].id \notin dropped'
    <2> SUFFICES ASSUME NEW d \in Callers \ {c}, call[d].pc = "prepare"
                 PROVE  form'.prepared # call[d].id /\ call[d].id \notin dropped
      OBVIOUS
    <2>1. IdIsNew(d) /\ CallStands(d, call[d]) /\ call[d] # Idle
      BY RecordsAreSome DEF ServiceInv
    <2> QED
      BY <1>1, <2>1 DEF IdIsNew, CallStands
  <1>4. CallStands(c, Idle) /\ Idle.pc = "idle" /\ dropped' \subseteq Ids
    BY RecordsAreSome DEF CallStands, ServiceInv, ServiceTypes
  <1>5. current' = NoSession \/ (Ready(c, current') /\ dropped' = dropped)
    BY DEF Stands
  <1> HIDE DEF Ready, Stands, CallStands
  <1> QED
    BY <1>1, <1>2, <1>3, <1>4, <1>5, TurnKeeps

\* It ends by throwing, after the session of then has failed.
LEMMA AbortKeeps ==
  ASSUME ServiceInv, NEW c \in Callers, NEW s, Stands(c, s), SendAborts(c, s), IpcMoves(c),
         dropped' = dropped
  PROVE  ServiceInv'
  <1>1. Return(c, NoId, "none") /\ Answered(c) /\ Stands(c, current')
    BY FailStands DEF SendAborts, Throw
  <1>2. \A d \in Callers \ {c} : call[d].pc = "prepare" => NoId # call[d].id
    BY RecordsAreSome DEF ServiceInv, CallStands
  <1> QED
    BY <1>1, <1>2, ReturnKeeps

\* The loop goes on with the session of then.
LEMMA ContinueKeeps ==
  ASSUME ServiceInv, NEW c \in Callers, NEW r \in CallRecords, NEW s, Stands(c, s),
         call[c] \in CallRecords, r.kind = call[c].kind, r.id = call[c].id,
         r.kind \in {"bundled", "send"}, IpcMoves(c),
         s # NoSession /\ r.next = 0 =>
           \A d \in Callers \ {c} : call[d].pc = "prepare" => call[d].id # s.id,
         Continue(c, r, s)
  PROVE  ServiceInv'
  <1>0. dropped' = dropped
    BY DEF Continue
  <1>1. CASE SendAborts(c, s)
    BY <1>0, <1>1, AbortKeeps
  <1>2. ASSUME ~SendAborts(c, s)
        PROVE  ServiceInv'
    <2>1. Alive(s)
      BY <1>2 DEF Continue
    <2>2. Ready(c, s) /\ s \in Sessions
      BY <2>1 DEF Stands, Ready, Alive
    <2>3. CoreId(s) \in Ids /\ s.file \in Packages /\ r.next \in Nat /\ call[c] # Idle
      BY <2>2, RecordsAreSome DEF Sessions, CallRecords
    <2>4. CallStands(c, call[c])
      BY DEF ServiceInv
    <2>5. ASSUME NEW p \in {"chunk", "commit"}
          PROVE  LET q == [r EXCEPT !.pc = p, !.to = CoreId(s)]
                 IN /\ q \in CallRecords /\ q.pc = p /\ q.to = CoreId(s)
                    /\ q.kind = call[c].kind /\ q.id = call[c].id /\ CallStands(c, q)
      <3> DEFINE q == [r EXCEPT !.pc = p, !.to = CoreId(s)]
      <3>1. /\ q \in CallRecords /\ q.pc = p /\ q.to = CoreId(s)
            /\ q.kind = r.kind /\ q.id = r.id
        BY <2>3 DEF CallRecords, CallPlaces, Asking
      <3> HIDE DEF q
      <3>2. CallStands(c, q)
        BY <2>3, <2>4, <3>1 DEF CallStands
      <3> QED
        BY <3>1, <3>2 DEF q
    <2>6. CASE SendChunk(c, r, s)
      <3> DEFINE q == [r EXCEPT !.pc = "chunk", !.to = CoreId(s)]
                 n == ChunkLen(r.file, r.next)
      <3>1. /\ Takes(s, r.next, n) /\ current' = WithChunk(s, r.next, n)
            /\ Await(c, q) /\ AskAgain(c)
        BY <1>2, <2>6 DEF SendChunk
      <3>2. /\ q \in CallRecords /\ q.pc = "chunk" /\ q.to = CoreId(s)
            /\ q.kind = call[c].kind /\ q.id = call[c].id /\ CallStands(c, q)
        BY <2>5
      <3>3. n = ChunkLen(s.file, r.next) /\ r.next \in 0..(Total(s.file) - 1) /\ Active(s)
        BY <2>3, <3>1, ChunksOfFile DEF Takes, Active
      <3> HIDE DEF q, n
      <3>4. /\ current' \in Sessions /\ current'.id = s.id /\ current'.core = s.core
            /\ current'.file = s.file /\ current'.got = s.got \cup {r.next}
            /\ current'.bytes = LengthOf(s.file, s.got \cup {r.next})
        <4>1. /\ s.got \subseteq 0..(Total(s.file) - 1) /\ s.bytes = LengthOf(s.file, s.got)
              /\ s.bytes \in Nat
          BY <2>2 DEF Ready, Sessions
        <4>2. /\ n \in Nat
              /\ LengthOf(s.file, s.got \cup {r.next}) = s.bytes + Counted(s, r.next, n)
              /\ LengthOf(s.file, s.got \cup {r.next}) <= Bytes[s.file]
          BY <2>3, <3>3, <4>1, LengthAdds DEF Counted
        <4>3. Bytes[s.file] \in Nat /\ Counted(s, r.next, n) \in Nat
          BY <2>3, <4>2, ChunksOfFile DEF Counted
        <4> DEFINE m == Min({Bytes[s.file], s.bytes + Counted(s, r.next, n)})
        <4>4. m = LengthOf(s.file, s.got \cup {r.next}) /\ m \in Nat
          BY <4>1, <4>2, <4>3 DEF Min
        <4>5. current' = [s EXCEPT !.got = s.got \cup {r.next}, !.status = "transferring", !.bytes = m]
          BY <3>1 DEF WithChunk
        <4> HIDE DEF m
        <4> QED
          BY <2>2, <2>3, <4>4, <4>5 DEF Sessions
      <3>5. /\ current'.got \subseteq 0..(Total(s.file) - 1)
            /\ 0 \in current'.got =>
                 0 \in s.got \/ \A d \in Callers \ {c} : call[d].pc = "prepare" => call[d].id # s.id
        BY <2>1, <2>2, <3>3, <3>4 DEF Ready, Alive
      <3>6. call' = [call EXCEPT ![c] = q] /\ form' = form /\ wire' = Append(RemoveFirst(wire, c), c)
        BY <3>1 DEF Await, AskAgain
      <3>7. IpcFits'
        BY <3>6, IpcMoved
      <3> QED
        BY <1>0, <2>2, <2>3, <3>2, <3>3, <3>4, <3>5, <3>6, <3>7, SendKeeps
    <2>7. CASE SendCommit(c, r, s)
      <3> DEFINE q == [r EXCEPT !.pc = "commit", !.to = CoreId(s)]
      <3>1. /\ MayCommit(s) /\ current' = [s EXCEPT !.status = "verifying"]
            /\ Await(c, q) /\ AskAgain(c)
        BY <1>2, <2>7 DEF SendCommit
      <3>2. /\ q \in CallRecords /\ q.pc = "commit" /\ q.to = CoreId(s)
            /\ q.kind = call[c].kind /\ q.id = call[c].id /\ CallStands(c, q)
        BY <2>5
      <3> HIDE DEF q
      <3>3. /\ current' \in Sessions /\ current'.id = s.id /\ current'.core = s.core
            /\ current'.file = s.file /\ current'.got = s.got /\ current'.bytes = s.bytes
            /\ ~Active(current')
        BY <2>2, <3>1 DEF Sessions, Active
      <3>4. s.got \subseteq 0..(Total(s.file) - 1) /\ s.bytes = LengthOf(s.file, s.got) /\ Active(s)
        BY <2>2, <3>1 DEF Ready, MayCommit, Active
      <3>5. 0 \in s.got
        <4>1. 0 \in 0..(Total(s.file) - 1)
          BY <2>3, ChunksOfFile
        <4> QED
          BY <2>3, <3>1, <3>4, <4>1, LengthAdds DEF MayCommit
      <3>6. call' = [call EXCEPT ![c] = q] /\ form' = form /\ wire' = Append(RemoveFirst(wire, c), c)
        BY <3>1 DEF Await, AskAgain
      <3>7. IpcFits'
        BY <3>6, IpcMoved
      <3> QED
        BY <1>0, <2>2, <2>3, <3>2, <3>3, <3>4, <3>5, <3>6, <3>7, SendKeeps
    <2> QED
      BY <1>2, <2>6, <2>7 DEF Continue
  <1> QED
    BY <1>1, <1>2

\* The loop starts with the session of then, if it is the call's own.
LEMMA SendKeepsOn ==
  ASSUME ServiceInv, NEW c \in Callers, NEW s, Stands(c, s), call[c] \in CallRecords,
         call[c].kind \in {"bundled", "send"}, IpcMoves(c),
         \A d \in Callers \ {c} : call[d].pc = "prepare" => call[d].id # call[c].id,
         SendFileChunks(c, call[c], s)
  PROVE  ServiceInv'
  <1>1. CASE Alive(s) /\ s.id = call[c].id /\ s.status \in {"preparing", "transferring"}
    <2> DEFINE r == [call[c] EXCEPT !.file = s.file, !.next = 0]
    <2>1. s \in Sessions
      BY <1>1 DEF Stands, Ready, Alive
    <2>2. r \in CallRecords /\ r.kind = call[c].kind /\ r.id = call[c].id
      BY <2>1 DEF CallRecords, Sessions
    <2>3. Continue(c, r, s)
      BY <1>1 DEF SendFileChunks
    <2> HIDE DEF r
    <2> QED
      BY <1>1, <2>2, <2>3, ContinueKeeps
  <1>2. CASE ~(Alive(s) /\ s.id = call[c].id /\ s.status \in {"preparing", "transferring"})
    <2>1. Return(c, NoId, "none") /\ Answered(c) /\ current' = s /\ dropped' = dropped
      BY <1>2 DEF SendFileChunks, Throw
    <2>2. \A d \in Callers \ {c} : call[d].pc = "prepare" => NoId # call[d].id
      BY RecordsAreSome DEF ServiceInv, CallStands
    <2> QED
      BY <2>1, <2>2, ReturnKeeps
  <1> QED
    BY <1>1, <1>2

-----------------------------------------------------------------------------
\* A call that ends by throwing and leaves the session alone.
LEMMA ThrowKeeps ==
  ASSUME ServiceInv, NEW c \in Callers, Throw(c), IpcMoves(c), Answered(c) \/ wire' = wire,
         UNCHANGED <<current, dropped>>
  PROVE  ServiceInv'
  <1>1. Return(c, NoId, "none") /\ Stands(c, current')
    BY CurrentStands DEF Throw
  <1>2. \A d \in Callers \ {c} : call[d].pc = "prepare" => NoId # call[d].id
    BY RecordsAreSome DEF ServiceInv, CallStands
  <1> QED
    BY <1>1, <1>2, ReturnKeeps

\* What the core has not answered yet is nobody's id.
LEMMA OthersPrepare ==
  ASSUME ServiceInv, NEW c \in Callers, NEW d \in Callers \ {c}, call[d].pc = "prepare"
  PROVE  /\ call[d].id # NoId /\ call[d].id # form.prepared /\ call[d].id \notin dropped
         /\ call[c] # Idle /\ (call[c].pc = "prepare" \/ call[c].kind \in {"send", "cancel"}) =>
              call[c].id # call[d].id
         /\ Alive(current) => current.core # call[d].id /\ (0 \in current.got => current.id # call[d].id)
  <1>1. IdIsNew(d) /\ CallStands(d, call[d]) /\ call[d] # Idle
    BY RecordsAreSome DEF ServiceInv
  <1> QED
    BY <1>1 DEF IdIsNew, CallStands

\* prepareFromFile, up to its hashes.
LEMMA PrepareKeeps ==
  ASSUME ServiceInv, NEW c \in Callers, PrepareFromFile(c)
  PROVE  ServiceInv'
  <1>1. TakeUp(c, {"bundled", "select"}) /\ IpcMoves(c) /\ UNCHANGED <<current, wire, dropped>>
    BY DEF PrepareFromFile, IpcMoves
  <1>2. CASE Throw(c)
    BY <1>1, <1>2, ThrowKeeps
  <1>3. CASE Await(c, [call[c] EXCEPT !.pc = "hash"])
    <2> DEFINE q == [call[c] EXCEPT !.pc = "hash"]
    <2>1. call[c].kind \in {"bundled", "select"} /\ call[c].pc = "invoked"
      BY <1>1 DEF TakeUp, ServiceInv, IpcFits
    <2>2. call[c] \in CallRecords /\ CallStands(c, call[c]) /\ call[c] # Idle
      BY <2>1, CallIsRecord, RecordsAreSome DEF ServiceInv
    <2>3. q \in CallRecords /\ q.pc = "hash" /\ q.kind = call[c].kind
      BY <2>2 DEF CallRecords, CallPlaces
    <2>4. call' = [call EXCEPT ![c] = q] /\ form' = form
      BY <1>3 DEF Await
    <2> HIDE DEF q
    <2>5. CallStands(c, q) /\ IpcFits' /\ WireKept(c)
      BY <1>1, <2>1, <2>2, <2>3, <2>4, IpcMoved, WireAnswered DEF CallStands
    <2>6. current' = NoSession \/ (Ready(c, current') /\ dropped' = dropped)
      BY <1>1, CurrentStands DEF Stands
    <2>7. form' \in Forms /\ dropped' \subseteq Ids
      BY <1>1, <2>4 DEF ServiceInv, ServiceTypes
    <2>8. \A d \in Callers \ {c} : call[d].pc = "prepare" =>
             form'.prepared # call[d].id /\ call[d].id \notin dropped'
      BY <1>1, <2>4, OthersPrepare
    <2>9. q.kind \notin {"send", "cancel"} /\ q.pc \notin {"prepare", "chunk", "commit", "cancel"}
      BY <2>1, <2>3
    <2> HIDE DEF CallStands, Ready, WireKept
    <2> QED
      BY <2>3, <2>4, <2>5, <2>6, <2>7, <2>8, <2>9, TurnKeeps
  <1> QED
    BY <1>2, <1>3 DEF PrepareFromFile

\* The new session and the request for it.
LEMMA HashedKeeps ==
  ASSUME ServiceInv, NEW c \in Callers, Hashed(c)
  PROVE  ServiceInv'
  <1>0. /\ ServiceTypes /\ WireFits /\ CommitComesLast /\ (\A e \in Callers : CallStands(e, call[e]))
        /\ \A e \in Callers : IdIsNew(e)
    BY DEF ServiceInv
  <1>1. call[c] \in CallRecords /\ call[c] # Idle /\ call[c].pc = "hash" /\ CallStands(c, call[c])
    BY <1>0, CallIsRecord, RecordsAreSome DEF Hashed
  <1>2. PICK i \in Ids :
          /\ i # form.prepared /\ \A d \in Callers : call[d] # Idle => i # call[d].id /\ i # call[d].to
          /\ current' = NewSession(i, call[c].file) /\ dropped' = dropped \ {i}
          /\ Await(c, [call[c] EXCEPT !.pc = "prepare", !.id = i])
    <2>1. FreshId \in Ids /\ FreshId \notin InUse
      BY DEF Hashed, FreshId
    <2>2. /\ FreshId # form.prepared
          /\ \A d \in Callers : call[d] # Idle => FreshId # call[d].id /\ FreshId # call[d].to
      BY <2>1 DEF InUse
    <2> QED
      BY <2>1, <2>2 DEF Hashed
  <1> DEFINE q == [call[c] EXCEPT !.pc = "prepare", !.id = i]
             f == call[c].file
  <1>3. q \in CallRecords /\ q.pc = "prepare" /\ q.kind = call[c].kind /\ q.id = i /\ i # NoId
    BY <1>1, NameAssumption DEF CallRecords, CallPlaces, Asking
  <1>4. call' = [call EXCEPT ![c] = q] /\ form' = form /\ wire' = Append(wire, c) /\ ipc' = ipc
    BY <1>2 DEF Await, Hashed
  <1>5. /\ current' \in Sessions /\ current'.id = i /\ current'.file = f /\ current'.got = {}
        /\ current'.bytes = 0 /\ current'.core = NoId /\ f \in Packages
    BY <1>1, <1>2 DEF NewSession, Sessions, CallRecords
  <1> HIDE DEF q, f
  <1>6. /\ call'[c] = q /\ \A d \in Callers \ {c} : call'[d] = call[d]
        /\ call' \in [Callers -> CallRecords \cup {Idle}]
    BY <1>0, <1>3, <1>4, OthersStay
  <1>7. q.kind \in {"bundled", "select"}
    BY <1>1, <1>3 DEF CallStands
  <1>8. /\ wire' \in Seq(Callers) /\ In(wire', c)
        /\ \A d : In(wire, d) => In(wire', d)
        /\ \A d, e : Before(wire, d, e) => Before(wire', d, e)
    BY <1>0, <1>4, PutLast DEF WireFits
  <1>9. ServiceTypes'
    BY <1>0, <1>2, <1>4, <1>5, <1>6 DEF ServiceTypes
  <1>10. \A e \in Callers : CallStands(e, call[e])'
    BY <1>0, <1>1, <1>3, <1>6, <1>7 DEF CallStands
  <1>11. IpcFits'
    BY <1>0, <1>1, <1>4, IpcKept DEF ServiceInv, ServiceTypes
  <1>12. WireFits'
    BY <1>0, <1>6, <1>8 DEF WireFits
  <1>13. ASSUME NEW e \in Callers
         PROVE  IdIsNew(e)'
    <2>1. CASE e = c
      BY <1>2, <1>3, <1>4, <1>5, <1>6, <2>1 DEF IdIsNew
    <2>2. CASE e # c
      <3> SUFFICES ASSUME call'[e].pc = "prepare" PROVE IdIsNew(e)'
        BY DEF IdIsNew
      <3>1. call'[e] = call[e] /\ call[e].pc = "prepare" /\ call[e] # Idle
        BY <1>6, <2>2, RecordsAreSome
      <3>2. /\ call[e].id # NoId /\ call[e].id # form.prepared /\ call[e].id \notin dropped
            /\ call[e].id # i
        BY <1>2, <2>2, <3>1, OthersPrepare
      <3>3. ASSUME NEW d \in Callers \ {e}, call'[d] # Idle
            PROVE  /\ call'[d].pc = "prepare" \/ call'[d].kind \in {"send", "cancel"} => call'[d].id # call'[e].id
                   /\ call'[d].pc = "commit" => call'[d].to # call'[e].id
        <4>1. CASE d # c
          BY <1>0, <1>6, <3>1, <3>3, <4>1 DEF IdIsNew
        <4>2. CASE d = c
          BY <1>3, <1>6, <3>1, <3>2, <4>2
        <4> QED
          BY <4>1, <4>2
      <3> QED
        BY <1>2, <1>4, <1>5, <3>1, <3>2, <3>3 DEF IdIsNew
    <2> QED
      BY <2>1, <2>2
  <1>14. SessionIsOpen'
    <2>1. CoreId(current') = i
      BY <1>5 DEF CoreId
    <2>2. ASSUME NEW d \in Callers, call'[d].pc = "commit"
          PROVE  call'[d].to # i
      <3>1. d # c /\ call'[d] = call[d]
        BY <1>3, <1>6, <2>2
      <3> QED
        BY <1>2, <2>2, <3>1, RecordsAreSome
    <2>3. 0 = LengthOf(f, {})
      <3>1. 0 \in 0..(Total(f) - 1)
        BY <1>5, ChunksOfFile
      <3> QED
        BY <1>5, <3>1, LengthAdds
    <2> QED
      BY <1>2, <1>5, <2>1, <2>2, <2>3 DEF SessionIsOpen
  <1>15. CommitComesLast'
    <2> SUFFICES ASSUME NEW x \in Callers, NEW d \in Callers, x # d, call'[x].pc = "commit",
                        call'[d].pc \in {"chunk", "commit"}, call'[x].to = call'[d].to
                 PROVE  Before(wire', d, x)
      BY DEF CommitComesLast, Before
    <2>1. x # c /\ d # c /\ call'[x] = call[x] /\ call'[d] = call[d]
      BY <1>3, <1>6
    <2>2. Before(wire, d, x)
      BY <1>0, <2>1 DEF CommitComesLast, Before
    <2> QED
      BY <1>8, <2>2
  <1> QED
    BY <1>9, <1>10, <1>11, <1>12, <1>13, <1>14, <1>15 DEF ServiceInv

\* The session that is current stands with the id that the core knows it by.
LEMMA PreparedStands ==
  ASSUME ServiceInv, NEW c \in Callers, call[c].pc = "prepare", Alive(current)
  PROVE  /\ Stands(c, [current EXCEPT !.core = call[c].id])
         /\ call[c].id \in Ids /\ call[c] \in CallRecords /\ call[c] # Idle
         /\ call[c].kind \in {"bundled", "select"}
         /\ \A d \in Callers \ {c} : call[d].pc = "prepare" => call[d].id # call[c].id
  <1>1. call[c] \in CallRecords /\ call[c] # Idle /\ CallStands(c, call[c]) /\ IdIsNew(c)
    BY CallIsRecord, RecordsAreSome DEF ServiceInv
  <1> DEFINE s == [current EXCEPT !.core = call[c].id]
  <1>2. /\ current \in Sessions /\ call[c].id \in Ids /\ call[c].id # NoId
        /\ call[c].kind \in {"bundled", "select"}
    BY <1>1 DEF ServiceInv, ServiceTypes, Alive, CallStands, CallRecords
  <1>3. /\ s \in Sessions /\ s.core = call[c].id /\ s.id = current.id /\ s.got = current.got
        /\ s.bytes = current.bytes /\ s.file = current.file /\ CoreId(s) = call[c].id
    BY <1>2 DEF Sessions, CoreId
  <1> HIDE DEF s
  <1>4. \A d \in Callers \ {c} : call[d].pc = "prepare" => call[d].id # call[c].id
    BY <1>1, OthersPrepare
  <1>5. \A d \in Callers \ {c} : call[d].pc = "commit" => call[d].to # CoreId(s)
    BY <1>1, <1>3, RecordsAreSome DEF IdIsNew
  <1>6. \A d \in Callers \ {c} : call[d].pc = "prepare" => (0 \in s.got => s.id # call[d].id)
    BY <1>3, OthersPrepare
  <1>7. CoreId(s) \notin dropped
    BY <1>1, <1>3 DEF IdIsNew
  <1>8. s.got \subseteq 0..(Total(s.file) - 1) /\ s.bytes = LengthOf(s.file, s.got)
    BY <1>3 DEF ServiceInv, SessionIsOpen
  <1>9. Stands(c, s)
    BY <1>3, <1>4, <1>5, <1>6, <1>7, <1>8 DEF Stands, Ready
  <1> QED
    BY <1>1, <1>2, <1>4, <1>9 DEF s

\* The core has the session.
LEMMA PreparedKeeps ==
  ASSUME ServiceInv, NEW c \in Callers, Prepared(c)
  PROVE  ServiceInv'
  <1>1. call[c].pc = "prepare" /\ ipc' = ipc /\ IpcMoves(c)
    BY DEF Prepared, IpcMoves
  <1>2. CASE ~Alive(current)
    BY <1>1, <1>2, CurrentStands, AbortKeeps DEF Prepared
  <1>3. ASSUME Alive(current)
        PROVE  ServiceInv'
    <2> DEFINE s == [current EXCEPT !.core = call[c].id]
    <2>1. /\ Stands(c, s) /\ call[c].id \in Ids /\ call[c] \in CallRecords /\ call[c] # Idle
          /\ \A d \in Callers \ {c} : call[d].pc = "prepare" => call[d].id # call[c].id
      BY <1>1, <1>3, PreparedStands
    <2>2. CASE call[c].kind = "bundled"
      <3>1. SendFileChunks(c, call[c], s)
        BY <1>3, <2>2 DEF Prepared
      <3> HIDE DEF Stands, s
      <3> QED
        BY <1>1, <2>1, <2>2, <3>1, SendKeepsOn
    <2>3. CASE call[c].kind # "bundled"
      <3>1. current' = s /\ Return(c, call[c].id, "none") /\ Answered(c) /\ dropped' = dropped
        BY <1>3, <2>3 DEF Prepared
      <3> HIDE DEF Stands, s
      <3> QED
        BY <1>1, <2>1, <3>1, ReturnKeeps
    <2> QED
      BY <2>2, <2>3
  <1> QED
    BY <1>2, <1>3

\* The page's call to send what it prepared.
LEMMA SendStartsKeeps ==
  ASSUME ServiceInv, NEW c \in Callers, SendStarts(c)
  PROVE  ServiceInv'
  <1>1. TakeUp(c, {"send"}) /\ IpcMoves(c) /\ SendFileChunks(c, call[c], current)
    BY DEF SendStarts, IpcMoves
  <1>2. call[c].pc = "invoked" /\ call[c].kind = "send"
    BY <1>1 DEF TakeUp, ServiceInv, IpcFits
  <1>3. call[c] \in CallRecords /\ call[c] # Idle
    BY <1>2, CallIsRecord, RecordsAreSome DEF ServiceInv
  <1>4. \A d \in Callers \ {c} : call[d].pc = "prepare" => call[d].id # call[c].id
    BY <1>2, <1>3, OthersPrepare
  <1>5. Stands(c, current)
    BY CurrentStands
  <1> HIDE DEF Stands
  <1> QED
    BY <1>1, <1>2, <1>3, <1>4, <1>5, SendKeepsOn

\* The next chunk, or the commit.
LEMMA ChunkAckedKeeps ==
  ASSUME ServiceInv, NEW c \in Callers, ChunkAcked(c)
  PROVE  ServiceInv'
  <1> DEFINE r == [call[c] EXCEPT !.next = @ + 1]
  <1>1. call[c].pc = "chunk" /\ IpcMoves(c) /\ Continue(c, r, current)
    BY DEF ChunkAcked, IpcMoves
  <1>2. call[c] \in CallRecords /\ call[c].kind \in {"bundled", "send"}
    BY <1>1, CallIsRecord, RecordsAreSome DEF ServiceInv, CallStands
  <1>3. r \in CallRecords /\ r.kind = call[c].kind /\ r.id = call[c].id /\ r.next # 0
    BY <1>2 DEF CallRecords
  <1>4. Stands(c, current)
    BY CurrentStands
  <1> HIDE DEF r, Stands
  <1> QED
    BY <1>1, <1>2, <1>3, <1>4, ContinueKeeps

\* A request fails.
LEMMA CoreFailsKeeps ==
  ASSUME ServiceInv, NEW c \in Callers, CoreFails(c)
  PROVE  ServiceInv'
  <1>1. IpcMoves(c) /\ SendAborts(c, current) /\ dropped' = dropped
    BY DEF CoreFails, IpcMoves
  <1>2. Stands(c, current)
    BY CurrentStands
  <1> QED
    BY <1>1, <1>2, AbortKeeps

\* The conclusion of a commit.
LEMMA ConcludedKeeps ==
  ASSUME ServiceInv, NEW c \in Callers, NEW v \in Conclusions, Concluded(c, v)
  PROVE  ServiceInv'
  <1>1. /\ IpcMoves(c) /\ Answered(c) /\ dropped' = dropped
        /\ Return(c, NoId, IF Alive(current) THEN current'.concluded ELSE "none")
    BY DEF Concluded, IpcMoves
  <1>2. \A d \in Callers \ {c} : call[d].pc = "prepare" => NoId # call[d].id
    BY OthersPrepare
  <1>3. Stands(c, current')
    <2>1. CASE ~Alive(current)
      BY <2>1 DEF Concluded, Stands, Alive
    <2>2. CASE Alive(current)
      <3> DEFINE s == Conclude(current, v)
      <3>1. current \in Sessions
        BY <2>2 DEF ServiceInv, ServiceTypes, Alive
      <3>2. /\ s \in Sessions /\ s.id = current.id /\ s.core = current.core /\ s.file = current.file
            /\ s.got = current.got /\ s.bytes = current.bytes /\ (Active(s) => Active(current))
        <4>1. CASE v = "completed"
          BY <3>1, <4>1 DEF Conclude, Sessions, Conclusions, Active
        <4>2. CASE v # "completed"
          BY <3>1, <4>2 DEF Conclude, Sessions, Conclusions, Active
        <4> QED
          BY <4>1, <4>2
      <3>3. current' = s
        BY <2>2 DEF Concluded
      <3> HIDE DEF s
      <3> QED
        BY <2>2, <3>2, <3>3, CurrentIsReady DEF Stands
    <2> QED
      BY <2>1, <2>2
  <1> HIDE DEF Stands
  <1> QED
    BY <1>1, <1>2, <1>3, ReturnKeeps

\* The user cancels, which drops the session.
LEMMA CancelKeeps ==
  ASSUME ServiceInv, NEW c \in Callers, CancelFileTransfer(c)
  PROVE  ServiceInv'
  <1>1. TakeUp(c, {"cancel"}) /\ IpcMoves(c)
    BY DEF CancelFileTransfer, IpcMoves
  <1>2. CASE Throw(c) /\ UNCHANGED <<current, wire, dropped>>
    BY <1>1, <1>2, ThrowKeeps
  <1>3. ASSUME Alive(current), current.id = call[c].id
        PROVE  ServiceInv'
    <2> DEFINE q == [call[c] EXCEPT !.pc = "cancel"]
    <2>1. call[c].kind = "cancel" /\ call[c].pc = "invoked"
      BY <1>1 DEF TakeUp, ServiceInv, IpcFits
    <2>2. call[c] \in CallRecords /\ CallStands(c, call[c]) /\ call[c] # Idle
      BY <2>1, CallIsRecord, RecordsAreSome DEF ServiceInv
    <2>3. q \in CallRecords /\ q.pc = "cancel" /\ q.kind = call[c].kind /\ q.id = call[c].id
      BY <2>2 DEF CallRecords, CallPlaces, Asking
    <2>4. /\ call' = [call EXCEPT ![c] = q] /\ form' = form /\ wire' = Append(wire, c)
          /\ current' = NoSession /\ dropped' = dropped \cup {CoreId(current)}
      BY <1>3 DEF CancelFileTransfer, Await, Cleanup
    <2> HIDE DEF q
    <2>5. CallStands(c, q)
      BY <2>1, <2>2, <2>3 DEF CallStands
    <2>6. IpcFits'
      BY <1>1, <2>4, IpcMoved
    <2>7. WireKept(c) /\ In(wire', c)
      BY <2>4, PutLast DEF ServiceInv, WireFits, WireKept
    <2>8. form' \in Forms /\ dropped' \subseteq Ids
      <3>1. current \in Sessions
        BY <1>3 DEF ServiceInv, ServiceTypes, Alive
      <3> QED
        BY <2>4, <3>1, RecordsAreSome DEF ServiceInv, ServiceTypes
    <2>9. ASSUME NEW d \in Callers \ {c}, call[d].pc = "prepare"
          PROVE  form'.prepared # call[d].id /\ call[d].id \notin dropped'
      <3>1. /\ call[d].id # form.prepared /\ call[d].id \notin dropped
            /\ call[c].id # call[d].id /\ current.core # call[d].id
        BY <1>3, <2>1, <2>2, <2>9, OthersPrepare
      <3>2. CoreId(current) # call[d].id
        BY <1>3, <3>1 DEF CoreId
      <3> QED
        BY <2>4, <3>1, <3>2
    <2> HIDE DEF CallStands, WireKept
    <2> QED
      BY <2>1, <2>2, <2>3, <2>4, <2>5, <2>6, <2>7, <2>8, <2>9, TurnKeeps
  <1> QED
    BY <1>2, <1>3 DEF CancelFileTransfer

\* A page calls.
LEMMA InvokeKeeps ==
  ASSUME ServiceInv, NEW c \in Callers, NEW k \in {"bundled", "select", "send", "cancel"},
         NEW f \in Packages, NEW i \in {NoId, form.prepared}, Invoke(c, k, f, i),
         k = "bundled" <=> c = "wizard", k \in {"send", "cancel"} => i = form.prepared,
         form' \in Forms, form'.prepared \in {NoId, form.prepared}
  PROVE  ServiceInv'
  <1> DEFINE q == [pc |-> "invoked", kind |-> k, file |-> f,
                   id |-> i, next |-> 0, to |-> NoId, seen |-> TRUE]
  <1>1. /\ call[c] = Idle /\ call' = [call EXCEPT ![c] = q] /\ ipc' = Append(ipc, c)
        /\ UNCHANGED <<current, wire, dropped>>
    BY DEF Invoke
  <1>2. /\ q \in CallRecords /\ q.pc = "invoked" /\ q.kind = k /\ q.id = i
    BY DEF CallRecords, CallPlaces, ServiceInv, ServiceTypes, Forms
  <1> HIDE DEF q
  <1>3. CallStands(c, q)
    BY <1>2 DEF CallStands, Asking
  <1>4. IpcFits'
    BY <1>1, <1>2, RecordsAreSome, IpcAdded DEF ServiceInv, ServiceTypes
  <1>5. WireKept(c)
    BY <1>1, WireAnswered
  <1>6. current' = NoSession \/ (Ready(c, current') /\ dropped' = dropped)
    BY <1>1, CurrentStands DEF Stands
  <1>7. dropped' \subseteq Ids
    BY <1>1 DEF ServiceInv, ServiceTypes
  <1>8. \A d \in Callers \ {c} : call[d].pc = "prepare" =>
           form'.prepared # call[d].id /\ call[d].id \notin dropped'
    BY <1>1, OthersPrepare
  <1> HIDE DEF CallStands, WireKept, Ready
  <1> QED
    BY <1>1, <1>2, <1>3, <1>4, <1>5, <1>6, <1>7, <1>8, TurnKeeps

\* What the user does on the two pages.
LEMMA UserKeeps ==
  ASSUME ServiceInv, User
  PROVE  ServiceInv'
  <1>0. form \in Forms /\ FreshForm \in Forms /\ FreshForm.prepared = NoId /\ ServiceTypes
    BY DEF ServiceInv, ServiceTypes, Forms, FreshForm
  <1>1. \A c \in PageCalls : c \in Callers /\ c # "wizard"
    BY NameAssumption DEF Callers
  <1>2. CASE InstallBundled
    <2>1. form' = form /\ Invoke("wizard", "bundled", Bundled, NoId) /\ "wizard" \in Callers
      BY <1>2 DEF InstallBundled, Callers
    <2> QED
      BY <1>0, <2>1, FileAssumption, InvokeKeeps
  <1>3. ASSUME NEW c \in PageCalls, InstallOther(c)
        PROVE  ServiceInv'
    <2>1. form' \in Forms /\ form'.prepared = form.prepared
      BY <1>0, <1>3 DEF InstallOther, Forms
    <2>2. Invoke(c, "send", Bundled, form.prepared)
      BY <1>3 DEF InstallOther
    <2> QED
      BY <1>1, <2>1, <2>2, FileAssumption, InvokeKeeps
  <1>4. ASSUME NEW c \in PageCalls, CancelOther(c)
        PROVE  ServiceInv'
    <2>1. form' = form /\ Invoke(c, "cancel", Bundled, form.prepared)
      BY <1>4 DEF CancelOther
    <2> QED
      BY <1>0, <1>1, <2>1, FileAssumption, InvokeKeeps
  <1>5. ASSUME NEW c \in PageCalls, NEW f \in Packages, SelectFile(c, f)
        PROVE  ServiceInv'
    <2>1. form' \in Forms /\ form'.prepared = NoId
      BY <1>5 DEF SelectFile, Forms
    <2>2. Invoke(c, "select", f, NoId)
      BY <1>5 DEF SelectFile
    <2> QED
      BY <1>1, <2>1, <2>2, InvokeKeeps
  <1>6. CASE LeavePage
    <2>1. /\ form' = FreshForm /\ UNCHANGED <<current, ipc, wire, dropped>>
      BY <1>6 DEF LeavePage
    <2>2. ASSUME NEW c \in Callers
          PROVE  /\ call'[c] \in CallRecords \cup {Idle} /\ call'[c].pc = call[c].pc
                 /\ (call'[c] = Idle <=> call[c] = Idle)
                 /\ (call[c] # Idle => /\ call'[c].kind = call[c].kind /\ call'[c].id = call[c].id
                                       /\ call'[c].to = call[c].to)
      <3>1. CASE c \in PageCalls /\ call[c] # Idle
        <4>1. call[c] \in CallRecords /\ call'[c] = [call[c] EXCEPT !.seen = FALSE]
          BY <1>0, <1>6, <3>1, CallIsRecord DEF LeavePage
        <4>2. call'[c] \in CallRecords
          BY <4>1 DEF CallRecords
        <4> QED
          BY <3>1, <4>1, <4>2, RecordsAreSome DEF CallRecords
      <3>2. CASE ~(c \in PageCalls /\ call[c] # Idle)
        BY <1>0, <1>6, <3>2, CallIsRecord DEF LeavePage
      <3> QED
        BY <3>1, <3>2
    <2>3. call' \in [Callers -> CallRecords \cup {Idle}]
      BY <1>6, <2>2 DEF LeavePage
    <2>4. ServiceTypes'
      BY <1>0, <2>1, <2>3 DEF ServiceTypes
    <2>5. \A c \in Callers : CallStands(c, call[c])'
      BY <2>2 DEF CallStands, ServiceInv
    <2>6. IpcFits' /\ WireFits'
      BY <2>1, <2>2 DEF IpcFits, WireFits, ServiceInv
    <2>7. ASSUME NEW e \in Callers, call'[e].pc = "prepare" PROVE IdIsNew(e)'
      <3>1. call[e].pc = "prepare" /\ IdIsNew(e) /\ CallStands(e, call[e]) /\ call[e] # Idle
        BY <2>2, <2>7, RecordsAreSome DEF ServiceInv
      <3>2. FreshForm.prepared # call[e].id
        BY <1>0, <3>1 DEF CallStands
      <3> QED
        BY <2>1, <2>2, <3>1, <3>2 DEF IdIsNew
    <2>8. \A e \in Callers : IdIsNew(e)'
      BY <2>7 DEF IdIsNew
    <2>9. SessionIsOpen'
      BY <2>1, <2>2, RecordsAreSome DEF SessionIsOpen, ServiceInv
    <2>10. CommitComesLast'
      BY <2>1, <2>2, RecordsAreSome DEF CommitComesLast, ServiceInv
    <2> QED
      BY <2>4, <2>5, <2>6, <2>8, <2>9, <2>10 DEF ServiceInv
  <1> QED
    BY <1>2, <1>3, <1>4, <1>5, <1>6 DEF User

\* ServiceInv holds from the start.
LEMMA ServiceStarts ==
  InstallInit => ServiceInv
  <1> SUFFICES ASSUME InstallInit PROVE ServiceInv
    OBVIOUS
  <1>1. /\ current = NoSession /\ ipc = <<>> /\ wire = <<>> /\ dropped = {} /\ form = FreshForm
        /\ call \in [Callers -> {Idle}] /\ \A c \in Callers : call[c] = Idle
    BY DEF InstallInit
  <1>2. ServiceTypes
    BY <1>1 DEF ServiceTypes, Forms, FreshForm
  <1>3. \A c \in Callers : CallStands(c, call[c]) /\ IdIsNew(c)
    BY <1>1, RecordsAreSome DEF CallStands, IdIsNew
  <1>4. IpcFits /\ WireFits
    BY <1>1, RecordsAreSome DEF IpcFits, WireFits, Asking
  <1>5. SessionIsOpen /\ CommitComesLast
    BY <1>1, RecordsAreSome DEF SessionIsOpen, CommitComesLast
  <1> QED
    BY <1>2, <1>3, <1>4, <1>5 DEF ServiceInv

\* Every step of the service and its pages keeps it.
LEMMA ServiceKeeps ==
  ServiceInv /\ InstallNext => ServiceInv'
  <1> SUFFICES ASSUME ServiceInv, InstallNext PROVE ServiceInv'
    OBVIOUS
  <1>1. CASE User
    BY <1>1, UserKeeps
  <1>2. ASSUME NEW c \in Callers, MainStep(c)
        PROVE  ServiceInv'
    <2>1. CASE HashFails(c)
      <3>1. IpcMoves(c) /\ Throw(c) /\ UNCHANGED <<current, wire, dropped>>
        BY <2>1 DEF HashFails, IpcMoves
      <3> QED
        BY <3>1, ThrowKeeps
    <2> QED
      BY <1>2, <2>1, PrepareKeeps, HashedKeeps, SendStartsKeeps, CancelKeeps DEF MainStep
  <1>3. ASSUME NEW c \in Callers, Answer(c)
        PROVE  ServiceInv'
    <2>1. CASE CancelReturns(c)
      <3>1. IpcMoves(c) /\ Throw(c) /\ Answered(c) /\ UNCHANGED <<current, dropped>>
        BY <2>1 DEF CancelReturns, IpcMoves
      <3> QED
        BY <3>1, ThrowKeeps
    <2> QED
      BY <1>3, <2>1, PreparedKeeps, ChunkAckedKeeps, CoreFailsKeeps, ConcludedKeeps DEF Answer
  <1> QED
    BY <1>1, <1>2, <1>3 DEF InstallNext

-----------------------------------------------------------------------------
(***************************************************************************)
(* What a step says and sends                                              *)
(***************************************************************************)
\* The step tells no page that something was installed.
Silent == (step' = "done" => step = "done") /\ (form'.ok => form.ok)
\* What it sends goes to no session that was cancelled.
ToOpen ==
  \A c \in Callers :
    /\ call'[c] # Idle /\ call'[c].pc \in {"chunk", "commit"}
    /\ call[c] = Idle \/ call[c].pc # call'[c].pc \/ call[c].next # call'[c].next
    => call'[c].to \notin dropped

\* A step changes only the call whose turn it is.
LEMMA OwnTurn ==
  ASSUME ServiceInv, NEW c \in Callers, NEW q, call' = [call EXCEPT ![c] = q],
         q = Idle \/ q.pc \notin {"chunk", "commit"} \/ q.to \notin dropped
  PROVE  ToOpen
  <1>1. call'[c] = q /\ \A d \in Callers \ {c} : call'[d] = call[d]
    BY DEF ServiceInv, ServiceTypes
  <1> QED
    BY <1>1 DEF ToOpen

\* A call that ends without a conclusion says nothing of the kind.
LEMMA EndIsSilent ==
  ASSUME ServiceInv, NEW c \in Callers, NEW i \in Ids \cup {NoId}, Return(c, i, "none")
  PROVE  Silent /\ ToOpen
  <1>1. call' = [call EXCEPT ![c] = Idle]
    BY DEF Return
  <1>2. ToOpen
    BY <1>1, OwnTurn
  <1>3. /\ form'.ok /\ ~form.ok => "none" = "completed"
        /\ step' = "done" /\ step # "done" => "none" = "completed"
    BY ReturnTells DEF ServiceInv
  <1>4. form \in Forms /\ form' \in Forms
    BY ReturnTells DEF ServiceInv, ServiceTypes
  <1> QED
    BY <1>2, <1>3, <1>4 DEF Silent, Forms

\* Nor does the loop, and it sends to the session of then.
LEMMA LoopIsSilent ==
  ASSUME ServiceInv, NEW c \in Callers, NEW r, NEW s, Stands(c, s),
         Continue(c, r, s) \/ SendFileChunks(c, call[c], s), r \in CallRecords, call[c] \in CallRecords
  PROVE  Silent /\ ToOpen
  <1>1. CASE Throw(c)
    BY <1>1, EndIsSilent DEF Throw
  <1>2. ASSUME NEW u \in CallRecords, Alive(s), NEW p \in {"chunk", "commit"},
               Await(c, [u EXCEPT !.pc = p, !.to = CoreId(s)])
        PROVE  Silent /\ ToOpen
    <2> DEFINE q == [u EXCEPT !.pc = p, !.to = CoreId(s)]
    <2>1. q.to = CoreId(s) /\ CoreId(s) \notin dropped
      BY <1>2 DEF CallRecords, Stands, Ready, Alive
    <2>2. call' = [call EXCEPT ![c] = q] /\ form' = form /\ step' = step
      BY <1>2 DEF Await
    <2> HIDE DEF q
    <2> QED
      BY <2>1, <2>2, OwnTurn DEF Silent
  <1>3. ASSUME NEW u \in CallRecords, Continue(c, u, s)
        PROVE  Silent /\ ToOpen
    BY <1>1, <1>2, <1>3 DEF Continue, SendAborts, SendChunk, SendCommit
  <1>4. CASE SendFileChunks(c, call[c], s)
    <2>1. CASE Alive(s) /\ s.id = call[c].id /\ s.status \in {"preparing", "transferring"}
      <3> DEFINE u == [call[c] EXCEPT !.file = s.file, !.next = 0]
      <3>1. u \in CallRecords
        BY <2>1 DEF CallRecords, Sessions, Stands, Ready, Alive
      <3>2. Continue(c, u, s)
        BY <1>4, <2>1 DEF SendFileChunks
      <3> HIDE DEF u
      <3> QED
        BY <1>3, <3>1, <3>2
    <2>2. CASE ~(Alive(s) /\ s.id = call[c].id /\ s.status \in {"preparing", "transferring"})
      BY <1>1, <1>4, <2>2 DEF SendFileChunks
    <2> QED
      BY <2>1, <2>2
  <1> QED
    BY <1>3, <1>4

\* Only the conclusion of a commit tells a page that its package is installed.
LEMMA StepSays ==
  ASSUME ServiceInv, InstallNext
  PROVE  /\ step' = "done" /\ step # "done" => Concluded("wizard", "completed")
         /\ form'.ok /\ ~form.ok => \E c \in PageCalls : Concluded(c, "completed")
         /\ ToOpen
  <1>0. form \in Forms
    BY DEF ServiceInv, ServiceTypes
  <1>1. ASSUME User
        PROVE  Silent /\ ToOpen
    <2>1. ASSUME NEW c \in Callers, NEW k, NEW f, NEW i, Invoke(c, k, f, i)
          PROVE  ToOpen
      <3> DEFINE q == [pc |-> "invoked", kind |-> k, file |-> f,
                       id |-> i, next |-> 0, to |-> NoId, seen |-> TRUE]
      <3>1. call' = [call EXCEPT ![c] = q] /\ q.pc = "invoked"
        BY <2>1 DEF Invoke
      <3> HIDE DEF q
      <3> QED
        BY <3>1, OwnTurn
    <2>2. CASE LeavePage
      <3>1. ~form'.ok /\ step' = step
        BY <2>2 DEF LeavePage, FreshForm
      <3>2. ASSUME NEW c \in Callers, call'[c] # Idle
            PROVE  call[c] # Idle /\ call'[c].pc = call[c].pc /\ call'[c].next = call[c].next
        <4>1. CASE c \in PageCalls /\ call[c] # Idle
          <5>1. call[c] \in CallRecords /\ call'[c] = [call[c] EXCEPT !.seen = FALSE]
            BY <2>2, <4>1, CallIsRecord DEF LeavePage, ServiceInv
          <5> QED
            BY <4>1, <5>1 DEF CallRecords
        <4>2. CASE ~(c \in PageCalls /\ call[c] # Idle)
          BY <2>2, <3>2, <4>2 DEF LeavePage
        <4> QED
          BY <4>1, <4>2
      <3>3. ToOpen
        BY <3>2 DEF ToOpen
      <3> QED
        BY <3>1, <3>3 DEF Silent
    <2>3. CASE InstallBundled
      <3>1. step' = "installing" /\ form' = form /\ Invoke("wizard", "bundled", Bundled, NoId)
            /\ "wizard" \in Callers
        BY <2>3 DEF InstallBundled, Callers
      <3> QED
        BY <2>1, <3>1 DEF Silent
    <2>4. ASSUME NEW c \in PageCalls, InstallOther(c) \/ CancelOther(c) \/ \E f \in Packages : SelectFile(c, f)
          PROVE  Silent /\ ToOpen
      <3>1. ToOpen
        BY <2>1, <2>4 DEF InstallOther, CancelOther, SelectFile, Callers
      <3>2. CASE InstallOther(c)
        <4>1. form' = [form EXCEPT !.busy = TRUE, !.ok = FALSE] /\ step' = step
          BY <3>2 DEF InstallOther
        <4>2. form'.ok = FALSE
          BY <1>0, <4>1 DEF Forms
        <4> QED
          BY <3>1, <4>1, <4>2 DEF Silent
      <3>3. CASE CancelOther(c) \/ \E f \in Packages : SelectFile(c, f)
        BY <3>1, <3>3 DEF CancelOther, SelectFile, Silent
      <3> QED
        BY <2>4, <3>2, <3>3
    <2> QED
      BY <1>1, <2>2, <2>3, <2>4 DEF User
  <1>2. ASSUME NEW c \in Callers, MainStep(c)
        PROVE  Silent /\ ToOpen
    <2>1. CASE Throw(c)
      BY <2>1, EndIsSilent DEF Throw
    <2>2. ASSUME NEW q, Await(c, q), q.pc \notin {"chunk", "commit"}
          PROVE  Silent /\ ToOpen
      BY <2>2, OwnTurn DEF Await, Silent
    <2>3. ASSUME NEW p \in {"hash", "cancel"}, Await(c, [call[c] EXCEPT !.pc = p]), call[c] \in CallRecords
          PROVE  Silent /\ ToOpen
      <3> DEFINE q == [call[c] EXCEPT !.pc = p]
      <3>1. q.pc \notin {"chunk", "commit"}
        BY <2>3 DEF CallRecords
      <3> QED
        BY <2>2, <2>3, <3>1
    <2>4. ASSUME NEW kinds, TakeUp(c, kinds) \/ call[c].pc = "hash"
          PROVE  call[c] \in CallRecords
      BY <2>4, CallIsRecord DEF TakeUp, ServiceInv, IpcFits
    <2>5. CASE Hashed(c)
      <3> DEFINE q == [call[c] EXCEPT !.pc = "prepare", !.id = FreshId]
      <3>1. q.pc = "prepare" /\ Await(c, q)
        BY <2>4, <2>5 DEF Hashed, CallRecords
      <3> QED
        BY <2>2, <3>1
    <2>6. CASE SendStarts(c)
      <3>1. SendFileChunks(c, call[c], current) /\ call[c] \in CallRecords /\ Stands(c, current)
        BY <2>4, <2>6, CurrentStands DEF SendStarts
      <3> HIDE DEF Stands
      <3> QED
        BY <3>1, LoopIsSilent
    <2>7. CASE PrepareFromFile(c) \/ CancelFileTransfer(c) \/ HashFails(c)
      BY <2>1, <2>3, <2>4, <2>7 DEF PrepareFromFile, CancelFileTransfer, HashFails
    <2> QED
      BY <1>2, <2>5, <2>6, <2>7 DEF MainStep
  <1>3. ASSUME NEW c \in Callers, Prepared(c) \/ ChunkAcked(c) \/ CoreFails(c) \/ CancelReturns(c)
        PROVE  Silent /\ ToOpen
    <2>1. CASE Throw(c)
      BY <2>1, EndIsSilent DEF Throw
    <2>2. CASE ChunkAcked(c)
      <3> DEFINE r == [call[c] EXCEPT !.next = @ + 1]
      <3>1. call[c] \in CallRecords
        BY <2>2, CallIsRecord DEF ChunkAcked, ServiceInv
      <3>2. Continue(c, r, current) /\ r \in CallRecords /\ Stands(c, current)
        BY <2>2, <3>1, CurrentStands DEF ChunkAcked, CallRecords
      <3> HIDE DEF r, Stands
      <3> QED
        BY <3>1, <3>2, LoopIsSilent
    <2>3. CASE Prepared(c)
      <3> DEFINE s == [current EXCEPT !.core = call[c].id]
      <3>1. CASE ~Alive(current)
        BY <2>1, <2>3, <3>1 DEF Prepared, SendAborts
      <3>2. ASSUME Alive(current)
            PROVE  Silent /\ ToOpen
        <4>1. Stands(c, s) /\ call[c].id \in Ids /\ call[c] \in CallRecords
          BY <2>3, <3>2, PreparedStands DEF Prepared
        <4>2. SendFileChunks(c, call[c], s) \/ Return(c, call[c].id, "none")
          BY <2>3, <3>2 DEF Prepared
        <4> HIDE DEF s, Stands
        <4> QED
          BY <4>1, <4>2, LoopIsSilent, EndIsSilent
      <3> QED
        BY <3>1, <3>2
    <2> QED
      BY <1>3, <2>1, <2>2, <2>3 DEF CoreFails, CancelReturns, SendAborts
  <1>4. ASSUME NEW c \in Callers, NEW v \in Conclusions, Concluded(c, v)
        PROVE  /\ step' = "done" /\ step # "done" => Concluded("wizard", "completed")
               /\ form'.ok /\ ~form.ok => \E d \in PageCalls : Concluded(d, "completed")
               /\ ToOpen
    <2> DEFINE w == IF Alive(current) THEN current'.concluded ELSE "none"
    <2>1. Return(c, NoId, w) /\ call[c].pc = "commit"
      BY <1>4 DEF Concluded
    <2>2. w = "completed" => v = "completed"
      <3>1. CASE Alive(current)
        <4>1. current \in Sessions /\ current' = Conclude(current, v)
          BY <1>4, <3>1 DEF Concluded, ServiceInv, ServiceTypes, Alive
        <4>2. current'.concluded = v
          BY <4>1 DEF Conclude, Sessions
        <4> QED
          BY <3>1, <4>2
      <3> QED
        BY <3>1
    <2> HIDE DEF w
    <2>3. /\ form'.ok /\ ~form.ok => call[c].kind = "send" /\ w = "completed"
          /\ step' = "done" /\ step # "done" => call[c].kind = "bundled" /\ w = "completed"
          /\ call' = [call EXCEPT ![c] = Idle]
      BY <2>1, ReturnTells DEF ServiceInv
    <2>4. call[c].kind = "bundled" <=> c = "wizard"
      BY <2>1, RecordsAreSome DEF ServiceInv, CallStands
    <2> QED
      BY <1>4, <2>2, <2>3, <2>4, OwnTurn DEF Callers
  <1> QED
    BY <1>1, <1>2, <1>3, <1>4 DEF InstallNext, Answer, Silent

-----------------------------------------------------------------------------
\* BytesMatchChunks, CommitComesLast, InstalledIsConcluded and
\* CancelledGetsNothing: an install that is said to be done was sent whole,
\* committed last and concluded by the core, and what was cancelled is left alone
\* (app-install-service.ts, this.session).
THEOREM OneSessionIsTrue == MCSpec => InstallIsTrue
  <1> DEFINE all == <<part, vars, installVars>>
  <1>1. MCInit => ServiceInv
    BY ServiceStarts DEF MCInit
  <1>2. ASSUME ServiceInv, UNCHANGED installVars
        PROVE  ServiceInv'
    <2>1. /\ current' = current /\ call' = call /\ ipc' = ipc /\ wire' = wire /\ form' = form
          /\ dropped' = dropped
      BY <1>2 DEF installVars
    <2>2. ServiceTypes' /\ IpcFits' /\ WireFits' /\ SessionIsOpen' /\ CommitComesLast'
      BY <1>2, <2>1 DEF ServiceInv, ServiceTypes, IpcFits, WireFits, SessionIsOpen, CommitComesLast
    <2>3. \A c \in Callers : CallStands(c, call[c])'
      BY <1>2, <2>1 DEF ServiceInv, CallStands
    <2>4. \A c \in Callers : IdIsNew(c)'
      BY <1>2, <2>1 DEF ServiceInv, IdIsNew
    <2> QED
      BY <2>2, <2>3, <2>4 DEF ServiceInv
  <1>3. [MCNext]_all => InstallNext \/ UNCHANGED installVars
    BY DEF MCNext
  <1>4. ServiceInv /\ [MCNext]_all => ServiceInv'
    BY <1>2, <1>3, ServiceKeeps
  <1>5. ServiceInv /\ [MCNext]_all =>
          [/\ step' = "done" /\ step # "done" => Concluded("wizard", "completed")
           /\ form'.ok /\ ~form.ok => \E c \in PageCalls : Concluded(c, "completed")]_installVars
    BY <1>3, StepSays
  <1>6. ServiceInv /\ [MCNext]_all =>
          [\A c \in Callers :
             /\ call'[c] # Idle /\ call'[c].pc \in {"chunk", "commit"}
             /\ call[c] = Idle \/ call[c].pc # call'[c].pc \/ call[c].next # call'[c].next
             => call'[c].to \notin dropped]_installVars
    BY <1>3, StepSays DEF ToOpen
  <1>7. ServiceInv => BytesMatchChunks /\ CommitComesLast
    BY DEF ServiceInv, SessionIsOpen, BytesMatchChunks
  <1> QED
    BY <1>1, <1>4, <1>5, <1>6, <1>7, PTL
       DEF MCSpec, InstallIsTrue, InstalledIsConcluded, CancelledGetsNothing
=============================================================================

--------------------------- MODULE LiveLinkProofs ---------------------------
(***************************************************************************)
(* Machine-checked safety of LiveLink for any set of socket handles, any   *)
(* set of RPC connections and any retry limit.                             *)
(***************************************************************************)
EXTENDS LiveLink, FiniteSetTheorems, TLAPS

\* Where a WSAStartup of the live thread is not yet owned by Core.bt.
StartedPc == DialingPc \cup {"socket"}

\* Where Core.bt may hold the link: between publishing it and releasing it.
PublishedPc == {"ready", "readyTell", "pump", "exit"}

\* Inside one attempt, from its number being drawn to its outcome.
TryingPc == {"announce", "announced", "dial", "socket", "connecting",
             "preamble", "auth", "authed"}

\* The socket in Core.bt is the one run_live dialed last, and it is only there
\* while run_live is between Publish and ReleaseLink.
BtIsOurs == bt # NoSock => bt = sock /\ pc \in PublishedPc

\* LinkOwnership without cardinalities.
Owners ==
  IF exited
    THEN open = {} /\ wsa = 0 /\ bt = NoSock
    ELSE /\ open = Held \cup Dialed
         /\ wsa = IF bt # NoSock \/ pc \in StartedPc THEN 1 ELSE 0
         /\ pc \in DialingPc => sock \in Handles

\* How the retry counter and the attempts really lost go together.
Counting ==
  /\ pc \in TryingPc => attempt = losses + 1
  /\ pc = "failed" => attempt = losses
  /\ pc \in {"loop", "backoff"} => attempt = losses /\ attempt < MaxRetries
  /\ pc \in PublishedPc \cup {"publish", "after", "re", "reTell"}
       => attempt = 0 /\ losses = 0
  /\ pc \in {"err", "errTell"} => losses = MaxRetries

\* Only run_live records "Ready", and it overwrites it before it waits again.
ReadyWhere ==
  liveState = "Ready" => pc \in {"readyTell", "pump", "exit", "after", "re", "quit"}

IInv == TypeOK /\ BtIsOurs /\ Owners /\ Counting /\ ReadyWhere

-----------------------------------------------------------------------------
\* What closing a socket does to the WSA balance.
LEMMA SingletonCard == ASSUME NEW x PROVE Cardinality({x}) = 1
  BY FS_Singleton

\* A context in Core.bt accounts for one socket.
LEMMA HeldCard == Cardinality(Held) = IF bt = NoSock THEN 0 ELSE 1
  BY FS_EmptySet, FS_Singleton DEF Held

\* Closing the only open socket leaves nothing open and nothing owed.
LEMMA CloseTheOne ==
  ASSUME NEW s, open = {s}, wsa = 1, CloseAll({s})
  PROVE  open' = {} /\ wsa' = 0
  <1>1. wsa' = 1 - 1
    BY SingletonCard DEF CloseAll
  <1>2. QED
    BY <1>1 DEF CloseAll

\* The invariant holds initially.
LEMMA InitIInv == Init => IInv
  <1> SUFFICES ASSUME Init PROVE IInv
    OBVIOUS
  <1>1. TypeOK
    <2>1. attempt \in 0..MaxRetries /\ losses \in 0..MaxRetries /\ wsa \in 0..1
      BY RetriesAssumption DEF Init
    <2>2. rpc \in [Rpc -> RpcPc] /\ seen \in [Rpc -> LiveStatus]
      BY DEF Init, RpcPc, LiveStatus
    <2>3. QED
      BY <2>1, <2>2 DEF Init, TypeOK, LivePc, LiveStatus, ProtocolState
  <1>2. BtIsOurs /\ Owners /\ Counting /\ ReadyWhere
    BY DEF Init, BtIsOurs, Owners, Counting, ReadyWhere, Held,
           Dialed, DialingPc,
           StartedPc, PublishedPc, TryingPc
  <1>3. QED
    BY <1>1, <1>2 DEF IInv

\* The reported theorems follow from IInv.
LEMMA IInvImplies ==
  IInv => LinkOwnership /\ GivesUpOnlyAfterAllRetries /\ NoPhantomReady
  <1> SUFFICES ASSUME IInv
               PROVE  LinkOwnership /\ GivesUpOnlyAfterAllRetries /\ NoPhantomReady
    OBVIOUS
  <1>1. GivesUpOnlyAfterAllRetries
    BY DEF IInv, Counting, GivesUpOnlyAfterAllRetries
  <1>2. LinkOwnership
    <2>1. CASE exited
      BY <2>1 DEF IInv, Owners, LinkOwnership
    <2>2. CASE ~exited
      <3>1. open = Held \cup Dialed
        BY <2>2 DEF IInv, Owners
      <3>2. bt = NoSock \/ Dialed = {}
        BY DEF IInv, BtIsOurs, Dialed, DialingPc, PublishedPc
      <3>3. Cardinality(open) = IF bt # NoSock \/ pc \in DialingPc THEN 1 ELSE 0
        BY <3>1, <3>2, FS_EmptySet, SingletonCard DEF Held, Dialed
      <3>4. wsa = Cardinality(open) + (IF pc = "socket" THEN 1 ELSE 0)
        BY <2>2, <3>3 DEF IInv, Owners, BtIsOurs, StartedPc, DialingPc, PublishedPc
      <3>5. QED
        BY <2>2, <3>1, <3>2, <3>4 DEF LinkOwnership
    <2>3. QED
      BY <2>1, <2>2
  <1>3. NoPhantomReady
    BY DEF IInv, ReadyWhere, NoPhantomReady
  <1>4. QED
    BY <1>1, <1>2, <1>3

-----------------------------------------------------------------------------
\* Steps of the live thread that touch neither a socket nor a counter.
QuietStep ==
  \/ LeaveOuterLoop \/ LeaveInnerLoop \/ Announce \/ TellConnecting
  \/ Connected \/ PreambleReply \/ Authenticate \/ StartBackoff
  \/ RecordError \/ TellError \/ EndBackoff \/ RecordReady \/ TellReady
  \/ PumpToldToStop \/ PumpReadsClosed \/ PumpLosesLink \/ StopAfterPump
  \/ RetryAfterPump \/ RecordReconnecting \/ TellReconnecting \/ RecordQuit
  \/ TellQuit \/ RecordFinish \/ TellFinish

\* They keep the invariant.
LEMMA QuietSteps ==
  IInv /\ QuietStep => IInv'
  <1> SUFFICES ASSUME IInv, QuietStep
               PROVE  IInv'
    OBVIOUS
  <1> USE DEF IInv, TypeOK, BtIsOurs, Owners, Counting, ReadyWhere, Held, Dialed,
              DialingPc, StartedPc, PublishedPc, TryingPc, LivePc, LiveAt, radio
  <1>1. CASE LeaveOuterLoop
    BY <1>1 DEF LeaveOuterLoop, Move
  <1>2. CASE LeaveInnerLoop
    BY <1>2 DEF LeaveInnerLoop, Move
  <1>3. CASE Announce
    BY <1>3 DEF Announce, WriteState, LiveStatus
  <1>4. CASE TellConnecting
    BY <1>4 DEF TellConnecting, Tell, ProtocolState
  <1>5. CASE Connected
    BY <1>5 DEF Connected, Move
  <1>6. CASE PreambleReply
    BY <1>6 DEF PreambleReply, Move
  <1>7. CASE Authenticate
    BY <1>7 DEF Authenticate, Move
  <1>8. CASE StartBackoff
    BY <1>8 DEF StartBackoff, Move
  <1>9. CASE RecordError
    BY <1>9 DEF RecordError, WriteState, LiveStatus
  <1>10. CASE TellError
    BY <1>10 DEF TellError, Tell, ProtocolState
  <1>11. CASE EndBackoff
    BY <1>11 DEF EndBackoff, Move
  <1>12. CASE RecordReady
    BY <1>12 DEF RecordReady, WriteState, LiveStatus
  <1>13. CASE TellReady
    BY <1>13 DEF TellReady, Tell, ProtocolState
  <1>14. CASE PumpToldToStop
    BY <1>14 DEF PumpToldToStop, Move
  <1>15. CASE PumpReadsClosed
    BY <1>15 DEF PumpReadsClosed, Move
  <1>16. CASE PumpLosesLink
    BY <1>16 DEF PumpLosesLink, Move
  <1>17. CASE StopAfterPump
    BY <1>17 DEF StopAfterPump, Move
  <1>18. CASE RetryAfterPump
    BY <1>18 DEF RetryAfterPump, Move
  <1>19. CASE RecordReconnecting
    BY <1>19, RetriesAssumption DEF RecordReconnecting, WriteState, LiveStatus
  <1>20. CASE TellReconnecting
    BY <1>20, RetriesAssumption DEF TellReconnecting, Tell, ProtocolState
  <1>21. CASE RecordQuit
    BY <1>21 DEF RecordQuit, WriteState, LiveStatus
  <1>22. CASE TellQuit
    BY <1>22 DEF TellQuit, Tell, ProtocolState
  <1>23. CASE RecordFinish
    BY <1>23 DEF RecordFinish, WriteState, LiveStatus
  <1>24. CASE TellFinish
    BY <1>24 DEF TellFinish, Tell, ProtocolState
  <1> QED
    BY <1>1, <1>2, <1>3, <1>4, <1>5, <1>6, <1>7, <1>8, <1>9, <1>10, <1>11,
       <1>12, <1>13, <1>14, <1>15, <1>16, <1>17, <1>18, <1>19, <1>20,
       <1>21, <1>22, <1>23, <1>24
    DEF QuietStep

\* Steps of the live thread that count attempts, open, publish or close.
LinkStep ==
  \/ TakeUpRequest \/ NextAttempt \/ FailBeforeSocket \/ StartWsa
  \/ OpenSocket \/ SocketFails \/ FailAt("connecting")
  \/ FailAt("preamble") \/ FailAt("auth") \/ GiveUp \/ AbandonLink
  \/ AcceptLink \/ Publish \/ ReleaseLink \/ MainReturns

\* They keep the invariant.
LEMMA LinkSteps ==
  IInv /\ LinkStep => IInv'
  <1> SUFFICES ASSUME IInv, LinkStep
               PROVE  IInv'
    OBVIOUS
  <1> USE DEF IInv, TypeOK, BtIsOurs, Owners, Counting, ReadyWhere, Held, Dialed,
              DialingPc, StartedPc, PublishedPc, TryingPc, LivePc, LiveAt, radio
  <1>1. CASE TakeUpRequest
    BY <1>1, RetriesAssumption DEF TakeUpRequest
  <1>2. CASE NextAttempt
    <2>1. attempt < MaxRetries
      BY <1>2 DEF NextAttempt, LiveAt
    <2>2. UNCHANGED desired
      BY <1>2, <2>1 DEF NextAttempt
    <2>3. QED
      BY <1>2, <2>1, <2>2, RetriesAssumption DEF NextAttempt
  <1>3. CASE FailBeforeSocket
    BY <1>3, RetriesAssumption DEF FailBeforeSocket
  <1>4. CASE StartWsa
    BY <1>4 DEF StartWsa
  <1>5. CASE OpenSocket
    BY <1>5 DEF OpenSocket
  <1>6. CASE SocketFails
    BY <1>6, RetriesAssumption DEF SocketFails
  <1>7. CASE FailAt("connecting")
    <2>1. open = {sock} /\ wsa = 1
      BY <1>7 DEF FailAt
    <2>2. CloseAll({sock})
      BY <1>7 DEF FailAt
    <2>3. open' = {} /\ wsa' = 0
      BY <2>1, <2>2, CloseTheOne
    <2>4. QED
      BY <1>7, <2>3, RetriesAssumption DEF FailAt
  <1>8. CASE FailAt("preamble")
    <2>1. open = {sock} /\ wsa = 1
      BY <1>8 DEF FailAt
    <2>2. CloseAll({sock})
      BY <1>8 DEF FailAt
    <2>3. open' = {} /\ wsa' = 0
      BY <2>1, <2>2, CloseTheOne
    <2>4. QED
      BY <1>8, <2>3, RetriesAssumption DEF FailAt
  <1>9. CASE FailAt("auth")
    <2>1. open = {sock} /\ wsa = 1
      BY <1>9 DEF FailAt
    <2>2. CloseAll({sock})
      BY <1>9 DEF FailAt
    <2>3. open' = {} /\ wsa' = 0
      BY <2>1, <2>2, CloseTheOne
    <2>4. QED
      BY <1>9, <2>3, RetriesAssumption DEF FailAt
  <1>10. CASE GiveUp
    <2>1. desired' \in BOOLEAN
      BY <1>10 DEF GiveUp
    <2>2. QED
      BY <1>10, <2>1, RetriesAssumption DEF GiveUp
  <1>11. CASE AbandonLink
    <2>1. open = {sock} /\ wsa = 1
      BY <1>11 DEF AbandonLink
    <2>2. CloseAll({sock})
      BY <1>11 DEF AbandonLink
    <2>3. open' = {} /\ wsa' = 0
      BY <2>1, <2>2, CloseTheOne
    <2>4. QED
      BY <1>11, <2>3 DEF AbandonLink
  <1>12. CASE AcceptLink
    BY <1>12, RetriesAssumption DEF AcceptLink
  <1>13. CASE Publish
    <2>1. open' = {sock} /\ wsa' = 1
      BY <1>13, HeldCard DEF Publish, CloseAll
    <2>2. QED
      BY <1>13, <2>1, HandlesAssumption DEF Publish
  <1>14. CASE ReleaseLink
    <2>1. open' = {} /\ wsa' = 0
      BY <1>14, HeldCard DEF ReleaseLink, TakeBt, CloseAll
    <2>2. QED
      BY <1>14, <2>1 DEF ReleaseLink, TakeBt
  <1>15. CASE MainReturns
    BY <1>15 DEF MainReturns, live
  <1> QED
    BY <1>1, <1>2, <1>3, <1>4, <1>5, <1>6, <1>7, <1>8, <1>9, <1>10, <1>11,
       <1>12, <1>13, <1>14, <1>15
    DEF LinkStep

\* Steps of an RPC thread.
LEMMA RpcSteps ==
  ASSUME NEW r \in Rpc, IInv, Requests(r) \/ Handling(r)
  PROVE  IInv'
  <1> USE DEF IInv, TypeOK, BtIsOurs, Owners, Counting, ReadyWhere, Held, Dialed,
              DialingPc, StartedPc, PublishedPc, TryingPc, LivePc, RpcAt, RpcPc, live, radio,
              LiveStatus, ProtocolState
  <1>1. CASE ConnectRequest(r)
    BY <1>1 DEF ConnectRequest
  <1>2. CASE ConnectReads(r)
    BY <1>2 DEF ConnectReads
  <1>3. CASE ConnectFoundReady(r)
    BY <1>3 DEF ConnectFoundReady
  <1>4. CASE ConnectWrites(r)
    BY <1>4 DEF ConnectWrites
  <1>5. CASE ConnectTells(r)
    BY <1>5 DEF ConnectTells
  <1>6. CASE DisconnectRequest(r)
    <2>1. desired' \in BOOLEAN
      BY <1>6 DEF DisconnectRequest
    <2>2. QED
      BY <1>6, <2>1, RetriesAssumption DEF DisconnectRequest
  <1>7. CASE DisconnectTakes(r)
    BY <1>7, HeldCard DEF DisconnectTakes, TakeBt, CloseAll
  <1>8. CASE DisconnectWrites(r)
    BY <1>8 DEF DisconnectWrites
  <1>9. CASE DisconnectTells(r)
    BY <1>9 DEF DisconnectTells
  <1>10. CASE StopRequest(r)
    BY <1>10 DEF StopRequest
  <1>11. CASE StopTakes(r)
    BY <1>11, HeldCard DEF StopTakes, TakeBt, CloseAll
  <1>12. CASE StopExits(r)
    BY <1>12 DEF StopExits
  <1> QED
    BY <1>1, <1>2, <1>3, <1>4, <1>5, <1>6, <1>7, <1>8, <1>9, <1>10,
       <1>11, <1>12
    DEF Requests, Handling

\* Every step keeps the invariant.
LEMMA StepIInv == IInv /\ [Next]_vars => IInv'
  <1> SUFFICES ASSUME IInv, [Next]_vars PROVE IInv'
    OBVIOUS
  <1>1. CASE Bounded \/ BandDecides
    BY <1>1, QuietSteps, LinkSteps DEF Bounded, BandDecides, QuietStep, LinkStep
  <1>2. CASE \E r \in Rpc : Requests(r) \/ Handling(r)
    BY <1>2, RpcSteps
  <1>3. CASE UNCHANGED vars
    BY <1>3 DEF vars, IInv, TypeOK, BtIsOurs, Owners, Counting, ReadyWhere,
                Held, Dialed
  <1>4. QED
    BY <1>1, <1>2, <1>3 DEF Next

\* Ownership, counting and types together are inductive.
THEOREM Invariance == Spec => []IInv
  <1>1. QED
    BY InitIInv, StepIInv, PTL DEF Spec

\* No variable of the link ever leaves its type: in particular the retry counter
\* stays within MaxRetries and WSAStartup is never unbalanced twice.
THEOREM TypeCorrect == Spec => []TypeOK
  <1>1. IInv => TypeOK
    BY DEF IInv
  <1>2. QED
    BY <1>1, Invariance, PTL

\* Whatever the interleaving of run_live with any number of RPC threads, every
\* open radio socket has one owner and WSAStartup is balanced.
THEOREM LinkIsOwned == Spec => []LinkOwnership
  BY IInvImplies, Invariance, PTL

\* run_live gives up only after MaxRetries losses in a row, for any limit.
THEOREM GivesUpLate == Spec => []GivesUpOnlyAfterAllRetries
  BY IInvImplies, Invariance, PTL

\* Whatever RPC threads do, a parked run_live has not left "Ready" behind.
THEOREM ReadyIsCleared == Spec => []NoPhantomReady
  BY IInvImplies, Invariance, PTL
=============================================================================

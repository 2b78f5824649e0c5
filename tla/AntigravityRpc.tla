--------------------------- MODULE AntigravityRpc ---------------------------
(***************************************************************************)
(* The calls of Antigravity's local language server (agRpc of              *)
(* quota-collector.ts).  The quota and the session poller share one cached *)
(* endpoint.  The server listens on another port with another token every  *)
(* time it starts; a call on a stale endpoint fails and looks for the      *)
(* server again.                                                           *)
(***************************************************************************)
EXTENDS Integers

CONSTANTS
  Pollers,
  MaxStarts   \* bound: starts of the language server

ASSUME AntigravityRpcAssumption == MaxStarts \in Nat

VARIABLES
  agEndpoint, \* the start of the server it belongs to, or NoServer
  languageServer,  \* which start of it runs, or NoServer
  starts,
  rpc,        \* [at |-> step of agRpc, ep |-> endpoint] of each poller
  rpcResult   \* what its last call returned: "none", "data" or "null"

rpcVars == <<agEndpoint, languageServer, starts, rpc, rpcResult>>

NoServer == 0
RpcIdle == [at |-> "idle", ep |-> NoServer]

RpcInit ==
  /\ agEndpoint = NoServer /\ starts \in {0, 1} /\ languageServer = starts
  /\ rpc = [c \in Pollers |-> RpcIdle]
  /\ rpcResult = [c \in Pollers |-> "none"]

\* agCall: only the running server takes the token.
Answers(ep) == ep # NoServer /\ ep = languageServer
To(c, at, ep) == rpc' = [rpc EXCEPT ![c] = [at |-> at, ep |-> ep]] /\ UNCHANGED rpcResult
ReturnRpc(c, r) == rpc' = [rpc EXCEPT ![c] = RpcIdle] /\ rpcResult' = [rpcResult EXCEPT ![c] = r]

AgRpc(c) ==
  /\ rpc[c].at = "idle"
  /\ IF agEndpoint # NoServer THEN To(c, "cached", agEndpoint) ELSE To(c, "find", NoServer)
  /\ UNCHANGED <<agEndpoint, languageServer, starts>>

\* The cached endpoint did not answer.
Stale(c) == agEndpoint' = NoServer /\ To(c, "find", NoServer)

CachedAnswered(c) ==
  /\ rpc[c].at = "cached"
  /\ IF Answers(rpc[c].ep) THEN ReturnRpc(c, "data") /\ UNCHANGED agEndpoint ELSE Stale(c)
  /\ UNCHANGED <<languageServer, starts>>

\* discoverAgEndpoint: PowerShell lists the process, then its ports are tried.
ProcessListed(c) ==
  /\ rpc[c].at = "find"
  /\ To(c, "probe", languageServer)
  /\ UNCHANGED <<agEndpoint, languageServer, starts>>
Discovered(c) ==
  /\ rpc[c].at = "probe"
  /\ IF Answers(rpc[c].ep)
     THEN agEndpoint' = rpc[c].ep /\ To(c, "call", rpc[c].ep)
     ELSE agEndpoint' = NoServer /\ ReturnRpc(c, "null")
  /\ UNCHANGED <<languageServer, starts>>

FoundAnswered(c) ==
  /\ rpc[c].at = "call"
  /\ ReturnRpc(c, IF Answers(rpc[c].ep) THEN "data" ELSE "null")
  /\ UNCHANGED <<agEndpoint, languageServer, starts>>

\* The running server is too slow.
TimedOut(c) ==
  /\ rpc[c].at \in {"cached", "probe", "call"} /\ Answers(rpc[c].ep)
  /\ CASE rpc[c].at = "cached" -> Stale(c)
       [] rpc[c].at = "probe"  -> agEndpoint' = NoServer /\ ReturnRpc(c, "null")
       [] rpc[c].at = "call"   -> UNCHANGED agEndpoint /\ ReturnRpc(c, "null")
  /\ UNCHANGED <<languageServer, starts>>

ServerStarts ==
  /\ starts < MaxStarts
  /\ starts' = starts + 1 /\ languageServer' = starts + 1
  /\ UNCHANGED <<agEndpoint, rpc, rpcResult>>
ServerStops ==
  /\ languageServer # NoServer /\ languageServer' = NoServer
  /\ UNCHANGED <<agEndpoint, starts, rpc, rpcResult>>

RpcStep(c) ==
  \/ AgRpc(c) \/ CachedAnswered(c) \/ ProcessListed(c) \/ Discovered(c) \/ FoundAnswered(c)
RpcNext ==
  \/ \E c \in Pollers : RpcStep(c) \/ TimedOut(c)
  \/ ServerStarts \/ ServerStops

(***************************************************************************)
(* Properties.                                                             *)
(***************************************************************************)

\* Though both pollers set and clear the one endpoint as they please, once
\* the server goes on running and answers in time every call returns data.
RpcHeals ==
  <>[](languageServer # NoServer) /\ <>[][\A c \in Pollers : ~TimedOut(c)]_rpcVars
    => \A c \in Pollers : <>[](rpcResult[c] = "data")
=============================================================================

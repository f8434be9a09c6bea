-------------------------- MODULE WebSocketChannel --------------------------
(***************************************************************************)
(* The WebSocket connections between one client hub and its host: what     *)
(* both ends see of System.Net.WebSockets.                                 *)
(***************************************************************************)
EXTENDS Integers, Sequences, FiniteSets

CONSTANTS
  Requests,     \* the requests that are executed, each once: its reqId
  SyncRequests, \* those that are executed synchronously (SyncRequest.executionType)
  MaxConns,     \* bound: connections opened
  MaxFaults,    \* bound: connections that break or are closed
  None          \* no request, no reqId

ASSUME MaxConnsAssumption == MaxConns \in Nat \ {0}
ASSUME MaxFaultsAssumption == MaxFaults \in Nat

\* What a client sends to close a connection.
CloseFrame == "close"

ASSUME RequestsAssumption ==
  SyncRequests \subseteq Requests /\ None \notin Requests /\ CloseFrame \notin Requests

Conns == 1 .. MaxConns

VARIABLES
  state,        \* of the socket: "none", "open", "closing" (the client sent a
                \* close frame), "closed" or "broken"
  toHost,       \* what is in transit to the host: requests, or CloseFrame
  toClient,     \* what is in transit to the client: reqIds of responses
  calm          \* history: none of the races happened that EveryRequestCompletes,
                \* OneAnswer and CalmCanceledIfBroken exclude

channelVars == <<state, toHost, toClient, calm>>

ChannelInit ==
  /\ state = [c \in Conns |-> "none"]
  /\ toHost = [c \in Conns |-> <<>>]
  /\ toClient = [c \in Conns |-> <<>>]
  /\ calm = TRUE

\* Another connection may break or be closed.
FaultPossible == Cardinality({c \in Conns : state[c] \notin {"none", "open"}}) < MaxFaults

\* The other end still receives what is sent.
Connected(c) == state[c] \in {"open", "closing"}
=============================================================================

--------------------------- MODULE BrowserSocket ---------------------------
(***************************************************************************)
(* The WebSocketClient of the Hub Explorer (explorer/src/websocket.ts): a  *)
(* web page that sends sync requests over a WebSocket, keeps a map of the  *)
(* requests without an answer, receives events, and acknowledges them with *)
(* its next request or, if there is none, when a timer fires.              *)
(*                                                                         *)
(* JavaScript runs one event handler at a time, with the promise           *)
(* continuations it makes ready: a handler is one step.  A socket object   *)
(* stays alive, and keeps its handlers, after webSocket refers to another. *)
(*                                                                         *)
(* Client ids are the numbers 1, 2, ... the host hands out; 0 is null.     *)
(***************************************************************************)
EXTENDS Integers, Sequences, FiniteSets, Functions

CONSTANT MaxSockets         \* bound: WebSocket objects the page creates

ASSUME MaxSocketsAssumption == MaxSockets \in Nat \ {0}

VARIABLES
    readyState,         \* WebSocket.readyState of every socket object
    webSocket,          \* the socket of the client, 0 is null
    req,                \* id of the next request
    requests,           \* the requests waiting for an answer
    clt,                \* client id, 0 is null
    ackTimePending,     \* an event waits for a request to acknowledge it
    ackTimer,           \* the timer of acknowledgeEvents() is armed
    lastEventSeq,       \* seq of the last received event message
    toHost,             \* requests on their way to the host, per socket
    toClient,           \* responses and events on their way back
    unacked             \* history: the socket of an event not acknowledged, or 0

socketVars == <<readyState, webSocket, req, requests, clt, ackTimePending,
                ackTimer, lastEventSeq, toHost, toClient, unacked>>

Sockets == 1..MaxSockets

InitSocket ==
    /\ readyState = [s \in Sockets |-> "none"]
    /\ webSocket = 0
    /\ req = 1
    /\ requests = {}
    /\ clt = 0
    /\ ackTimePending = FALSE
    /\ ackTimer = FALSE
    /\ lastEventSeq = 0
    /\ toHost = [s \in Sockets |-> <<>>]
    /\ toClient = [s \in Sockets |-> <<>>]
    /\ unacked = 0

IsOpen == webSocket # 0 /\ readyState[webSocket] = "open"

(***************************************************************************)
(* connect(): the new socket is made the socket of the client, also if     *)
(* there is one that is still connecting.                                  *)
(***************************************************************************)
Created(s) == readyState[s] = "none" /\ \A t \in 1..(s - 1) : readyState[t] # "none"

Connect(s) ==
    /\ Created(s)
    /\ readyState' = [readyState EXCEPT ![s] = "connecting"]
    /\ webSocket' = s
    /\ UNCHANGED <<req, requests, clt, ackTimePending, ackTimer, lastEventSeq, toHost, toClient, unacked>>

Closing(s) == [readyState EXCEPT ![s] = IF @ = "closed" THEN @ ELSE "closing"]

\* close(): the close event follows later.
Close ==
    /\ readyState' = IF webSocket = 0 THEN readyState ELSE Closing(webSocket)
    /\ webSocket' = 0
    /\ UNCHANGED <<req, requests, clt, ackTimePending, ackTimer, lastEventSeq, toHost, toClient, unacked>>

\* connectWebsocket(): close() and connect() in one go.
Reconnect(s) ==
    /\ Created(s)
    /\ readyState' = [(IF webSocket = 0 THEN readyState ELSE Closing(webSocket))
                         EXCEPT ![s] = "connecting"]
    /\ webSocket' = s
    /\ UNCHANGED <<req, requests, clt, ackTimePending, ackTimer, lastEventSeq, toHost, toClient, unacked>>

(***************************************************************************)
(* syncRequest(): the request is put in the map and the timer is cleared   *)
(* before send().  The socket may have been replaced or closed meanwhile:  *)
(* send() throws on null and on a connecting socket, when the request is   *)
(* registered already, and drops it on one that is closing or closed.      *)
(***************************************************************************)
\* Mutant: the timer of a sent acknowledgement stays armed.
SyncRequestIn_Armed(content, states) ==
    LET message == [req |-> req, ack |-> lastEventSeq, clt |-> clt, content |-> content]
        sends   == webSocket # 0 /\ states[webSocket] = "open"
    IN /\ req' = req + 1
       /\ requests' = requests \cup {[req |-> req, content |-> content]}
       /\ ackTimePending' = FALSE
       /\ ackTimer' = ackTimer
       /\ toHost' = IF sends THEN [toHost EXCEPT ![webSocket] = Append(@, message)] ELSE toHost
       /\ unacked' = IF sends THEN 0 ELSE unacked

\* The request a continuation sends; content is what its answer is for.
\* states: the ready states at the time of send().
SyncRequestIn(content, states) ==
    LET message == [req |-> req, ack |-> lastEventSeq, clt |-> clt, content |-> content]
    IN /\ req' = req + 1
       /\ requests' = requests \cup {[req |-> req, content |-> content]}
       /\ ackTimePending' = FALSE
       /\ ackTimer' = (ackTimer /\ ~ackTimePending)
       /\ IF webSocket # 0 /\ states[webSocket] = "open"
            THEN /\ toHost' = [toHost EXCEPT ![webSocket] = Append(@, message)]
                 /\ unacked' = 0
            ELSE UNCHANGED <<toHost, unacked>>

SyncRequest(content) ==
    /\ SyncRequestIn(content, readyState)
    /\ UNCHANGED <<readyState, webSocket, clt, lastEventSeq, toClient>>

Acknowledge == [kind |-> "ack"]

\* Mutant: the timer fires and nothing is sent.
AcknowledgeEvents_Silent ==
    /\ ackTimer
    /\ ackTimer' = FALSE
    /\ ackTimePending' = FALSE
    /\ UNCHANGED <<readyState, webSocket, req, requests, clt, lastEventSeq, toHost, toClient, unacked>>

\* The timer fires.
AcknowledgeEvents ==
    /\ ackTimer
    /\ SyncRequest(Acknowledge)

(***************************************************************************)
(* The handlers of a socket.  A message that arrives after close() is not  *)
(* handed to the page.                                                     *)
(***************************************************************************)
\* onopen; the continuation of connect() runs with the state it leaves.
Opened(s) ==
    /\ readyState[s] = "connecting"
    /\ readyState' = [readyState EXCEPT ![s] = "open"]

\* onclose, after onerror if the connection was not established:
\* every pending request is rejected, on whatever socket it was sent.
Closed(s) ==
    /\ readyState[s] \in {"connecting", "open", "closing"}
    /\ readyState' = [readyState EXCEPT ![s] = "closed"]
    /\ requests' = {}
    /\ toHost' = [toHost EXCEPT ![s] = <<>>]
    /\ toClient' = [toClient EXCEPT ![s] = <<>>]
    /\ UNCHANGED <<webSocket, req, clt, ackTimePending, ackTimer, lastEventSeq, unacked>>

Arrives(s, msg) ==
    /\ readyState[s] = "open"
    /\ toClient[s] # <<>>
    /\ Head(toClient[s]).msg = msg
    /\ toClient' = [toClient EXCEPT ![s] = Tail(@)]

\* Mutant: the client id of the first response is not kept.
Response_NoClient(s) ==
    /\ Arrives(s, "resp")
    /\ requests' = {r \in requests : r.req # Head(toClient[s]).req}
    /\ UNCHANGED <<readyState, webSocket, req, clt, ackTimePending, ackTimer,
                   lastEventSeq, toHost, unacked>>

\* onmessage "resp", "error"; an answer whose request is gone is reported only.
Response(s) ==
    /\ Arrives(s, "resp")
    /\ LET message == Head(toClient[s])
           found   == \E r \in requests : r.req = message.req
       IN /\ requests' = {r \in requests : r.req # message.req}
          /\ clt' = IF found /\ message.clt # 0 THEN message.clt ELSE clt
    /\ UNCHANGED <<readyState, webSocket, req, ackTimePending, ackTimer, lastEventSeq, toHost, unacked>>

\* onmessage "ev"
EventMessage(s) ==
    /\ Arrives(s, "ev")
    /\ lastEventSeq' = Head(toClient[s]).seq
    /\ ackTimePending' = TRUE
    /\ ackTimer' = (ackTimer \/ ~ackTimePending)
    /\ unacked' = s
    /\ UNCHANGED <<readyState, webSocket, req, requests, clt, toHost>>
=============================================================================

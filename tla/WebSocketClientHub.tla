------------------------- MODULE WebSocketClientHub -------------------------
(***************************************************************************)
(* WebSocketClientHub: the end of the clients.  Tasks execute requests     *)
(* concurrently on one connection, which the first of them opens; a        *)
(* receive loop per connection completes them when their responses come,   *)
(* in any order, and cancels what is pending when the connection breaks    *)
(* (SocketClientHub, RemoteRequestMap).                                    *)
(***************************************************************************)
EXTENDS WebSocketChannel

VARIABLES
  wsConnection, \* the current connection, 0 is null
  connectTask,  \* the connection somebody is opening, 0 is null
  created,      \* number of WebSocketConnections created
  pc,           \* where ExecuteRequestAsync() of each request is
  conn,         \* its connection
  response,     \* its TaskCompletionSource: "none", "response", "canceled"
  requestMap,   \* for each connection: the requests whose response is expected
  sendLock,     \* for each connection: the request that holds the lock, or None
  clientLoop,   \* where the ReceiveMessageLoop() of each connection is
  toCancel,     \* requests CancelRequests() has still to visit
  mapChanged    \* a request was added to the map that CancelRequests() iterates

clientVars == <<wsConnection, connectTask, created, pc, conn, response, requestMap,
                sendLock, clientLoop, toCancel, mapChanged>>

connectVars == <<wsConnection, connectTask, created>>
loopVars    == <<clientLoop, toCancel, mapChanged>>

ClientInit ==
  /\ wsConnection = 0 /\ connectTask = 0 /\ created = 0
  /\ pc = [r \in Requests |-> "start"]
  /\ conn = [r \in Requests |-> 0]
  /\ response = [r \in Requests |-> "none"]
  /\ requestMap = [c \in Conns |-> {}]
  /\ sendLock = [c \in Conns |-> None]
  /\ clientLoop = [c \in Conns |-> "none"]
  /\ toCancel = [c \in Conns |-> {}]
  /\ mapChanged = [c \in Conns |-> FALSE]

Goto(r, where) == pc' = [pc EXCEPT ![r] = where]

\* GetWebsocketConnection(): the current connection, if it is open
GetConnection(r) ==
  /\ pc[r] = "start"
  /\ IF wsConnection # 0 /\ state[wsConnection] = "open"
     THEN conn' = [conn EXCEPT ![r] = wsConnection] /\ Goto(r, "add")
     ELSE conn' = conn /\ Goto(r, "connect")
  /\ UNCHANGED <<connectVars, response, requestMap, sendLock, loopVars, channelVars>>

\* JoinConnects() awaits the connection somebody opens, or creates one.
JoinConnects(r) ==
  /\ pc[r] = "connect"
  /\ IF connectTask # 0
     THEN /\ conn' = [conn EXCEPT ![r] = connectTask] /\ Goto(r, "join")
          /\ UNCHANGED connectVars
     ELSE /\ created < MaxConns
          /\ created' = created + 1
          /\ wsConnection' = created' /\ connectTask' = created'
          /\ conn' = [conn EXCEPT ![r] = created'] /\ Goto(r, "connecting")
  /\ UNCHANGED <<response, requestMap, sendLock, loopVars, channelVars>>

\* ConnectAsync() opens the socket ...
OpenSocket(r) ==
  /\ pc[r] = "connecting"
  /\ state' = [state EXCEPT ![conn[r]] = "open"]
  /\ Goto(r, "connected")
  /\ UNCHANGED <<connectVars, conn, response, requestMap, sendLock, loopVars, toHost, toClient, calm>>

\* ... or fails: whoever waits for the connection fails too.
ConnectFails(r) ==
  /\ pc[r] = "connecting"
  /\ connectTask' = 0
  /\ pc' = [q \in Requests |-> IF q = r \/ (pc[q] = "join" /\ conn[q] = conn[r]) THEN "done" ELSE pc[q]]
  /\ UNCHANGED <<wsConnection, created, conn, response, requestMap, sendLock, loopVars, channelVars>>

\* Connect() resets connectTask, completes the task for those who joined and
\* starts the receive loop.
EndConnect(r) ==
  /\ pc[r] = "connected"
  /\ connectTask' = 0
  /\ pc' = [q \in Requests |-> IF q = r \/ (pc[q] = "join" /\ conn[q] = conn[r]) THEN "add" ELSE pc[q]]
  /\ clientLoop' = [clientLoop EXCEPT ![conn[r]] = "check"]
  /\ UNCHANGED <<wsConnection, created, conn, response, requestMap, sendLock, toCancel, mapChanged, channelVars>>

-----------------------------------------------------------------------------
\* requestMap.Add() before the request is sent, "to be prepared for handling the
\* response"
AddRequest(r) ==
  /\ pc[r] = "add"
  /\ requestMap' = [requestMap EXCEPT ![conn[r]] = @ \cup {r}]
  /\ mapChanged' = [mapChanged EXCEPT ![conn[r]] = TRUE]
  /\ Goto(r, "lock")
  /\ UNCHANGED <<connectVars, conn, response, sendLock, clientLoop, toCancel, channelVars>>

AwaitSendLock(r) ==
  /\ pc[r] = "lock" /\ sendLock[conn[r]] = None
  /\ sendLock' = [sendLock EXCEPT ![conn[r]] = r]
  /\ Goto(r, "send")
  /\ UNCHANGED <<connectVars, conn, response, requestMap, loopVars, channelVars>>

\* Defect: the lock is kept.
ReleaseSendLock_Not(r) == sendLock[conn[r]]
ReleaseSendLock(r)     == None

\* SendAsync(), and sendLock.Release()
SendRequest(r) ==
  /\ pc[r] = "send" /\ state[conn[r]] = "open"
  /\ toHost' = [toHost EXCEPT ![conn[r]] = Append(@, r)]
  /\ sendLock' = [sendLock EXCEPT ![conn[r]] = ReleaseSendLock(r)]
  /\ Goto(r, "wait")
  /\ UNCHANGED <<connectVars, conn, response, requestMap, loopVars, state, toClient, calm>>

\* SendAsync() throws: the request returns an error.  The lock is not released and
\* the request stays in the map.
SendRequestFails(r) ==
  /\ pc[r] = "send" /\ state[conn[r]] # "open"
  /\ Goto(r, "done")
  /\ UNCHANGED <<connectVars, conn, response, requestMap, sendLock, loopVars, channelVars>>

-----------------------------------------------------------------------------
\* The receive loop tests the state of the socket and awaits the next message.
CheckSocket(c) ==
  /\ clientLoop[c] = "check"
  /\ clientLoop' = [clientLoop EXCEPT ![c] = IF state[c] = "open" THEN "receive" ELSE "ended"]
  /\ UNCHANGED <<connectVars, pc, conn, response, requestMap, sendLock, toCancel, mapChanged, channelVars>>

\* Any exception in the loop cancels all pending requests.
StartCancel(c, pending) ==
  /\ clientLoop' = [clientLoop EXCEPT ![c] = "cancel"]
  /\ toCancel' = [toCancel EXCEPT ![c] = pending]
  /\ mapChanged' = [mapChanged EXCEPT ![c] = FALSE]

Expected(c, m) == m \in requestMap[c]

\* A response arrives.  OnReceive() throws if its request is not in the map; SetResult()
\* throws if the request was cancelled.
OnReceive(c) ==
  /\ clientLoop[c] = "receive" /\ state[c] = "open" /\ toClient[c] # <<>>
  /\ LET m == Head(toClient[c])
     IN  /\ toClient' = [toClient EXCEPT ![c] = Tail(@)]
         /\ requestMap' = [requestMap EXCEPT ![c] = @ \ {m}]
         /\ IF Expected(c, m) /\ response[m] = "none"
            THEN /\ response' = [response EXCEPT ![m] = "response"]
                 /\ clientLoop' = [clientLoop EXCEPT ![c] = "check"] /\ UNCHANGED <<toCancel, mapChanged>>
            ELSE StartCancel(c, requestMap[c] \ {m}) /\ UNCHANGED response
  /\ UNCHANGED <<connectVars, pc, conn, sendLock, state, toHost, calm>>

\* ReceiveAsync() throws because the connection broke.
ReceiveFails(c) ==
  /\ clientLoop[c] = "receive" /\ state[c] = "broken"
  /\ StartCancel(c, requestMap[c])
  /\ UNCHANGED <<connectVars, pc, conn, response, requestMap, sendLock, channelVars>>

\* The client itself closes the connection: the loop ends without cancelling.
ReceiveClosed(c) ==
  /\ clientLoop[c] = "receive" /\ state[c] \in {"closing", "closed"}
  /\ clientLoop' = [clientLoop EXCEPT ![c] = "ended"]
  /\ UNCHANGED <<connectVars, pc, conn, response, requestMap, sendLock, toCancel, mapChanged, channelVars>>

\* CancelRequests() iterates the map outside of its lock.  The enumerator throws when
\* a request was added meanwhile, and SetCanceled() when a request is completed
\* already: nobody catches that, and the receive loop is gone.
CancelRequests(c) ==
  /\ clientLoop[c] = "cancel"
  /\ \/ /\ mapChanged[c]
        /\ clientLoop' = [clientLoop EXCEPT ![c] = "ended"]
        /\ UNCHANGED <<response, toCancel>>
     \/ /\ ~mapChanged[c] /\ toCancel[c] = {}
        /\ clientLoop' = [clientLoop EXCEPT ![c] = "check"]
        /\ UNCHANGED <<response, toCancel>>
     \/ /\ ~mapChanged[c]
        /\ \E r \in toCancel[c] :
             IF response[r] = "none"
             THEN /\ response' = [response EXCEPT ![r] = "canceled"]
                  /\ toCancel' = [toCancel EXCEPT ![c] = @ \ {r}]
                  /\ UNCHANGED clientLoop
             ELSE /\ clientLoop' = [clientLoop EXCEPT ![c] = "ended"]
                  /\ UNCHANGED <<response, toCancel>>
  /\ UNCHANGED <<connectVars, pc, conn, requestMap, sendLock, mapChanged, channelVars>>

-----------------------------------------------------------------------------
\* A request of c is between choosing its connection and having sent its message.
Sending(c)   == \E r \in Requests : conn[r] = c /\ pc[r] \in {"connected", "join", "add", "lock", "send"}
Pending(c)   == \E r \in requestMap[c] : response[r] = "none"

\* Close(): what is pending is not cancelled.  If the socket is still connecting, or
\* broken, CloseAsync() throws: the connection is forgotten, but goes on if it opens.
CloseClient(c) ==
  /\ wsConnection = c
  /\ wsConnection' = 0
  /\ \/ /\ state[c] = "open" /\ FaultPossible
        /\ state' = [state EXCEPT ![c] = "closing"]
        /\ toHost' = [toHost EXCEPT ![c] = Append(@, CloseFrame)]
        /\ calm' = (calm /\ ~Sending(c) /\ ~Pending(c))
        /\ UNCHANGED toClient
     \/ state[c] \in {"none", "broken"} /\ UNCHANGED channelVars
  /\ UNCHANGED <<connectTask, created, pc, conn, response, requestMap, sendLock, loopVars>>

\* The connection breaks, and what is in transit is lost.  calm excludes that it does
\* while a request is being sent, or while the receive loop is not in ReceiveAsync().
\* If ReceiveAsync() has just returned a message, the test of the state after it ends
\* the loop, and nothing is cancelled.
Break(c) ==
  /\ Connected(c) /\ (state[c] = "open" => FaultPossible)
  /\ state' = [state EXCEPT ![c] = "broken"]
  /\ toHost' = [toHost EXCEPT ![c] = <<>>] /\ toClient' = [toClient EXCEPT ![c] = <<>>]
  /\ \/ /\ calm' = (calm /\ ~Sending(c) /\ clientLoop[c] = "receive")
        /\ UNCHANGED clientVars
     \/ /\ clientLoop[c] = "receive" /\ toClient[c] # <<>>
        /\ clientLoop' = [clientLoop EXCEPT ![c] = "ended"]
        /\ calm' = FALSE
        /\ UNCHANGED <<connectVars, pc, conn, response, requestMap, sendLock, toCancel, mapChanged>>

\* ExecuteRequestAsync() returns: with an error, the response, or cancelled.
Completed(r) == pc[r] = "done" \/ (pc[r] = "wait" /\ response[r] # "none")

ExecuteRequest(r) ==
  \/ GetConnection(r) \/ JoinConnects(r) \/ OpenSocket(r) \/ ConnectFails(r) \/ EndConnect(r)
  \/ AddRequest(r) \/ AwaitSendLock(r) \/ SendRequest(r) \/ SendRequestFails(r)

ClientReceiveLoop(c) ==
  CheckSocket(c) \/ OnReceive(c) \/ ReceiveFails(c) \/ ReceiveClosed(c) \/ CancelRequests(c)

ClientNext ==
  \/ \E r \in Requests : ExecuteRequest(r)
  \/ \E c \in Conns : ClientReceiveLoop(c) \/ CloseClient(c) \/ Break(c)

ClientFairness ==
  /\ \A r \in Requests : WF_clientVars(ExecuteRequest(r))
  /\ \A c \in Conns : WF_clientVars(ClientReceiveLoop(c))

ClientTypeOK ==
  /\ wsConnection \in 0 .. MaxConns /\ connectTask \in 0 .. MaxConns /\ created \in 0 .. MaxConns
  /\ pc \in [Requests -> {"start", "connect", "join", "connecting", "connected", "add", "lock",
                          "send", "wait", "done"}]
  /\ conn \in [Requests -> 0 .. MaxConns]
  /\ response \in [Requests -> {"none", "response", "canceled"}]
  /\ requestMap \in [Conns -> SUBSET Requests]
  /\ sendLock \in [Conns -> Requests \cup {None}]
  /\ clientLoop \in [Conns -> {"none", "check", "receive", "cancel", "ended"}]
  /\ toCancel \in [Conns -> SUBSET Requests]
  /\ mapChanged \in [Conns -> BOOLEAN]
=============================================================================

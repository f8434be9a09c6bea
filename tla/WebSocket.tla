----------------------------- MODULE WebSocket -----------------------------
(***************************************************************************)
(* A client hub and its host, connected by WebSockets.                     *)
(***************************************************************************)
EXTENDS WebSocketHost, WebSocketClientHub

vars == <<channelVars, hostVars, clientVars>>

Init == ChannelInit /\ HostInit /\ ClientInit

Next == (HostNext /\ UNCHANGED clientVars) \/ (ClientNext /\ UNCHANGED hostVars)

\* Both programs run as long as they can do something.  Nothing forces a
\* connection to break or to be closed.
FairSpec == Init /\ [][Next]_vars /\ HostFairness /\ ClientFairness

-----------------------------------------------------------------------------
TypeOK ==
  /\ state \in [Conns -> {"none", "open", "closing", "closed", "broken"}]
  /\ toHost \in [Conns -> Seq(Requests \cup {CloseFrame})]
  /\ toClient \in [Conns -> Seq(Requests \cup {None})]
  /\ calm \in BOOLEAN
  /\ HostTypeOK
  /\ ClientTypeOK

\* The send loop never sleeps on messages nobody will wake it for: whenever it
\* waits and the queue is not empty, the semaphore can be taken or a sender is on
\* its way to release it (MessageBufferQueueAsync.AddTail()).
NoLostWakeup ==
  \A c \in Conns :
    sendLoop[c] = "wait" /\ available[c] = 0 /\ queue[c] # <<>>
      => \E s \in Requests : job[s].conn = c /\ job[s].pc \in {"added", "release"}

Occurrences(s, seq) == Cardinality({i \in DOMAIN seq : seq[i] = s})

\* Where an answer to r comes from: the request itself, its execution, or the answer.
Answers(r) ==
  LET c == conn[r]
  IN  Occurrences(r, toHost[c]) + (IF job[r].pc = "send" THEN 1 ELSE 0)
      + Occurrences(r, queue[c]) + Occurrences(r, batch[c]) + Occurrences(r, toClient[c])

\* A request that waits on an open connection will be answered exactly once: neither
\* side loses the request or its response, and none is answered twice.
OneAnswer ==
  calm => \A r \in Requests :
    pc[r] = "wait" /\ state[conn[r]] = "open" =>
      IF response[r] = "none" THEN Answers(r) = 1 ELSE Answers(r) = 0

\* A request is only cancelled because its connection broke, never because of
\* what happens to other requests.
CanceledIfBroken ==
  \A r \in Requests : response[r] = "canceled" => state[conn[r]] = "broken"

CalmCanceledIfBroken == calm => CanceledIfBroken

\* Whoever executes a request gets an answer or an error.
EveryRequestCompletes ==
  \A r \in Requests : (pc[r] # "start") ~> (Completed(r) \/ ~calm)

HostEnded(c) == recvLoop[c] = "ended" /\ sendLoop[c] = "ended"

\* Both loops of the host end after the client closed the connection.
ClosedHostEnds == \A c \in Conns : (state[c] = "closed") ~> HostEnded(c)
=============================================================================

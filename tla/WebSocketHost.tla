--------------------------- MODULE WebSocketHost ---------------------------
(***************************************************************************)
(* WebSocketHost: the end of the server.  For each connection there is a   *)
(* receive loop that executes requests, a send queue that is filled by     *)
(* whoever finished a request, and a send loop that empties it             *)
(* (MessageBufferQueueAsync, SocketHost).                                  *)
(***************************************************************************)
EXTENDS WebSocketChannel

VARIABLES
  queue,        \* sendQueue.queue: the messages to be sent
  closed,       \* sendQueue.queue.closed
  available,    \* sendQueue.messageAvailable.CurrentCount, a semaphore with at most 1
  recvLoop,     \* the receive loop: "read", "busy" with a request it executes
                \* itself, or "ended": SendReceiveMessages() awaits the send loop
  sendLoop,     \* the send loop: "wait", "woken", "send" or "ended"
  batch,        \* messages: what the send loop dequeued and has still to send
  isLast,       \* remoteEvent: the queue was closed when the batch was taken
  job           \* for each request: its execution, see NoJob

hostVars == <<queue, closed, available, recvLoop, sendLoop, batch, isLast, job>>

\* pc is "none", "send" (before SendMessage()), "added" (AddTail() left its lock),
\* "release" (it saw a CurrentCount of 0) or "done".  A synchronous job runs on the
\* receive loop.  attempt counts the responses written for a request.
NoJob == [pc |-> "none", conn |-> 0, sync |-> FALSE, attempt |-> 0]
Job   == [pc : {"none", "send", "added", "release", "done"}, conn : 0 .. MaxConns,
          sync : BOOLEAN, attempt : 0 .. 3]

HostInit ==
  /\ queue = [c \in Conns |-> <<>>]
  /\ closed = [c \in Conns |-> FALSE]
  /\ available = [c \in Conns |-> 0]
  /\ recvLoop = [c \in Conns |-> "read"]
  /\ sendLoop = [c \in Conns |-> "wait"]
  /\ batch = [c \in Conns |-> <<>>]
  /\ isLast = [c \in Conns |-> FALSE]
  /\ job = [s \in Requests |-> NoJob]

\* The receive loop reads a request and executes it: at once, or as a task that
\* continues somewhere else (Async, Queue).
ReadRequest(c) ==
  /\ recvLoop[c] = "read" /\ Connected(c)
  /\ toHost[c] # <<>> /\ Head(toHost[c]) # CloseFrame
  /\ toHost' = [toHost EXCEPT ![c] = Tail(@)]
  /\ LET r == Head(toHost[c])
     IN  /\ job' = [job EXCEPT ![r] =
                      [pc |-> "send", conn |-> c, sync |-> r \in SyncRequests, attempt |-> 1]]
         /\ recvLoop' = [recvLoop EXCEPT ![c] = IF r \in SyncRequests THEN "busy" ELSE "read"]
  /\ UNCHANGED <<queue, closed, available, sendLoop, batch, isLast, state, toClient, calm>>

\* Defect: closing does not wake the send loop.
CloseSemaphore_Not(c)    == available[c]
\* Defect: it releases the semaphore whatever its count is.
CloseSemaphore_Always(c) == available[c] + 1
CloseSemaphore(c)        == 1

\* sendQueue.Close().  It releases the semaphore unless its count is 1; if another
\* thread does so in between, Release() throws and the outcome is the same.
CloseQueue(c) ==
  /\ closed' = [closed EXCEPT ![c] = TRUE]
  /\ available' = [available EXCEPT ![c] = CloseSemaphore(c)]

\* The client closes: the host replies, the receive loop returns and closes the queue.
ReadClose(c) ==
  /\ recvLoop[c] = "read" /\ Connected(c)
  /\ toHost[c] # <<>> /\ Head(toHost[c]) = CloseFrame
  /\ toHost' = [toHost EXCEPT ![c] = <<>>]
  /\ state' = [state EXCEPT ![c] = "closed"]
  /\ recvLoop' = [recvLoop EXCEPT ![c] = "ended"]
  /\ CloseQueue(c)
  /\ UNCHANGED <<queue, sendLoop, batch, isLast, job, toClient, calm>>

\* The client is gone: the loop sees the state of the socket and returns, or
\* ReceiveAsync() throws, and then the queue is not closed.
ReadFails(c) ==
  /\ recvLoop[c] = "read" /\ state[c] = "broken"
  /\ recvLoop' = [recvLoop EXCEPT ![c] = "ended"]
  /\ CloseQueue(c) \/ UNCHANGED <<closed, available>>
  /\ UNCHANGED <<queue, sendLoop, batch, isLast, job, channelVars>>

-----------------------------------------------------------------------------
\* The execution of s is done: a synchronous one returns to the receive loop.
Finish(s) ==
  /\ job' = [job EXCEPT ![s].pc = "done"]
  /\ recvLoop' = IF job[s].sync THEN [recvLoop EXCEPT ![job[s].conn] = "read"] ELSE recvLoop

\* OnReceive() catches what ExecuteRequest() throws and answers with an error without
\* reqId.  An exception of that one ends the receive loop.
OnReceiveFails(s) ==
  IF job[s].attempt = 2
  THEN /\ job' = [job EXCEPT ![s].pc = "send", ![s].attempt = 3]
       /\ UNCHANGED recvLoop
  ELSE /\ job' = [job EXCEPT ![s].pc = "done"]
       /\ recvLoop' = [recvLoop EXCEPT ![job[s].conn] = "ended"]

\* An exception in SendMessage().  That of a task is caught by the task; for a
\* synchronous request ExecuteRequest() answers with an error of the same reqId.
Fail(s) ==
  IF ~job[s].sync THEN Finish(s)
  ELSE IF job[s].attempt = 1
  THEN /\ job' = [job EXCEPT ![s].pc = "send", ![s].attempt = 2]
       /\ UNCHANGED recvLoop
  ELSE OnReceiveFails(s)

\* The response names its reqId, except for the last error of Fail().
Message(s) == IF job[s].attempt = 3 THEN None ELSE s

\* SendMessage() and the lock of AddTail(): a closed queue drops the message.  (If it
\* is closed between the two tests AddTail() throws, which Fail() catches for those
\* who can meet it: the receive loop has ended then.)
AddTail(s) ==
  /\ job[s].pc = "send"
  /\ LET c == job[s].conn
     IN  IF closed[c]
         THEN Finish(s) /\ UNCHANGED queue
         ELSE /\ queue' = [queue EXCEPT ![c] = Append(@, Message(s))]
              /\ job' = [job EXCEPT ![s].pc = "added"]
              /\ UNCHANGED recvLoop
  /\ UNCHANGED <<closed, available, sendLoop, batch, isLast, channelVars>>

\* Defect: only who finds the queue empty wakes the send loop.
MustRelease_IfFirst(c) == Len(queue[c]) = 1
MustRelease(c)         == available[c] = 0

\* AddTail() looks at CurrentCount after it left the lock ...
TestAvailable(s) ==
  /\ job[s].pc = "added"
  /\ IF MustRelease(job[s].conn)
     THEN job' = [job EXCEPT ![s].pc = "release"] /\ UNCHANGED recvLoop
     ELSE Finish(s)
  /\ UNCHANGED <<queue, closed, available, sendLoop, batch, isLast, channelVars>>

\* ... and releases the semaphore.  If another sender did so in between, it throws.
Release(s) ==
  /\ job[s].pc = "release"
  /\ LET c == job[s].conn
     IN  /\ available' = [available EXCEPT ![c] = 1]
         /\ IF available[c] = 0 THEN Finish(s) ELSE Fail(s)
         /\ calm' = (calm /\ (available[c] = 0 \/ ~job[s].sync))
  /\ UNCHANGED <<queue, closed, sendLoop, batch, isLast, state, toHost, toClient>>

-----------------------------------------------------------------------------
\* The send loop: DequeMessageValuesAsync() waits for the semaphore, ...
Wait(c) ==
  /\ sendLoop[c] = "wait" /\ available[c] = 1
  /\ available' = [available EXCEPT ![c] = 0]
  /\ sendLoop' = [sendLoop EXCEPT ![c] = "woken"]
  /\ UNCHANGED <<queue, closed, recvLoop, batch, isLast, job, channelVars>>

\* Where the send loop goes on when the messages rest are left to be sent.
Loop(rest, last) == IF rest # <<>> THEN "send" ELSE IF last THEN "ended" ELSE "wait"

\* ... and takes all messages under the lock.
Dequeue(c) ==
  /\ sendLoop[c] = "woken"
  /\ batch' = [batch EXCEPT ![c] = queue[c]]
  /\ queue' = [queue EXCEPT ![c] = <<>>]
  /\ isLast' = [isLast EXCEPT ![c] = closed[c]]
  /\ sendLoop' = [sendLoop EXCEPT ![c] = Loop(queue[c], closed[c])]
  /\ UNCHANGED <<closed, available, recvLoop, job, channelVars>>

\* Defect: only one message is sent each time.
Rest_None(c) == <<>>
\* Defect: it is the first message of the batch that is sent each time.
Rest_NotLast(c) == SubSeq(batch[c], 1, Len(batch[c]) - 1)
\* What is left of the batch when its first message was sent.
Rest(c) == Tail(batch[c])

\* SendAsync() of the next message.  On a broken connection it may still accept it.
Send(c) ==
  /\ sendLoop[c] = "send" /\ state[c] # "closed"
  /\ batch' = [batch EXCEPT ![c] = Rest(c)]
  /\ toClient' = IF Connected(c) THEN [toClient EXCEPT ![c] = Append(@, Head(batch[c]))] ELSE toClient
  /\ sendLoop' = [sendLoop EXCEPT ![c] = Loop(Rest(c), isLast[c])]
  /\ UNCHANGED <<queue, closed, available, recvLoop, isLast, job, state, toHost, calm>>

\* SendAsync() throws: the send loop ends.
SendFails(c) ==
  /\ sendLoop[c] = "send" /\ ~Connected(c)
  /\ sendLoop' = [sendLoop EXCEPT ![c] = "ended"]
  /\ UNCHANGED <<queue, closed, available, recvLoop, batch, isLast, job, channelVars>>

SendLoop(c)    == Wait(c) \/ Dequeue(c) \/ Send(c) \/ SendFails(c)
ReceiveLoop(c) == ReadRequest(c) \/ ReadClose(c) \/ ReadFails(c)
SendMessage(s) == AddTail(s) \/ TestAvailable(s) \/ Release(s)

HostNext ==
  \/ \E c \in Conns : SendLoop(c) \/ ReceiveLoop(c)
  \/ \E s \in Requests : SendMessage(s)

HostFairness ==
  /\ \A c \in Conns : WF_hostVars(SendLoop(c)) /\ WF_hostVars(ReceiveLoop(c))
  /\ \A s \in Requests : WF_hostVars(SendMessage(s))

HostTypeOK ==
  /\ queue \in [Conns -> Seq(Requests \cup {None})]
  /\ closed \in [Conns -> BOOLEAN]
  /\ available \in [Conns -> 0 .. 1]
  /\ recvLoop \in [Conns -> {"read", "busy", "ended"}]
  /\ sendLoop \in [Conns -> {"wait", "woken", "send", "ended"}]
  /\ batch \in [Conns -> Seq(Requests \cup {None})]
  /\ isLast \in [Conns -> BOOLEAN]
  /\ job \in [Requests -> Job]
=============================================================================

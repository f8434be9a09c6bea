--------------------------- MODULE EventDelivery ---------------------------
(***************************************************************************)
(* Delivery of events from the hub to one subscribed client: the           *)
(* EventSubClient of the client in the hub, the send loop of the           *)
(* EventDispatcher, the requests of the client that carry its              *)
(* acknowledgement, the WebSocket connections, and the client's            *)
(* ProcessEvents() and acknowledge timer.                                  *)
(*                                                                         *)
(* Threads: the send loop (or, with EventDispatching.Queue, the            *)
(* application calling SendQueuedEvents), one request handler per          *)
(* connection, and the request handlers of other clients, which publish.   *)
(* A step is what a thread does inside one lock, or between two of them.   *)
(***************************************************************************)
EXTENDS Naturals, Sequences, SequencesExt

CONSTANTS
  Dispatchings,     \* values of enum EventDispatching: "QueueSend", "Queue"
  Conns,            \* connections are 1..Conns, opened in this order
  MaxEvents,        \* bound on the events published
  MaxRequests,      \* bound on the requests in transit per connection
  QueueEventsInit,  \* what std.Client { queueEvents } may have set initially
  MaxToggles        \* bound on the later changes of queueEvents

ASSUME ConstantsAssumption ==
  /\ Dispatchings \subseteq {"QueueSend", "Queue"}
  /\ Conns \in Nat \ {0}
  /\ QueueEventsInit \subseteq BOOLEAN
  /\ MaxEvents \in Nat /\ MaxRequests \in Nat /\ MaxToggles \in Nat

VARIABLES
  \* --- EventSubClient
  eventReceiver,        \* the connection events are sent to
  queueEvents,          \* std.Client { queueEvents }
  unsentSyncEvents,     \* events not yet sent
  sentEventMessages,    \* messages sent and not acknowledged
  resendEventMessages,  \* sentEventMessages have to be sent again
  eventCounter,         \* seq of the last EventMessage
  toggles,              \* counts the changes of queueEvents
  queuedSince,          \* events up to this one were published before queueEvents was set
  \* --- EventDispatcher
  dispatching,          \* how events are sent, set once
  clientEvents,         \* entries of this client in the channel of the send loop
  published,            \* number of events enqueued; event e is the e-th
  loop,                 \* where SendEvents() is
  target,               \* its local variable: receiver
  syncEvents,           \* its buffer of dequeued events
  eventMessages,        \* its buffer of messages to send
  \* --- connections
  conn,                 \* conn[c]: "none", "open", "broken", "closed"
  requests,             \* requests[c]: acknowledgements on their way to the hub
  events,               \* events[c]: messages on their way to the client
  handler,              \* handler[c]: the request of connection c being executed
  \* --- FlioxClient
  current,              \* the connection the client uses
  lastEventSeq,         \* seq of the last message processed
  ackTimerPending,      \* is the acknowledge timer running
  processed             \* the messages processed, in that order

hubVars    == <<eventReceiver, queueEvents, unsentSyncEvents, sentEventMessages,
                resendEventMessages, eventCounter, toggles, queuedSince,
                dispatching>>
loopVars   == <<loop, target, syncEvents, eventMessages>>
connVars   == <<conn, requests, events, handler, current>>
clientVars == <<lastEventSeq, ackTimerPending, processed>>
vars       == <<hubVars, loopVars, connVars, clientVars, clientEvents, published>>

Conn      == 1..Conns
Message   == [seq : Nat, events : Seq(Nat)]

TypeOK ==
  /\ eventReceiver \in Conn
  /\ queueEvents \in BOOLEAN
  /\ unsentSyncEvents \in Seq(Nat)
  /\ sentEventMessages \in Seq(Message)
  /\ resendEventMessages \in BOOLEAN
  /\ eventCounter \in Nat
  /\ toggles \in Nat
  /\ queuedSince \in Nat
  /\ dispatching \in Dispatchings
  /\ clientEvents \in Nat
  /\ published \in Nat
  /\ loop \in {"idle", "clear", "dequeue", "write", "store", "send"}
  /\ target \in Conn
  /\ syncEvents \in Seq(Nat)
  /\ eventMessages \in Seq(Message)
  /\ conn \in [Conn -> {"none", "open", "broken", "closed"}]
  /\ requests \in [Conn -> Seq(Nat)]
  /\ events \in [Conn -> Seq(Message)]
  /\ handler \in [Conn -> [pc : {"idle", "unacknowledged", "ack"}, ack : Nat]]
  /\ current \in Conn
  /\ lastEventSeq \in Nat
  /\ ackTimerPending \in BOOLEAN
  /\ processed \in Seq(Message)

\* The state after the client subscribed, and sent std.Client { queueEvents }
\* or not, on connection 1.
Init ==
  /\ eventReceiver = 1
  /\ queueEvents \in QueueEventsInit
  /\ unsentSyncEvents = <<>>
  /\ sentEventMessages = <<>>
  /\ resendEventMessages = FALSE
  /\ eventCounter = 0
  /\ toggles = 0
  /\ queuedSince = 0
  /\ dispatching \in Dispatchings
  /\ clientEvents = 0
  /\ published = 0
  /\ loop = "idle"
  /\ target = 1
  /\ syncEvents = <<>>
  /\ eventMessages = <<>>
  /\ conn = [c \in Conn |-> IF c = 1 THEN "open" ELSE "none"]
  /\ requests = [c \in Conn |-> <<>>]
  /\ events = [c \in Conn |-> <<>>]
  /\ handler = [c \in Conn |-> [pc |-> "idle", ack |-> 0]]
  /\ current = 1
  /\ lastEventSeq = 0
  /\ ackTimerPending = FALSE
  /\ processed = <<>>

\* IEventReceiver.IsOpen() of the WebSocket of connection c: the hub learns
\* that a connection is gone some time after it broke.
IsOpen(c) == conn[c] \in {"open", "broken"}

-----------------------------------------------------------------------------
(* EventDispatcher: requests of other clients                              *)

\* Mutant: an event published while messages are unacknowledged starts no loop.
NewClientEvent_OnlyIfAcknowledged ==
  clientEvents' = IF dispatching = "QueueSend" /\ sentEventMessages = <<>>
                    THEN clientEvents + 1 ELSE clientEvents

\* NewClientEvent() is only called with EventDispatching.QueueSend: otherwise
\* the dispatcher of an EventSubClient is null.
NewClientEvent ==
  clientEvents' = IF dispatching = "QueueSend" THEN clientEvents + 1 ELSE clientEvents

\* EnqueueSyncTasks() for an event the client subscribed: it is enqueued if the
\* client queues events or is connected, and dropped otherwise.  (The client then
\* also leaves sendClientsMap: module Subscriptions.)
EnqueueSyncEvent ==
  /\ published < MaxEvents
  /\ queueEvents \/ IsOpen(eventReceiver)
  /\ published' = published + 1
  /\ unsentSyncEvents' = Append(unsentSyncEvents, published')
  /\ NewClientEvent
  /\ UNCHANGED <<eventReceiver, queueEvents, sentEventMessages, resendEventMessages,
                 eventCounter, toggles, queuedSince, dispatching, loopVars, connVars,
                 clientVars>>

\* std.Client { queueEvents }; one that changes nothing is left out.
SetQueueEvents(value) ==
  /\ conn[current] = "open" /\ value # queueEvents
  /\ toggles < MaxToggles /\ toggles' = toggles + 1
  /\ queueEvents' = value
  /\ queuedSince' = IF queueEvents THEN queuedSince ELSE published
  /\ UNCHANGED <<eventReceiver, unsentSyncEvents, sentEventMessages,
                 resendEventMessages, eventCounter, dispatching, clientEvents, published,
                 loopVars, connVars, clientVars>>

-----------------------------------------------------------------------------
(* EventSubClient.SendEvents(), called by the send loop or, with Queue, by *)
(* SendQueuedEvents() of the application                                   *)

\* clientEventReader.ReadAsync() waits for an entry.
HasClientEvent == clientEvents > 0

StartSendEvents ==
  /\ loop = "idle"
  /\ \/ dispatching = "QueueSend" /\ HasClientEvent /\ clientEvents' = clientEvents - 1
     \/ dispatching = "Queue" /\ UNCHANGED clientEvents
  /\ target' = eventReceiver
  /\ loop' = IF IsOpen(eventReceiver) THEN "dequeue"
             ELSE IF queueEvents THEN "idle" ELSE "clear"
  /\ UNCHANGED <<hubVars, syncEvents, eventMessages, published, connVars, clientVars>>

ClearUnsentSyncEvents ==
  /\ loop = "clear"
  /\ unsentSyncEvents' = <<>>
  /\ loop' = "idle"
  /\ UNCHANGED <<eventReceiver, queueEvents, sentEventMessages, resendEventMessages,
                 eventCounter, toggles, queuedSince, dispatching, target, syncEvents,
                 eventMessages, clientEvents, published, connVars, clientVars>>

\* Mutant: only the last of the unacknowledged messages is sent again.
EventMessagesToResend_LastOnly ==
  IF resendEventMessages /\ sentEventMessages # <<>>
    THEN <<sentEventMessages[Len(sentEventMessages)]>> ELSE <<>>

\* CopyEventMessages()
EventMessagesToResend == IF resendEventMessages THEN sentEventMessages ELSE <<>>

\* DequeueEvents(), first lock: messages to send again and events not yet sent.
DequeueEvents ==
  /\ loop = "dequeue"
  /\ eventMessages' = EventMessagesToResend
  /\ resendEventMessages' = FALSE
  /\ syncEvents' = unsentSyncEvents
  /\ unsentSyncEvents' = <<>>
  /\ loop' = IF syncEvents' # <<>> THEN "write"
             ELSE IF eventMessages' # <<>> THEN "send" ELSE "idle"
  /\ UNCHANGED <<eventReceiver, queueEvents, sentEventMessages, eventCounter,
                 toggles, queuedSince, dispatching, target, clientEvents, published,
                 connVars, clientVars>>

\* Outside of the lock: the dequeued events become one EventMessage.
WriteEventMessage ==
  /\ loop = "write"
  /\ eventCounter' = eventCounter + 1
  /\ eventMessages' =
       Append(eventMessages, [seq |-> eventCounter', events |-> syncEvents])
  /\ syncEvents' = <<>>
  /\ loop' = IF queueEvents THEN "store" ELSE "send"
  /\ UNCHANGED <<eventReceiver, queueEvents, unsentSyncEvents, sentEventMessages,
                 resendEventMessages, toggles, queuedSince, dispatching, target,
                 clientEvents, published, connVars, clientVars>>

\* DequeueEvents(), second lock.
StoreEventMessage ==
  /\ loop = "store"
  /\ sentEventMessages' =
       Append(sentEventMessages, eventMessages[Len(eventMessages)])
  /\ loop' = "send"
  /\ UNCHANGED <<eventReceiver, queueEvents, unsentSyncEvents, resendEventMessages,
                 eventCounter, toggles, queuedSince, dispatching, target, syncEvents,
                 eventMessages, clientEvents, published, connVars, clientVars>>

\* receiver.SendEvent() for every message; what is sent to a connection that
\* is gone never arrives.  The loop goes on with DequeueEvents().
SendEventMessages ==
  /\ loop = "send"
  /\ events' = IF conn[target] = "open"
                 THEN [events EXCEPT ![target] = @ \o eventMessages] ELSE events
  /\ eventMessages' = <<>>
  /\ loop' = "dequeue"
  /\ UNCHANGED <<hubVars, target, syncEvents, clientEvents, published,
                 conn, requests, handler, current, clientVars>>

SendEvents ==
  \/ StartSendEvents \/ ClearUnsentSyncEvents \/ DequeueEvents
  \/ WriteEventMessage \/ StoreEventMessage \/ SendEventMessages

-----------------------------------------------------------------------------
(* EventDispatcher.ProcessSubscriber(): a request of the client, received  *)
(* on connection c                                                         *)

\* UpdateTarget() up to the assignment of the new receiver.
UpdateTarget(c) ==
  /\ handler[c].pc = "idle" /\ requests[c] # <<>> /\ IsOpen(c)
  /\ requests' = [requests EXCEPT ![c] = Tail(@)]
  /\ handler' = [handler EXCEPT ![c] =
       [pc |-> IF eventReceiver = c THEN "ack" ELSE "unacknowledged",
        ack |-> Head(requests[c])]]
  /\ eventReceiver' = c
  /\ UNCHANGED <<queueEvents, unsentSyncEvents, sentEventMessages,
                 resendEventMessages, eventCounter, toggles, queuedSince, dispatching,
                 loopVars, clientEvents, published, conn, events, current, clientVars>>

\* Mutant: off by one.
MustResend_IfSeveral == dispatching = "QueueSend" /\ Len(sentEventMessages) > 1

MustResend == dispatching = "QueueSend" /\ sentEventMessages # <<>>

SendUnacknowledgedEvents(c) ==
  /\ handler[c].pc = "unacknowledged"
  /\ handler' = [handler EXCEPT ![c].pc = "ack"]
  /\ IF MustResend
       THEN resendEventMessages' = TRUE /\ NewClientEvent
       ELSE UNCHANGED <<resendEventMessages, clientEvents>>
  /\ UNCHANGED <<eventReceiver, queueEvents, unsentSyncEvents, sentEventMessages,
                 eventCounter, toggles, queuedSince, dispatching, loopVars, published,
                 conn, requests, events, current, clientVars>>

\* Mutant: off by one.
IsAcknowledged_OneMore(message, ack) == message.seq <= ack + 1

IsAcknowledged(message, ack) == message.seq <= ack

\* The acknowledged messages are a prefix of sentEventMessages.
AcknowledgeEventMessages(c) ==
  /\ handler[c].pc = "ack"
  /\ handler' = [handler EXCEPT ![c].pc = "idle"]
  /\ \E n \in 0..Len(sentEventMessages) :
       /\ \A i \in 1..n : IsAcknowledged(sentEventMessages[i], handler[c].ack)
       /\ n < Len(sentEventMessages) =>
            ~IsAcknowledged(sentEventMessages[n + 1], handler[c].ack)
       /\ sentEventMessages' = SubSeq(sentEventMessages, n + 1, Len(sentEventMessages))
  /\ UNCHANGED <<eventReceiver, queueEvents, unsentSyncEvents, resendEventMessages,
                 eventCounter, toggles, queuedSince, dispatching, loopVars, clientEvents,
                 published, conn, requests, events, current, clientVars>>

ProcessSubscriber(c) ==
  \/ UpdateTarget(c) \/ SendUnacknowledgedEvents(c) \/ AcknowledgeEventMessages(c)

-----------------------------------------------------------------------------
(* FlioxClient                                                             *)

\* A request carries lastEventSeq.  It uses the open connection or, if that
\* is gone, the one it opens.
SendRequest ==
  \/ /\ conn[current] = "open"
     /\ Len(requests[current]) < MaxRequests
     /\ requests' = [requests EXCEPT ![current] = Append(@, lastEventSeq)]
     /\ UNCHANGED <<conn, current>>
  \/ /\ conn[current] # "open" /\ current < Conns
     /\ current' = current + 1
     /\ conn' = [conn EXCEPT ![current'] = "open"]
     /\ requests' = [requests EXCEPT ![current'] = <<lastEventSeq>>]

\* SyncTasks() of the application, and AcknowledgeEvents() when the timer fires:
\* both stop the timer.
SyncTasks ==
  /\ SendRequest
  /\ ackTimerPending' = FALSE
  /\ UNCHANGED <<hubVars, loopVars, clientEvents, published, events, handler,
                 lastEventSeq, processed>>

AcknowledgeEvents == ackTimerPending /\ SyncTasks

\* Mutants: the last message is processed again, and every message is.
IsNew_Twice(message) == lastEventSeq <= message.seq
IsNew_All(message)   == TRUE

\* Skip already received events.
IsNew(message) == lastEventSeq < message.seq

ProcessEvents ==
  /\ events[current] # <<>>
  /\ LET message == Head(events[current]) IN
       IF IsNew(message)
         THEN /\ lastEventSeq' = message.seq
              /\ processed' = Append(processed, message)
         ELSE UNCHANGED <<lastEventSeq, processed>>
  /\ ackTimerPending' = TRUE
  /\ events' = [events EXCEPT ![current] = Tail(@)]
  /\ UNCHANGED <<hubVars, loopVars, clientEvents, published, conn, requests,
                 handler, current>>

-----------------------------------------------------------------------------
(* The network                                                             *)

\* The connection of the client breaks: what is on its way to the client is lost.
Break ==
  /\ conn[current] = "open"
  /\ conn' = [conn EXCEPT ![current] = "broken"]
  /\ events' = [events EXCEPT ![current] = <<>>]
  /\ UNCHANGED <<hubVars, loopVars, clientEvents, published, requests, handler,
                 current, clientVars>>

\* The hub notices: requests it has not yet received are lost.
Close(c) ==
  /\ conn[c] = "broken"
  /\ conn' = [conn EXCEPT ![c] = "closed"]
  /\ requests' = [requests EXCEPT ![c] = <<>>]
  /\ UNCHANGED <<hubVars, loopVars, clientEvents, published, events, handler,
                 current, clientVars>>

-----------------------------------------------------------------------------
Next ==
  \/ EnqueueSyncEvent
  \/ \E value \in BOOLEAN : SetQueueEvents(value)
  \/ SendEvents
  \/ \E c \in Conn : ProcessSubscriber(c) \/ Close(c)
  \/ SyncTasks
  \/ ProcessEvents
  \/ Break

Spec == Init /\ [][Next]_vars

\* The threads of hub and client keep running and a message on an open
\* connection arrives; nobody has to publish, break a connection, or call
\* SyncTasks(), but the acknowledge timer fires.
Fairness ==
  /\ WF_vars(SendEvents)
  /\ \A c \in Conn : WF_vars(ProcessSubscriber(c))
  /\ WF_vars(ProcessEvents)
  /\ WF_vars(AcknowledgeEvents)

FairSpec == Spec /\ Fairness

-----------------------------------------------------------------------------
(* What the code takes for granted and nothing in it enforces.             *)

\* What retention rests on: a client does not ask to queue its events between the
\* test of queueEvents and the lock in which the unsent events are cleared
\* (EventSubClient.cs:193-198).
SetApart == ~queueEvents /\ queueEvents' => loop # "clear"

\* With that, the reconnect the code is written for: the receiver is replaced
\* while the send loop is idle, the loop starts again after
\* SendUnacknowledgedEvents(), and no late request of a connection that broke
\* takes the receiver back.
Calm ==
  /\ SetApart
  /\ eventReceiver' # eventReceiver => loop = "idle" /\ eventReceiver' = current
  /\ (\E c \in Conn : handler[c].pc = "unacknowledged") => loop' = "idle"

CalmSpec == Init /\ [][Next /\ Calm]_vars

CalmFairSpec ==
  /\ CalmSpec
  /\ WF_vars(SendEvents /\ Calm)
  /\ \A c \in Conn : WF_vars(ProcessSubscriber(c) /\ Calm)
  /\ WF_vars(ProcessEvents /\ Calm)
  /\ WF_vars(AcknowledgeEvents /\ Calm)

-----------------------------------------------------------------------------
(* Properties                                                              *)

\* The client processes messages in the order of their seq, each once, and
\* every event of a message after every event of the messages before it, however
\* often messages are sent again or acknowledgements are late.
ProcessedInOrder ==
  \A i, j \in 1..Len(processed) : i < j =>
    /\ processed[i].seq < processed[j].seq
    /\ \A e \in Range(processed[i].events), f \in Range(processed[j].events) : e < f

\* The hub still has event e: not yet sent, about to be sent, or sent and kept.
Held(e) ==
  \/ e \in Range(unsentSyncEvents) \cup Range(syncEvents)
  \/ \E i \in 1..Len(sentEventMessages) : e \in Range(sentEventMessages[i].events)
  \/ loop = "store" /\ e \in Range(eventMessages[Len(eventMessages)].events)

\* The client has processed event e or a later one.
Passed(e) ==
  \E i \in 1..Len(processed) : \E f \in Range(processed[i].events) : e <= f

\* As long as a client queues events the hub keeps each until the client has
\* processed it or a later one: a wrong, late or repeated acknowledgement, a
\* disconnect or a race with the send loop never drops an event still to come.
RetainedUntilPassed ==
  queueEvents => \A e \in queuedSince + 1 .. published : Held(e) \/ Passed(e)

(* Why messages are in order: each, wherever it is or is copied to, carries  *)
(* the events of its seq, messages are ordered as their seqs, and the      *)
(* events not yet in a message come after all of them.                     *)

Messages ==
  Range(sentEventMessages) \cup Range(eventMessages) \cup Range(processed)
    \cup UNION {Range(events[c]) : c \in Conn}

Pending == Range(syncEvents) \cup Range(unsentSyncEvents)

Before(S, T) == \A e \in S, f \in T : e < f

\* All messages in the system, two by two.
MessagesOrdered ==
  \A m \in Messages :
    /\ 1 <= m.seq /\ m.seq <= eventCounter /\ m.events # <<>>
    /\ Before(Range(m.events), Pending)
    /\ \A e \in Range(m.events) : e <= published
    /\ \A n \in Messages :
         /\ m.seq < n.seq => Before(Range(m.events), Range(n.events))
         /\ m.seq = n.seq => m = n

\* What the send loop has at hand.
LoopShape ==
  /\ loop = "write" <=> syncEvents # <<>>
  /\ loop = "store" => eventMessages # <<>>

\* The events on their way into a message.
PendingOrdered ==
  /\ Before(Range(syncEvents), Range(unsentSyncEvents))
  /\ \A e \in Pending : e <= published

\* What the client processed, and what it acknowledges.
ClientOrdered ==
  /\ \A i, j \in 1..Len(processed) : i < j => processed[i].seq < processed[j].seq
  /\ IF processed = <<>> THEN lastEventSeq = 0
     ELSE lastEventSeq = processed[Len(processed)].seq
  /\ \A c \in Conn : /\ handler[c].ack <= lastEventSeq
                     /\ \A i \in 1..Len(requests[c]) : requests[c][i] <= lastEventSeq

\* The inductive invariant behind ProcessedInOrder.
OrderInv == TypeOK /\ LoopShape /\ MessagesOrdered /\ PendingOrdered /\ ClientOrdered

\* The events the client processed, as they came.
Delivered == [i \in 1..Len(processed) |-> processed[i].events]

Processed(e) == \E i \in 1..Len(processed) : e \in Range(processed[i].events)

\* The doc of ClientParam.queueEvents: with queueEvents the client misses no event,
\* whatever disconnects and reconnects happen in between.
NoEventSkipped ==
  queueEvents /\ dispatching = "QueueSend" =>
    \A e \in queuedSince + 1 .. published : Passed(e) => Processed(e)

\* While the connection does not break every event is processed, and the hub again
\* and again forgets all it keeps for the client: SendEvents(), ProcessEvents() and
\* the acknowledge timer leave nothing behind.
ConnectedProgress ==
  [](conn[1] = "open") =>
    /\ \A e \in 1..MaxEvents : published >= e ~> Processed(e)
    /\ []<>(sentEventMessages = <<>>)

\* Once the client stays connected, what was sent on a connection that broke is
\* sent again until the client has processed it.
SentIsProcessed ==
  dispatching = "QueueSend" /\ <>[](conn[current] = "open") =>
    \A n \in 1..MaxEvents :
      (\E i \in 1..Len(sentEventMessages) : sentEventMessages[i].seq = n)
        ~> lastEventSeq >= n

\* What the doc of queueEvents leaves open: a client that did not queue its events
\* all the time, and a hub that does not send them by itself.
Skips == ~queueEvents \/ toggles > 0 \/ dispatching = "Queue"

LossyLog == INSTANCE EventLog WITH lossy <- TRUE, delivered <- Delivered
FifoLog  == INSTANCE EventLog WITH lossy <- Skips, delivered <- Delivered

\* Whatever happens, delivery is a log of which the client may skip events but
\* which it reads in order: SendEvents() and ProcessEvents() together neither
\* reorder nor repeat an event.
ImplementsLossyLog == LossyLog!Spec

\* With queueEvents and a calm reconnect the client reads all of the log, unless
\* Skips tells why not.
ImplementsFifoLog == FifoLog!Spec
=============================================================================

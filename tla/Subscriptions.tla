--------------------------- MODULE Subscriptions ---------------------------
(***************************************************************************)
(* Who gets an event: the subscriptions of the clients in the              *)
(* EventDispatcher, and the requests that change and read them.            *)
(*                                                                         *)
(* All subscriptions are guarded by one lock (monitor).  Under it every    *)
(* change ends with UpdateSendClients(), which builds the immutable        *)
(* databaseSubsMap that requests read to find who gets their events.       *)
(* queueEvents and the eventReceiver of a client are read and written      *)
(* without it.  A step is what a request handler does inside the lock, or  *)
(* between two of its locks.                                               *)
(*                                                                         *)
(* overtaken is no state of the program: it remembers the clients that the *)
(* program loses in the two places where it tests and acts in different    *)
(* steps.  A request finds a client gone and removes it later, although it *)
(* came back in between (EventDispatcher.cs:448); or it removes a client   *)
(* between the two halves of std.Client (DatabaseService.std.cs:331).      *)
(***************************************************************************)
EXTENDS Naturals, FiniteSets

CONSTANTS
  Clients, Users, UserOf, GroupsOf,  \* the user of each client, the groups of each user
  Databases,
  Containers,
  Names,        \* names of messages
  Prefixes,     \* names that end with '*'
  StartsWith,   \* StartsWith[p]: the names of messages a prefix stands for
  Tasks,        \* Tasks[c]: the tasks client c sends, each a request of its own
  Conns,        \* Conns[c]: bound on the connections of c, opened one after the other
  MaxRequests,  \* bound on the number of requests
  Null

EntityChange == {"create", "upsert", "merge", "delete"}

\* A ChangeSub is its flags.  Its filter only selects among the entities of a created
\* or upserted event, and the event is sent even if none is left: no part of the model.
ChangeSub == (SUBSET EntityChange) \ {{}}

SubscribeMessageTask ==
  [type : {"subscribeMessage"}, name : Names \cup Prefixes, remove : BOOLEAN]
SubscribeChangesTask ==
  [type : {"subscribeChanges"}, container : Containers, changes : SUBSET EntityChange]
\* queueEvents: what the command std.Client carries
MessageTask ==
  [type : {"message"}, name : Names, queueEvents : {"null", "true", "false"},
   clients : (SUBSET Clients) \cup {Null}, users : (SUBSET Users) \cup {Null},
   groups : (SUBSET UNION {GroupsOf[u] : u \in Users}) \cup {Null}]
ChangeTask ==
  [type : EntityChange, container : Containers]

ASSUME ConstantsAssumption ==
  /\ UserOf \in [Clients -> Users]
  /\ StartsWith \in [Prefixes -> SUBSET Names]
  /\ Conns \in [Clients -> Nat \ {0}] /\ MaxRequests \in Nat
  /\ \A c \in Clients : \A t \in Tasks[c] :
                      \/ t \in SubscribeMessageTask \/ t \in SubscribeChangesTask
                      \/ t \in MessageTask \/ t \in ChangeTask

VARIABLES
  \* --- EventDispatcherIntern, guarded by monitor
  subClients,      \* the clients known to the dispatcher
  databaseSubs,    \* databaseSubs[c][d]: EventSubClient.databaseSubs
  sendClientsMap,  \* clients to which events are sent
  databaseSubsMap, \* databaseSubsMap[d]: a set of ClientDbSubs
  sendClients,     \* sendClientsMap as an array
  \* --- EventSubClient
  queueEvents,
  eventReceiver,   \* the connection events are sent to
  unsent,          \* unsent[c]: has it events not yet sent
  \* --- connections and requests
  connection,      \* the connections a client has opened so far; the last one counts
  open,            \* is it still open
  handler,         \* handler[h]: the request of connection h being executed
  requests,        \* number of requests so far
  overtaken        \* history: clients that are lost by one of the two races

internVars == <<subClients, databaseSubs, sendClientsMap, databaseSubsMap, sendClients>>
clientVars == <<queueEvents, eventReceiver, unsent>>
connVars   == <<connection, open>>
vars       == <<internVars, clientVars, connVars, handler, requests, overtaken>>
Connection == UNION {{c} \X (1..Conns[c]) : c \in Clients}

\* A DatabaseSubs: exact names, prefixes, and one ChangeSub for each container.
DatabaseSubs ==
  [messageSubs : SUBSET Names, messagePrefixSubs : SUBSET Prefixes,
   changeSubs : [Containers -> ChangeSub \cup {Null}]]
ClientDbSubs == [client : Clients, subs : DatabaseSubs]

TypeOK ==
  /\ subClients \subseteq Clients
  /\ databaseSubs \in [Clients -> [Databases -> DatabaseSubs \cup {Null}]]
  /\ sendClientsMap \subseteq subClients
  /\ databaseSubsMap \in [Databases -> SUBSET ClientDbSubs]
  /\ sendClients \subseteq Clients
  /\ queueEvents \in [Clients -> BOOLEAN]
  /\ eventReceiver \in [Clients -> Nat] /\ connection \in [Clients -> Nat]
  /\ \A c \in Clients : eventReceiver[c] <= Conns[c] /\ connection[c] \in 1..Conns[c]
  /\ unsent \in [Clients -> BOOLEAN]
  /\ open \in [Clients -> BOOLEAN]
  /\ requests \in 0..MaxRequests /\ overtaken \subseteq Clients
  /\ handler \in [Connection ->
       [pc : {"idle", "setQueueEvents", "enqueue", "target", "add", "loop", "remove"},
        task : (UNION {Tasks[c] : c \in Clients}) \cup {Null}, database : Databases \cup {Null},
        todo : SUBSET ClientDbSubs, client : Clients \cup {Null}]]

Idle == [pc |-> "idle", task |-> Null, database |-> Null, todo |-> {}, client |-> Null]

Init ==
  /\ subClients = {}
  /\ databaseSubs = [c \in Clients |-> [d \in Databases |-> Null]]
  /\ sendClientsMap = {}
  /\ databaseSubsMap = [d \in Databases |-> {}]
  /\ sendClients = {}
  /\ queueEvents = [c \in Clients |-> FALSE]
  /\ eventReceiver = [c \in Clients |-> 0]
  /\ unsent = [c \in Clients |-> FALSE]
  /\ connection = [c \in Clients |-> 1]
  /\ open = [c \in Clients |-> TRUE]
  /\ handler = [h \in Connection |-> Idle]
  /\ requests = 0 /\ overtaken = {}

\* EventSubClient.Connected
Connected(c) == eventReceiver[c] = connection[c] /\ open[c]

-----------------------------------------------------------------------------
(* EventDispatcherIntern                                                   *)

\* Mutant: the array is made before the map is changed.
UpdateSendClients_Early ==
  /\ databaseSubsMap' = [d \in Databases |->
       {[client |-> c, subs |-> databaseSubs'[c][d]] :
           c \in {x \in sendClientsMap' : databaseSubs'[x][d] # Null}}]
  /\ sendClients' = sendClientsMap

\* The subscriptions are copied: later changes do not reach a databaseSubsMap that
\* a request has read.
UpdateSendClients ==
  /\ databaseSubsMap' = [d \in Databases |->
       {[client |-> c, subs |-> databaseSubs'[c][d]] :
           c \in {x \in sendClientsMap' : databaseSubs'[x][d] # Null}}]
  /\ sendClients' = sendClientsMap'

\* A client that is known goes back to sendClientsMap, as a disconnect may have
\* removed it; a new one gets the connection as receiver.
GetOrCreateSubClient(h) ==
  /\ subClients' = subClients \cup {h[1]}
  /\ sendClientsMap' = sendClientsMap \cup {h[1]}
  /\ eventReceiver' = IF h[1] \in subClients THEN eventReceiver
                      ELSE [eventReceiver EXCEPT ![h[1]] = h[2]]

NoSubs == [messageSubs |-> {}, messagePrefixSubs |-> {},
           changeSubs |-> [k \in Containers |-> Null]]

\* The DatabaseSubs of c for database d, and the update to it.
SubsOf(c, d) == IF databaseSubs[c][d] = Null THEN NoSubs ELSE databaseSubs[c][d]
SetSubs(c, d, subs) == databaseSubs' = [databaseSubs EXCEPT ![c][d] = subs]

AddMessageSubscription(subs, name) ==
  IF name \in Prefixes THEN [subs EXCEPT !.messagePrefixSubs = @ \cup {name}]
                       ELSE [subs EXCEPT !.messageSubs = @ \cup {name}]

RemoveMessageSubscription(subs, name) ==
  IF name \in Prefixes THEN [subs EXCEPT !.messagePrefixSubs = @ \ {name}]
                       ELSE [subs EXCEPT !.messageSubs = @ \ {name}]

AddChangeSubscription(subs, t) ==
  [subs EXCEPT !.changeSubs[t.container] = t.changes]

RemoveChangeSubscription(subs, t) == [subs EXCEPT !.changeSubs[t.container] = Null]

\* Unsubscribing changes nothing if there is nothing to unsubscribe.
Unsubscribe(c, d, subs) ==
  /\ IF databaseSubs[c][d] = Null THEN UNCHANGED databaseSubs ELSE SetSubs(c, d, subs)
  /\ UNCHANGED <<subClients, sendClientsMap, eventReceiver>>

\* EventDispatcher.SubscribeMessage() and .SubscribeChanges()
SubscribeMessage(h, d, t) ==
  /\ t.type = "subscribeMessage"
  /\ IF t.remove
       THEN Unsubscribe(h[1], d, RemoveMessageSubscription(SubsOf(h[1], d), t.name))
       ELSE /\ GetOrCreateSubClient(h)
            /\ SetSubs(h[1], d, AddMessageSubscription(SubsOf(h[1], d), t.name))
  /\ UpdateSendClients
  /\ UNCHANGED queueEvents

SubscribeChanges(h, d, t) ==
  /\ t.type = "subscribeChanges"
  /\ IF t.changes = {}
       THEN Unsubscribe(h[1], d, RemoveChangeSubscription(SubsOf(h[1], d), t))
       ELSE /\ GetOrCreateSubClient(h)
            /\ SetSubs(h[1], d, AddChangeSubscription(SubsOf(h[1], d), t))
  /\ UpdateSendClients
  /\ UNCHANGED queueEvents

\* The command std.Client { queueEvents }, up to the lock.
SetQueueEvents(h, t) ==
  /\ t.type = "message" /\ t.queueEvents # "null"
  /\ IF t.queueEvents = "true"
       THEN /\ GetOrCreateSubClient(h) /\ UNCHANGED <<databaseSubs, queueEvents>>
            /\ UpdateSendClients
       ELSE /\ queueEvents' = [queueEvents EXCEPT ![h[1]] = FALSE]
            /\ UNCHANGED <<internVars, eventReceiver>>

\* All other tasks: what they do is not about events.
OtherTask(t) ==
  /\ t.type \in EntityChange \/ (t.type = "message" /\ t.queueEvents = "null")
  /\ UNCHANGED <<internVars, queueEvents, eventReceiver>>

-----------------------------------------------------------------------------
(* A request: FlioxHub.ExecuteRequestAsync()                               *)

Go(h, pc) == handler' = [handler EXCEPT ![h].pc = pc]

\* A client sends a request with one task on its current connection.
ExecuteTask(h) ==
  /\ handler[h].pc = "idle" /\ requests < MaxRequests
  /\ h[2] = connection[h[1]] /\ open[h[1]]
  /\ requests' = requests + 1
  /\ \E d \in Databases, t \in Tasks[h[1]] :
       /\ \/ SubscribeMessage(h, d, t) \/ SubscribeChanges(h, d, t)
          \/ SetQueueEvents(h, t) \/ OtherTask(t)
       /\ handler' = [handler EXCEPT ![h] =
            [pc |-> IF t.type = "message" /\ t.queueEvents = "true"
                      THEN "setQueueEvents" ELSE "enqueue",
             task |-> t, database |-> d, todo |-> {}, client |-> Null]]
  /\ UNCHANGED <<unsent, connVars>>

\* The second half of std.Client { queueEvents: true }, outside of the lock.
AssignQueueEvents(h) ==
  /\ handler[h].pc = "setQueueEvents"
  /\ queueEvents' = [queueEvents EXCEPT ![h[1]] = TRUE]
  /\ Go(h, "enqueue")
  /\ UNCHANGED <<internVars, eventReceiver, unsent, connVars, requests>>

\* EnqueueSyncTasks()
GetSubClientAndDatabaseSubs(h) ==
  /\ handler[h].pc = "enqueue"
  /\ handler' = [handler EXCEPT
       ![h].pc = IF h[1] \in subClients THEN "target" ELSE "loop",
       ![h].todo = databaseSubsMap[handler[h].database]]
  /\ UNCHANGED <<internVars, clientVars, connVars, requests>>

\* Mutant: a client that comes back on a new connection gets its new receiver only.
ProcessSubscriber_NoAdd(h) ==
  /\ handler[h].pc \in {"target", "add"}
  /\ eventReceiver' = [eventReceiver EXCEPT ![h[1]] = h[2]]
  /\ Go(h, "loop")
  /\ UNCHANGED <<internVars, queueEvents, unsent, connVars, requests>>

\* UpdateTarget(), and if the receiver is new the lock in which the client is added.
ProcessSubscriber(h) ==
  \/ /\ handler[h].pc = "target"
     /\ eventReceiver' = [eventReceiver EXCEPT ![h[1]] = h[2]]
     /\ Go(h, IF eventReceiver[h[1]] = h[2] THEN "loop" ELSE "add")
     /\ UNCHANGED <<internVars, queueEvents, unsent, connVars, requests>>
  \/ /\ handler[h].pc = "add"
     /\ sendClientsMap' = sendClientsMap \cup {h[1]}
     /\ UNCHANGED <<subClients, databaseSubs>>
     /\ UpdateSendClients
     /\ Go(h, "loop")
     /\ UNCHANGED <<clientVars, connVars, requests>>

-----------------------------------------------------------------------------
(* What is subscribed: DatabaseSubs.CreateEventTasks()                     *)

FilterMessage(subs, name) ==
  \/ name \in subs.messageSubs
  \/ \E p \in subs.messagePrefixSubs : name \in StartsWith[p]

\* A message without targets is for everybody.
IsEventTarget(c, t) ==
  \/ t.clients # Null /\ c \in t.clients
  \/ t.users # Null /\ UserOf[c] \in t.users
  \/ t.groups # Null /\ GroupsOf[UserOf[c]] \cap t.groups # {}
  \/ t.clients = Null /\ t.users = Null /\ t.groups = Null

FilterChanges(sub, t) == sub # Null /\ t.type \in sub

CreateEventTasks(subs, c, t) ==
  CASE t.type \in EntityChange -> FilterChanges(subs.changeSubs[t.container], t)
    [] t.type = "message"      -> IsEventTarget(c, t) /\ FilterMessage(subs, t.name)

\* FilterSubscribableTasks(): the tasks that make events.
Subscribable(t) == t.type \in EntityChange \cup {"message"}

-----------------------------------------------------------------------------
(* EnqueueSyncTasks(), the loop                                            *)

\* A client that is gone and queues no events is removed, in a lock of its own;
\* the others get the event.
EnqueueSyncEvent(h) ==
  /\ handler[h].pc = "loop" /\ Subscribable(handler[h].task)
  /\ \E e \in handler[h].todo :
       IF ~queueEvents[e.client] /\ ~Connected(e.client)
         THEN /\ handler' = [handler EXCEPT ![h].pc = "remove", ![h].client = e.client,
                                             ![h].todo = @ \ {e}]
              /\ UNCHANGED unsent
         ELSE /\ handler' = [handler EXCEPT ![h].todo = @ \ {e}]
              /\ unsent' = [unsent EXCEPT ![e.client] =
                   @ \/ CreateEventTasks(e.subs, e.client, handler[h].task)]
  /\ UNCHANGED <<internVars, queueEvents, eventReceiver, connVars, requests>>

\* Mutant: what the requests read stays as it is.
RemoveSendClient_Stale(h) ==
  /\ handler[h].pc = "remove"
  /\ sendClientsMap' = sendClientsMap \ {handler[h].client}
  /\ UNCHANGED <<subClients, databaseSubs, databaseSubsMap, sendClients>>
  /\ handler' = [handler EXCEPT ![h].pc = "loop", ![h].client = Null]
  /\ UNCHANGED <<clientVars, connVars, requests>>

RemoveSendClient(h) ==
  /\ handler[h].pc = "remove"
  /\ sendClientsMap' = sendClientsMap \ {handler[h].client}
  /\ UNCHANGED <<subClients, databaseSubs>>
  /\ UpdateSendClients
  /\ handler' = [handler EXCEPT ![h].pc = "loop", ![h].client = Null]
  /\ UNCHANGED <<clientVars, connVars, requests>>

EndRequest(h) ==
  /\ handler[h].pc = "loop"
  /\ handler[h].todo = {} \/ ~Subscribable(handler[h].task)
  /\ handler' = [handler EXCEPT ![h] = Idle]
  /\ UNCHANGED <<internVars, clientVars, connVars, requests>>

EnqueueSyncTasks(h) ==
  \/ AssignQueueEvents(h) \/ GetSubClientAndDatabaseSubs(h) \/ ProcessSubscriber(h)
  \/ EnqueueSyncEvent(h) \/ RemoveSendClient(h) \/ EndRequest(h)

\* With EventDispatching.Queue the application sends what sendClients have: one of
\* them in a step.  What cannot be sent is kept or dropped (module EventDelivery).
SendQueuedEvents(c) ==
  /\ c \in sendClients /\ unsent[c]
  /\ Connected(c) \/ ~queueEvents[c]
  /\ unsent' = [unsent EXCEPT ![c] = FALSE]
  /\ UNCHANGED <<internVars, queueEvents, eventReceiver, connVars, handler, requests>>

-----------------------------------------------------------------------------
Disconnect(c) ==
  /\ open[c]
  /\ open' = [open EXCEPT ![c] = FALSE]
  /\ UNCHANGED <<internVars, clientVars, connection, handler, requests>>

Reconnect(c) ==
  /\ ~open[c] /\ connection[c] < Conns[c]
  /\ connection' = [connection EXCEPT ![c] = @ + 1]
  /\ open' = [open EXCEPT ![c] = TRUE]
  /\ UNCHANGED <<internVars, clientVars, handler, requests>>

-----------------------------------------------------------------------------
(* The clients that are lost                                               *)

\* The clients to which the summary of sendClientsMap promises events.
Eligible(c) == c \in subClients /\ (Connected(c) \/ queueEvents[c])

\* A request has found the client gone, or the client is between the halves of std.Client.
AboutToBeRemoved(c) == \E h \in Connection : handler[h].pc = "remove" /\ handler[h].client = c
Halfway(c) == \E n \in 1..Conns[c] : handler[<<c, n>>].pc = "setQueueEvents"

\* A client is overtaken from the step that makes it eligible with its removal under way,
\* or removes it halfway, until it is a send client that nobody is about to remove.
Observe ==
  overtaken' = {c \in Clients :
    \/ ~Eligible(c) /\ Eligible(c)' /\ AboutToBeRemoved(c)
    \/ Halfway(c) /\ c \in sendClientsMap \ sendClientsMap'
    \/ c \in overtaken /\ ~(c \in sendClientsMap' /\ ~AboutToBeRemoved(c)')}

Step ==
  \/ \E h \in Connection : ExecuteTask(h) \/ EnqueueSyncTasks(h)
  \/ \E c \in Clients : SendQueuedEvents(c) \/ Disconnect(c) \/ Reconnect(c)

Next == Step /\ Observe

Spec == Init /\ [][Next]_vars

\* Requests are executed, and the application sends the queued events.
FairSpec ==
  /\ Spec
  /\ \A h \in Connection : WF_vars(EnqueueSyncTasks(h) /\ Observe)
  /\ \A c \in Clients : WF_vars(SendQueuedEvents(c) /\ Observe)

-----------------------------------------------------------------------------
(* Properties                                                              *)

\* What a request reads, without the lock, is what the clients have subscribed and who
\* is eligible: no subscription, unsubscription or removal is left out.
SubsMapExact ==
  /\ TypeOK
  /\ sendClients = sendClientsMap
  /\ \A d \in Databases : databaseSubsMap[d] =
       {[client |-> c, subs |-> databaseSubs[c][d]] :
           c \in {x \in sendClientsMap : databaseSubs[x][d] # Null}}

\* The request of the client that made it connected is about to put it back.
Rejoining(c) == \E n \in 1..Conns[c] : handler[<<c, n>>].pc = "add"

\* Every eligible client is among those to which events are sent, or was overtaken: a
\* client that came back, or queues its events, misses none unless it came back between
\* the test that it is gone and its removal, or was removed halfway in std.Client.
EligibleIsSendClient ==
  \A c \in Clients :
    Eligible(c) /\ ~Rejoining(c) => c \in sendClientsMap \/ c \in overtaken

\* With EventDispatching.Queue the events of a client that stays connected are sent.
QueuedIsSent ==
  \A c \in Clients :
    <>[](Connected(c) /\ handler[<<c, connection[c]>>].pc = "idle" /\ c \notin overtaken)
      => (unsent[c] ~> ~unsent[c])
=============================================================================

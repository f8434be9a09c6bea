------------------------ MODULE SubscriptionsProofs ------------------------
(***************************************************************************)
(* For any number of clients, connections, subscriptions and requests:     *)
(* what a request reads without the lock is what is subscribed; and every  *)
(* eligible client is one of those to which events are sent, or was lost   *)
(* by one of the two races of the code.                                    *)
(***************************************************************************)
EXTENDS Subscriptions, TLAPS

\* What databaseSubsMap holds for d if it is up to date.
Subscribers(d) ==
  {[client |-> c, subs |-> databaseSubs[c][d]] :
      c \in {x \in sendClientsMap : databaseSubs[x][d] # Null}}

\* The requests a connection may be executing.
Request ==
  [pc : {"idle", "setQueueEvents", "enqueue", "target", "add", "loop", "remove"},
   task : (UNION {Tasks[c] : c \in Clients}) \cup {Null}, database : Databases \cup {Null},
   todo : SUBSET ClientDbSubs, client : Clients \cup {Null}]

\* What the dispatcher keeps under its lock, apart from what it makes of that.
SharedOK ==
  /\ subClients \subseteq Clients
  /\ databaseSubs \in [Clients -> [Databases -> DatabaseSubs \cup {Null}]]
  /\ sendClientsMap \subseteq subClients

\* What it makes of it.
MadeExact ==
  /\ sendClients = sendClientsMap
  /\ databaseSubsMap \in [Databases -> SUBSET ClientDbSubs]
  /\ \A d \in Databases : databaseSubsMap[d] = Subscribers(d)

\* What belongs to clients, connections and requests.
ClientsOK ==
  /\ queueEvents \in [Clients -> BOOLEAN]
  /\ eventReceiver \in [Clients -> Nat] /\ connection \in [Clients -> Nat]
  /\ \A c \in Clients : eventReceiver[c] <= Conns[c] /\ connection[c] \in 1..Conns[c]
  /\ unsent \in [Clients -> BOOLEAN] /\ open \in [Clients -> BOOLEAN]
  /\ requests \in 0..MaxRequests
  /\ handler \in [Connection -> Request]

\* What is known of a request under way.
RequestsValid ==
  \A h \in Connection : handler[h].pc # "idle" =>
    /\ handler[h].database \in Databases
    /\ handler[h].pc \in {"target", "add"} => h[1] \in subClients
    /\ handler[h].pc = "remove" => handler[h].client \in Clients

\* The history variable.
HistoryOK == overtaken \subseteq Clients

\* The inductive invariant.
Inv == SharedOK /\ MadeExact /\ ClientsOK /\ RequestsValid /\ HistoryOK

\* It holds what the run checks.
LEMMA InvExact == Inv => SubsMapExact
<1>1. SharedOK /\ sendClients = sendClientsMap => sendClients \subseteq Clients
  BY DEF SharedOK
<1> QED BY <1>1 DEF Inv, SubsMapExact, TypeOK, SharedOK, MadeExact, ClientsOK, HistoryOK,
                    Subscribers, Request

\* Only clients are observed.
LEMMA ObservedClients == Observe => HistoryOK'
BY DEF Observe, HistoryOK

-----------------------------------------------------------------------------
(* The operators of the model                                              *)

\* A connection is a client and the number of one of its connections.
LEMMA ConnectionShape ==
  ASSUME NEW h \in Connection
  PROVE  /\ h[1] \in Clients /\ h[2] \in 1..Conns[h[1]]
         /\ h[2] \in Nat /\ h[2] <= Conns[h[1]] /\ h = <<h[1], h[2]>>
<1>1. PICK c \in Clients : h \in {c} \X (1..Conns[c])
  BY DEF Connection
<1>2. Conns[c] \in Nat
  BY ConstantsAssumption
<1> QED BY <1>1, <1>2

\* Every client and every number of one of its connections is a connection.
LEMMA ConnectionOf ==
  ASSUME NEW c \in Clients, NEW n \in 1..Conns[c]
  PROVE  <<c, n>> \in Connection
BY DEF Connection

\* UpdateSendClients() makes what requests read of what is subscribed.
LEMMA UpdateSendClientsExact ==
  ASSUME databaseSubs' \in [Clients -> [Databases -> DatabaseSubs \cup {Null}]],
         sendClientsMap' \subseteq Clients,
         UpdateSendClients
  PROVE  /\ sendClients' = sendClientsMap'
         /\ databaseSubsMap' \in [Databases -> SUBSET ClientDbSubs]
         /\ \A d \in Databases : databaseSubsMap'[d] = Subscribers(d)'
<1>1. /\ sendClients' = sendClientsMap'
      /\ databaseSubsMap' = [d \in Databases |-> Subscribers(d)']
  BY DEF UpdateSendClients, Subscribers
<1>2. ASSUME NEW d \in Databases PROVE Subscribers(d)' \in SUBSET ClientDbSubs
  BY DEF Subscribers, ClientDbSubs
<1> HIDE DEF Subscribers
<1> QED BY <1>1, <1>2

\* The DatabaseSubs a subscription starts from.
LEMMA SubsOfType ==
  ASSUME databaseSubs \in [Clients -> [Databases -> DatabaseSubs \cup {Null}]],
         NEW c \in Clients, NEW d \in Databases
  PROVE  SubsOf(c, d) \in DatabaseSubs
BY DEF SubsOf, NoSubs, DatabaseSubs

\* Subscribing and unsubscribing messages makes a DatabaseSubs.
LEMMA MessageSubscriptionType ==
  ASSUME NEW subs \in DatabaseSubs, NEW name \in Names \cup Prefixes
  PROVE  /\ AddMessageSubscription(subs, name) \in DatabaseSubs
         /\ RemoveMessageSubscription(subs, name) \in DatabaseSubs
BY DEF AddMessageSubscription, RemoveMessageSubscription, DatabaseSubs

\* Subscribing and unsubscribing changes makes a DatabaseSubs.
LEMMA ChangeSubscriptionType ==
  ASSUME NEW subs \in DatabaseSubs, NEW t \in SubscribeChangesTask
  PROVE  /\ t.changes # {} => AddChangeSubscription(subs, t) \in DatabaseSubs
         /\ RemoveChangeSubscription(subs, t) \in DatabaseSubs
<1>1. t.container \in Containers /\ t.changes \in SUBSET EntityChange
  BY DEF SubscribeChangesTask
<1>2. t.changes # {} => t.changes \in ChangeSub
  BY <1>1 DEF ChangeSub
<1>3. subs \in [messageSubs : SUBSET Names, messagePrefixSubs : SUBSET Prefixes,
                changeSubs : [Containers -> ChangeSub \cup {Null}]]
  BY DEF DatabaseSubs
<1>4. ASSUME NEW v \in ChangeSub \cup {Null}
      PROVE  [subs EXCEPT !.changeSubs[t.container] = v] \in DatabaseSubs
  BY <1>1, <1>3, <1>4 DEF DatabaseSubs
<1> QED BY <1>2, <1>4 DEF AddChangeSubscription, RemoveChangeSubscription

-----------------------------------------------------------------------------
(* A task of a request                                                     *)

\* The effect all tasks have in common: databaseSubs keeps its type, clients are only
\* added, and a client is new or gets a new receiver only if it is a send client.
TaskEffect(h) ==
  /\ subClients' \subseteq Clients /\ subClients \subseteq subClients'
  /\ sendClientsMap \subseteq sendClientsMap' /\ sendClientsMap' \subseteq subClients'
  /\ databaseSubs' \in [Clients -> [Databases -> DatabaseSubs \cup {Null}]]
  /\ \/ eventReceiver' = eventReceiver
     \/ eventReceiver' = [eventReceiver EXCEPT ![h[1]] = h[2]] /\ h[1] \in sendClientsMap'
  /\ subClients' \subseteq subClients \cup sendClientsMap'

\* A client that subscribes is known, and is a send client.
LEMMA GetOrCreateEffect ==
  ASSUME TypeOK, NEW h \in Connection, GetOrCreateSubClient(h),
         databaseSubs' \in [Clients -> [Databases -> DatabaseSubs \cup {Null}]]
  PROVE  TaskEffect(h) /\ h[1] \in sendClientsMap'
BY ConnectionShape DEF TypeOK, GetOrCreateSubClient, TaskEffect

\* Unsubscribing changes only what is subscribed.
LEMMA UnsubscribeEffect ==
  ASSUME TypeOK, NEW h \in Connection, NEW d \in Databases, NEW subs \in DatabaseSubs,
         Unsubscribe(h[1], d, subs)
  PROVE  TaskEffect(h)
<1>1. databaseSubs' \in [Clients -> [Databases -> DatabaseSubs \cup {Null}]]
  <2>1. h[1] \in Clients /\ databaseSubs \in [Clients -> [Databases -> DatabaseSubs \cup {Null}]]
    BY ConnectionShape DEF TypeOK
  <2>2. \/ databaseSubs' = databaseSubs
        \/ databaseSubs' = [databaseSubs EXCEPT ![h[1]][d] = subs]
    BY DEF Unsubscribe, SetSubs
  <2> QED BY <2>1, <2>2
<1> QED BY <1>1 DEF TypeOK, Unsubscribe, TaskEffect

\* So does subscribing, which adds the client if need be.
LEMMA SubscribeEffect ==
  ASSUME TypeOK, NEW h \in Connection, NEW d \in Databases, NEW subs \in DatabaseSubs,
         GetOrCreateSubClient(h), SetSubs(h[1], d, subs)
  PROVE  TaskEffect(h)
<1>1. databaseSubs' \in [Clients -> [Databases -> DatabaseSubs \cup {Null}]]
  BY ConnectionShape DEF TypeOK, SetSubs
<1> QED BY <1>1, GetOrCreateEffect

\* The task of a request changes what is subscribed and what requests read together.
TaskDone(h, t) ==
  /\ TaskEffect(h)
  /\ UpdateSendClients \/ UNCHANGED internVars
  /\ queueEvents' \in [Clients -> BOOLEAN]
  /\ \A c \in Clients : queueEvents'[c] => queueEvents[c]
  /\ t.type = "message" /\ t.queueEvents = "true" => h[1] \in sendClientsMap'

\* Every task does.
LEMMA TaskStep ==
  ASSUME TypeOK, NEW h \in Connection, NEW d \in Databases, NEW t \in Tasks[h[1]],
         \/ SubscribeMessage(h, d, t) \/ SubscribeChanges(h, d, t)
         \/ SetQueueEvents(h, t) \/ OtherTask(t)
  PROVE  TaskDone(h, t)
<1>1. /\ h[1] \in Clients
      /\ \/ t \in SubscribeMessageTask \/ t \in SubscribeChangesTask
         \/ t \in MessageTask \/ t \in ChangeTask
  BY ConnectionShape, ConstantsAssumption
<1>2. queueEvents \in [Clients -> BOOLEAN]
  BY DEF TypeOK
<1>3. SubsOf(h[1], d) \in DatabaseSubs
  BY <1>1, SubsOfType DEF TypeOK
<1>4. UNCHANGED <<internVars, eventReceiver>> => TaskEffect(h)
  BY DEF TypeOK, TaskEffect, internVars
<1>5. CASE SubscribeMessage(h, d, t)
  <2>1. t \in SubscribeMessageTask
    BY <1>1, <1>5 DEF SubscribeMessage, SubscribeChangesTask, MessageTask, ChangeTask, EntityChange
  <2>2. t.name \in Names \cup Prefixes
    BY <2>1 DEF SubscribeMessageTask
  <2>3. /\ AddMessageSubscription(SubsOf(h[1], d), t.name) \in DatabaseSubs
        /\ RemoveMessageSubscription(SubsOf(h[1], d), t.name) \in DatabaseSubs
    BY <1>3, <2>2, MessageSubscriptionType
  <2>4. TaskEffect(h)
    <3>1. CASE t.remove
      BY <1>5, <2>3, <3>1, UnsubscribeEffect DEF SubscribeMessage
    <3>2. CASE ~t.remove
      BY <1>5, <2>3, <3>2, SubscribeEffect DEF SubscribeMessage
    <3> QED BY <3>1, <3>2
  <2>5. UpdateSendClients /\ queueEvents' = queueEvents /\ t.type # "message"
    BY <1>5 DEF SubscribeMessage
  <2> QED BY <1>2, <2>4, <2>5 DEF TaskDone
<1>6. CASE SubscribeChanges(h, d, t)
  <2>1. t \in SubscribeChangesTask
    BY <1>1, <1>6 DEF SubscribeChanges, SubscribeMessageTask, MessageTask, ChangeTask, EntityChange
  <2>2. /\ t.changes # {} => AddChangeSubscription(SubsOf(h[1], d), t) \in DatabaseSubs
        /\ RemoveChangeSubscription(SubsOf(h[1], d), t) \in DatabaseSubs
    BY <1>3, <2>1, ChangeSubscriptionType
  <2>3. TaskEffect(h)
    <3>1. CASE t.changes = {}
      BY <1>6, <2>2, <3>1, UnsubscribeEffect DEF SubscribeChanges
    <3>2. CASE t.changes # {}
      BY <1>6, <2>2, <3>2, SubscribeEffect DEF SubscribeChanges
    <3> QED BY <3>1, <3>2
  <2>4. UpdateSendClients /\ queueEvents' = queueEvents /\ t.type # "message"
    BY <1>6 DEF SubscribeChanges
  <2> QED BY <1>2, <2>3, <2>4 DEF TaskDone
<1>7. CASE SetQueueEvents(h, t)
  <2>1. CASE t.queueEvents = "true"
    <3>1. /\ GetOrCreateSubClient(h) /\ databaseSubs' = databaseSubs /\ queueEvents' = queueEvents
          /\ UpdateSendClients
      BY <1>7, <2>1 DEF SetQueueEvents
    <3>2. TaskEffect(h) /\ h[1] \in sendClientsMap'
      BY <3>1, GetOrCreateEffect DEF TypeOK
    <3> QED BY <1>2, <3>1, <3>2 DEF TaskDone
  <2>2. CASE t.queueEvents # "true"
    <3>1. /\ queueEvents' = [queueEvents EXCEPT ![h[1]] = FALSE]
          /\ UNCHANGED <<internVars, eventReceiver>>
      BY <1>7, <2>2 DEF SetQueueEvents
    <3> QED BY <1>1, <1>2, <1>4, <2>2, <3>1 DEF TaskDone
  <2> QED BY <2>1, <2>2
<1>8. CASE OtherTask(t)
  <2>1. /\ UNCHANGED <<internVars, eventReceiver>> /\ queueEvents' = queueEvents
        /\ ~(t.type = "message" /\ t.queueEvents = "true")
    BY <1>8 DEF OtherTask, EntityChange
  <2> QED BY <1>2, <1>4, <2>1 DEF TaskDone
<1> QED BY <1>5, <1>6, <1>7, <1>8

-----------------------------------------------------------------------------
(* How the parts of the invariant are kept                                 *)

\* A change under the lock that ends with UpdateSendClients() leaves both in order.
LEMMA UpdateKeepsExact ==
  ASSUME SharedOK', UpdateSendClients
  PROVE  MadeExact'
<1>1. /\ databaseSubs' \in [Clients -> [Databases -> DatabaseSubs \cup {Null}]]
      /\ sendClientsMap' \subseteq Clients
  BY DEF SharedOK
<1>2. /\ sendClients' = sendClientsMap'
      /\ databaseSubsMap' \in [Databases -> SUBSET ClientDbSubs]
      /\ \A d \in Databases : databaseSubsMap'[d] = Subscribers(d)'
  BY <1>1, UpdateSendClientsExact
<1> HIDE DEF Subscribers
<1> QED BY <1>2 DEF MadeExact

\* A step that does not touch what the lock guards leaves both in order too.
LEMMA InternUnchanged ==
  ASSUME SharedOK, MadeExact, UNCHANGED internVars
  PROVE  SharedOK' /\ MadeExact'
BY DEF SharedOK, MadeExact, Subscribers, internVars

\* A request is made of its parts.
LEMMA RequestOf ==
  ASSUME NEW pc \in {"idle", "setQueueEvents", "enqueue", "target", "add", "loop", "remove"},
         NEW task \in (UNION {Tasks[c] : c \in Clients}) \cup {Null},
         NEW database \in Databases \cup {Null}
  PROVE  [pc |-> pc, task |-> task, database |-> database, todo |-> {},
          client |-> Null] \in Request
<1> DEFINE P == {"idle", "setQueueEvents", "enqueue", "target", "add", "loop", "remove"}
           T == (UNION {Tasks[c] : c \in Clients}) \cup {Null}
           D == Databases \cup {Null}
           S == SUBSET ClientDbSubs
           C == Clients \cup {Null}
<1>1. pc \in P /\ task \in T /\ database \in D /\ Null \in C
  OBVIOUS
<1>2. {} \in S
  <2>1. {} \subseteq ClientDbSubs
    OBVIOUS
  <2> QED BY <2>1
<1>3. Request = [pc : P, task : T, database : D, todo : S, client : C]
  BY DEF Request
<1> HIDE DEF P, T, D, S, C
<1> QED BY <1>1, <1>2, <1>3

\* No request is one too.
LEMMA IdleType == Idle \in Request
<1> DEFINE T == (UNION {Tasks[c] : c \in Clients}) \cup {Null}
           D == Databases \cup {Null}
<1>1. Null \in T /\ Null \in D
  OBVIOUS
<1>2. \A task \in T, database \in D :
        [pc |-> "idle", task |-> task, database |-> database, todo |-> {},
         client |-> Null] \in Request
  BY RequestOf
<1> HIDE DEF T, D, Request
<1> QED BY <1>1, <1>2 DEF Idle

\* Nothing is subscribed at the start.
LEMMA InitInv == Init => Inv
<1> SUFFICES ASSUME Init PROVE Inv
  OBVIOUS
<1>1. SharedOK
  BY DEF Init, SharedOK
<1>2. MadeExact
  <2>1. \A d \in Databases : Subscribers(d) = {}
    BY DEF Init, Subscribers
  <2> HIDE DEF Subscribers
  <2> QED BY <2>1 DEF Init, MadeExact
<1>3. ClientsOK
  <2>1. \A c \in Clients : Conns[c] \in Nat \ {0}
    BY ConstantsAssumption
  <2>2. MaxRequests \in Nat
    BY ConstantsAssumption
  <2>3. Idle \in Request
    BY IdleType
  <2>4. \A c \in Clients : eventReceiver[c] <= Conns[c] /\ connection[c] \in 1..Conns[c]
    BY <2>1 DEF Init
  <2> HIDE DEF Idle, Request
  <2> QED BY <2>2, <2>3, <2>4 DEF Init, ClientsOK
<1>4. RequestsValid
  BY DEF Init, RequestsValid, Idle
<1>5. HistoryOK
  BY DEF Init, HistoryOK
<1> QED BY <1>1, <1>2, <1>3, <1>4, <1>5 DEF Inv

\* The task of a request keeps what is shared in order.
LEMMA TaskKeepsShared ==
  ASSUME SharedOK, MadeExact, NEW h, NEW t, TaskDone(h, t)
  PROVE  SharedOK' /\ MadeExact'
<1>1. SharedOK'
  <2>1. sendClientsMap' \subseteq subClients' /\ subClients' \subseteq Clients
    BY DEF TaskDone, TaskEffect
  <2> QED BY <2>1 DEF TaskDone, TaskEffect, SharedOK
<1>2. CASE UpdateSendClients
  BY <1>1, <1>2, UpdateKeepsExact
<1>3. CASE UNCHANGED internVars
  BY <1>3, InternUnchanged
<1> QED BY <1>1, <1>2, <1>3 DEF TaskDone

\* The next request of a connection is in order if the connection's handler is and
\* no client is forgotten.
LEMMA RequestsKept ==
  ASSUME ClientsOK, RequestsValid, NEW h \in Connection, NEW r \in Request,
         handler' = [handler EXCEPT ![h] = r],
         subClients \subseteq subClients',
         r.pc # "idle" => r.database \in Databases,
         r.pc \in {"target", "add"} => h[1] \in subClients',
         r.pc = "remove" => r.client \in Clients
  PROVE  handler' \in [Connection -> Request] /\ RequestsValid'
<1>1. handler' \in [Connection -> Request]
  BY DEF ClientsOK
<1>2. ASSUME NEW g \in Connection, handler'[g].pc # "idle"
      PROVE  /\ handler'[g].database \in Databases
             /\ handler'[g].pc \in {"target", "add"} => g[1] \in subClients'
             /\ handler'[g].pc = "remove" => handler'[g].client \in Clients
  <2>1. CASE g = h
    <3>1. handler'[g] = r
      BY <2>1 DEF ClientsOK
    <3> QED BY <1>2, <2>1, <3>1
  <2>2. CASE g # h
    <3>1. handler'[g] = handler[g]
      BY <2>2 DEF ClientsOK
    <3> QED BY <1>2, <3>1 DEF RequestsValid
  <2> QED BY <2>1, <2>2
<1> QED BY <1>1, <1>2 DEF RequestsValid

\* What a request of h became is a request again.
LEMMA RequestChange ==
  ASSUME ClientsOK, NEW h \in Connection,
         NEW pc \in {"idle", "setQueueEvents", "enqueue", "target", "add", "loop", "remove"},
         NEW todo \in SUBSET ClientDbSubs, NEW client \in Clients \cup {Null}
  PROVE  /\ handler[h] \in Request
         /\ [handler[h] EXCEPT !.pc = pc] \in Request
         /\ [handler[h] EXCEPT !.pc = pc, !.todo = todo] \in Request
         /\ [handler[h] EXCEPT !.pc = pc, !.client = client] \in Request
         /\ [handler[h] EXCEPT !.pc = pc, !.client = client, !.todo = todo] \in Request
<1> DEFINE T == (UNION {Tasks[c] : c \in Clients}) \cup {Null}
           D == Databases \cup {Null}
           S == SUBSET ClientDbSubs
           C == Clients \cup {Null}
           P == {"idle", "setQueueEvents", "enqueue", "target", "add", "loop", "remove"}
<1>1. pc \in P /\ todo \in S /\ client \in C
  OBVIOUS
<1>2. Request = [pc : P, task : T, database : D, todo : S, client : C]
  BY DEF Request
<1>3. handler[h] \in Request
  BY DEF ClientsOK
<1> HIDE DEF T, D, S, C, P
<1> QED BY <1>1, <1>2, <1>3

-----------------------------------------------------------------------------
(* Every step preserves the invariant                                      *)

\* A request arrives and its task is executed.
LEMMA ExecuteTaskInv ==
  ASSUME Inv, Observe, NEW h \in Connection, ExecuteTask(h)
  PROVE  Inv'
<1>1. SharedOK /\ MadeExact /\ ClientsOK /\ RequestsValid /\ TypeOK
  BY InvExact DEF Inv, SubsMapExact
<1>2. PICK d \in Databases, t \in Tasks[h[1]] :
        /\ \/ SubscribeMessage(h, d, t) \/ SubscribeChanges(h, d, t)
           \/ SetQueueEvents(h, t) \/ OtherTask(t)
        /\ handler' = [handler EXCEPT ![h] =
             [pc |-> IF t.type = "message" /\ t.queueEvents = "true"
                       THEN "setQueueEvents" ELSE "enqueue",
              task |-> t, database |-> d, todo |-> {}, client |-> Null]]
  BY DEF ExecuteTask
<1>3. TaskDone(h, t)
  BY <1>1, <1>2, TaskStep
<1>4. SharedOK' /\ MadeExact'
  BY <1>1, <1>3, TaskKeepsShared
<1>5. handler' \in [Connection -> Request] /\ RequestsValid'
  <2> DEFINE r == [pc |-> IF t.type = "message" /\ t.queueEvents = "true"
                            THEN "setQueueEvents" ELSE "enqueue",
                   task |-> t, database |-> d, todo |-> {}, client |-> Null]
  <2>1. t \in UNION {Tasks[c] : c \in Clients}
    BY ConnectionShape
  <2>2. r.pc \in {"setQueueEvents", "enqueue"} /\ r.database = d
    OBVIOUS
  <2>3. r \in Request
    <3>1. \A pc \in {"setQueueEvents", "enqueue"} :
            [pc |-> pc, task |-> t, database |-> d, todo |-> {}, client |-> Null] \in Request
      BY <2>1, RequestOf
    <3> HIDE DEF Request
    <3> QED BY <3>1
  <2>4. subClients \subseteq subClients'
    BY <1>3 DEF TaskDone, TaskEffect
  <2>5. handler' = [handler EXCEPT ![h] = r]
    BY <1>2
  <2> HIDE DEF r
  <2> QED BY <1>1, <2>2, <2>3, <2>4, <2>5, RequestsKept
<1>6. ClientsOK'
  <2>1. /\ queueEvents' \in [Clients -> BOOLEAN]
        /\ \/ eventReceiver' = eventReceiver
           \/ eventReceiver' = [eventReceiver EXCEPT ![h[1]] = h[2]]
    BY <1>3 DEF TaskDone, TaskEffect
  <2>2. h[1] \in Clients /\ h[2] \in Nat /\ h[2] <= Conns[h[1]]
    BY ConnectionShape
  <2>3. /\ eventReceiver' \in [Clients -> Nat]
        /\ \A c \in Clients : eventReceiver'[c] <= Conns[c]
    BY <1>1, <2>1, <2>2 DEF ClientsOK
  <2>4. requests' \in 0..MaxRequests
    BY <1>1, ConstantsAssumption DEF ExecuteTask, ClientsOK
  <2>5. UNCHANGED <<unsent, connection, open>>
    BY DEF ExecuteTask, connVars
  <2> QED BY <1>1, <1>5, <2>1, <2>3, <2>4, <2>5 DEF ClientsOK
<1> QED BY <1>4, <1>5, <1>6, ObservedClients DEF Inv

\* The steps of a request that change neither its client nor what the lock guards.
LEMMA HandlerInv ==
  ASSUME Inv, Observe, NEW h \in Connection, NEW r \in Request,
         handler' = [handler EXCEPT ![h] = r],
         r.pc # "idle" => r.database \in Databases,
         r.pc \in {"target", "add"} => h[1] \in subClients,
         r.pc = "remove" => r.client \in Clients,
         queueEvents' \in [Clients -> BOOLEAN], unsent' \in [Clients -> BOOLEAN],
         eventReceiver' \in [Clients -> Nat],
         \A c \in Clients : eventReceiver'[c] <= Conns[c],
         UNCHANGED <<internVars, connVars, requests>>
  PROVE  Inv'
<1>1. SharedOK /\ MadeExact /\ ClientsOK /\ RequestsValid
  BY DEF Inv
<1>2. SharedOK' /\ MadeExact'
  BY <1>1, InternUnchanged
<1>3. subClients \subseteq subClients' /\ subClients' = subClients
  BY DEF internVars
<1>4. handler' \in [Connection -> Request] /\ RequestsValid'
  BY <1>1, <1>3, RequestsKept
<1>5. ClientsOK'
  BY <1>1, <1>4 DEF ClientsOK, connVars
<1> QED BY <1>2, <1>4, <1>5, ObservedClients DEF Inv

\* The steps of a request that change sendClientsMap.
LEMMA SendClientsInv ==
  ASSUME Inv, Observe, NEW h \in Connection, NEW r \in Request,
         handler' = [handler EXCEPT ![h] = r],
         r.pc = "loop", r.database \in Databases,
         sendClientsMap' \subseteq subClients,
         UpdateSendClients,
         UNCHANGED <<subClients, databaseSubs, clientVars, connVars, requests>>
  PROVE  Inv'
<1>1. SharedOK /\ MadeExact /\ ClientsOK /\ RequestsValid
  BY DEF Inv
<1>2. SharedOK'
  BY <1>1 DEF SharedOK
<1>3. MadeExact'
  BY <1>2, UpdateKeepsExact
<1>4. handler' \in [Connection -> Request] /\ RequestsValid'
  BY <1>1, RequestsKept
<1>5. ClientsOK'
  BY <1>1, <1>4 DEF ClientsOK, clientVars, connVars
<1> QED BY <1>2, <1>3, <1>4, <1>5, ObservedClients DEF Inv

\* The steps of EnqueueSyncTasks().
LEMMA EnqueueInv ==
  ASSUME Inv, Observe, NEW h \in Connection, EnqueueSyncTasks(h)
  PROVE  Inv'
<1> DEFINE q == handler[h]
<1>1. SharedOK /\ MadeExact /\ ClientsOK /\ RequestsValid
  BY DEF Inv
<1>2. /\ q \in Request /\ handler \in [Connection -> Request]
      /\ q.pc # "idle" => q.database \in Databases
      /\ q.pc \in {"target", "add"} => h[1] \in subClients
      /\ q.pc = "remove" => q.client \in Clients
      /\ q.todo \in SUBSET ClientDbSubs /\ q.client \in Clients \cup {Null}
  BY <1>1 DEF ClientsOK, RequestsValid, Request
<1>3. /\ queueEvents \in [Clients -> BOOLEAN] /\ unsent \in [Clients -> BOOLEAN]
      /\ eventReceiver \in [Clients -> Nat] /\ \A c \in Clients : eventReceiver[c] <= Conns[c]
  BY <1>1 DEF ClientsOK
<1>4. h[1] \in Clients /\ h[2] \in Nat /\ h[2] <= Conns[h[1]]
  BY ConnectionShape
<1>5. CASE AssignQueueEvents(h)
  <2> DEFINE r == [q EXCEPT !.pc = "enqueue"]
  <2>1. /\ q.pc = "setQueueEvents" /\ handler' = [handler EXCEPT ![h] = r]
        /\ queueEvents' = [queueEvents EXCEPT ![h[1]] = TRUE]
        /\ UNCHANGED <<internVars, eventReceiver, unsent, connVars, requests>>
    BY <1>2, <1>5 DEF AssignQueueEvents, Go
  <2>2. r \in Request
    BY <1>1, <1>2, RequestChange
  <2>3. r.pc = "enqueue" /\ r.database = q.database
    BY <1>2 DEF Request
  <2> HIDE DEF r, q
  <2> QED BY <1>2, <1>3, <1>4, <2>1, <2>2, <2>3, HandlerInv
<1>6. CASE GetSubClientAndDatabaseSubs(h)
  <2> DEFINE r == [q EXCEPT !.pc = IF h[1] \in subClients THEN "target" ELSE "loop",
                            !.todo = databaseSubsMap[q.database]]
  <2>1. /\ q.pc = "enqueue" /\ handler' = [handler EXCEPT ![h] = r]
        /\ UNCHANGED <<internVars, clientVars, connVars, requests>>
    BY <1>2, <1>6 DEF GetSubClientAndDatabaseSubs
  <2>2. databaseSubsMap[q.database] \in SUBSET ClientDbSubs
    BY <1>1, <1>2, <2>1 DEF MadeExact
  <2>3. r \in Request
    BY <1>1, <1>2, <2>2, RequestChange
  <2>4. /\ r.pc = IF h[1] \in subClients THEN "target" ELSE "loop"
        /\ r.database = q.database
    BY <1>2 DEF Request
  <2> HIDE DEF r, q
  <2> QED BY <1>2, <1>3, <2>1, <2>3, <2>4, HandlerInv DEF clientVars
<1>7. CASE ProcessSubscriber(h)
  <2>1. CASE q.pc = "target"
    <3> DEFINE r == [q EXCEPT !.pc = IF eventReceiver[h[1]] = h[2] THEN "loop" ELSE "add"]
    <3>1. /\ handler' = [handler EXCEPT ![h] = r]
          /\ eventReceiver' = [eventReceiver EXCEPT ![h[1]] = h[2]]
          /\ UNCHANGED <<internVars, queueEvents, unsent, connVars, requests>>
      BY <1>2, <1>7, <2>1 DEF ProcessSubscriber, Go
    <3>2. r \in Request
      BY <1>1, <1>2, RequestChange
    <3>3. r.pc \in {"loop", "add"} /\ r.database = q.database
      BY <1>2 DEF Request
    <3> HIDE DEF r, q
    <3>4. eventReceiver' \in [Clients -> Nat] /\ \A c \in Clients : eventReceiver'[c] <= Conns[c]
      BY <1>3, <1>4, <3>1
    <3> QED BY <1>2, <1>3, <2>1, <3>1, <3>2, <3>3, <3>4, HandlerInv
  <2>2. CASE q.pc = "add"
    <3> DEFINE r == [q EXCEPT !.pc = "loop"]
    <3>1. /\ handler' = [handler EXCEPT ![h] = r]
          /\ sendClientsMap' = sendClientsMap \cup {h[1]}
          /\ UpdateSendClients
          /\ UNCHANGED <<subClients, databaseSubs, clientVars, connVars, requests>>
      BY <1>2, <1>7, <2>2 DEF ProcessSubscriber, Go
    <3>2. r \in Request
      BY <1>1, <1>2, RequestChange
    <3>3. r.pc = "loop" /\ r.database = q.database
      BY <1>2 DEF Request
    <3> HIDE DEF r, q
    <3>4. sendClientsMap' \subseteq subClients
      BY <1>1, <1>2, <2>2, <3>1 DEF SharedOK
    <3> QED BY <1>2, <2>2, <3>1, <3>2, <3>3, <3>4, SendClientsInv
  <2> QED BY <1>7, <2>1, <2>2 DEF ProcessSubscriber
<1>8. CASE EnqueueSyncEvent(h)
  <2>1. PICK e \in q.todo :
          IF ~queueEvents[e.client] /\ ~Connected(e.client)
            THEN /\ handler' = [handler EXCEPT ![h].pc = "remove", ![h].client = e.client,
                                                ![h].todo = @ \ {e}]
                 /\ UNCHANGED unsent
            ELSE /\ handler' = [handler EXCEPT ![h].todo = @ \ {e}]
                 /\ unsent' = [unsent EXCEPT ![e.client] =
                      @ \/ CreateEventTasks(e.subs, e.client, handler[h].task)]
    BY <1>8 DEF EnqueueSyncEvent
  <2>2. e.client \in Clients /\ q.todo \ {e} \in SUBSET ClientDbSubs
    BY <1>2 DEF ClientDbSubs
  <2>3. /\ q.pc = "loop"
        /\ UNCHANGED <<internVars, queueEvents, eventReceiver, connVars, requests>>
    BY <1>8 DEF EnqueueSyncEvent
  <2>4. CASE ~queueEvents[e.client] /\ ~Connected(e.client)
    <3> DEFINE r == [q EXCEPT !.pc = "remove", !.client = e.client, !.todo = q.todo \ {e}]
    <3>1. handler' = [handler EXCEPT ![h] = r] /\ UNCHANGED unsent
      BY <1>2, <2>1, <2>4
    <3>2. r \in Request
      BY <1>1, <1>2, <2>2, RequestChange
    <3>3. r.pc = "remove" /\ r.client = e.client /\ r.database = q.database
      BY <1>2 DEF Request
    <3> HIDE DEF r, q
    <3> QED BY <1>2, <1>3, <2>2, <2>3, <3>1, <3>2, <3>3, HandlerInv
  <2>5. CASE ~(~queueEvents[e.client] /\ ~Connected(e.client))
    <3> DEFINE r == [q EXCEPT !.pc = "loop", !.todo = q.todo \ {e}]
               x == unsent[e.client] \/ CreateEventTasks(e.subs, e.client, handler[h].task)
    <3>1. [q EXCEPT !.todo = q.todo \ {e}] = r
      BY <1>2, <2>3 DEF Request
    <3>2. /\ handler' = [handler EXCEPT ![h] = [q EXCEPT !.todo = q.todo \ {e}]]
          /\ unsent' = [unsent EXCEPT ![e.client] = x]
      BY <1>2, <2>1, <2>5
    <3>3. handler' = [handler EXCEPT ![h] = r]
      BY <3>1, <3>2
    <3>4. r \in Request
      BY <1>1, <1>2, <2>2, RequestChange
    <3>5. r.pc = "loop" /\ r.database = q.database
      BY <1>2 DEF Request
    <3>6. x \in BOOLEAN
      OBVIOUS
    <3> HIDE DEF r, q, x
    <3>7. unsent' \in [Clients -> BOOLEAN]
      BY <1>3, <3>2, <3>6
    <3> QED BY <1>2, <1>3, <2>3, <3>3, <3>4, <3>5, <3>7, HandlerInv
  <2> QED BY <2>4, <2>5
<1>9. CASE RemoveSendClient(h)
  <2> DEFINE r == [q EXCEPT !.pc = "loop", !.client = Null]
  <2>1. /\ q.pc = "remove" /\ handler' = [handler EXCEPT ![h] = r]
        /\ sendClientsMap' = sendClientsMap \ {q.client}
        /\ UpdateSendClients
        /\ UNCHANGED <<subClients, databaseSubs, clientVars, connVars, requests>>
    BY <1>2, <1>9 DEF RemoveSendClient
  <2>2. r \in Request
    BY <1>1, <1>2, RequestChange
  <2>3. r.pc = "loop" /\ r.database = q.database
    BY <1>2 DEF Request
  <2> HIDE DEF r, q
  <2>4. sendClientsMap' \subseteq subClients
    BY <1>1, <2>1 DEF SharedOK
  <2> QED BY <1>2, <2>1, <2>2, <2>3, <2>4, SendClientsInv
<1>10. CASE EndRequest(h)
  <2>1. /\ handler' = [handler EXCEPT ![h] = Idle]
        /\ UNCHANGED <<internVars, clientVars, connVars, requests>>
    BY <1>10 DEF EndRequest
  <2>2. Idle.pc = "idle"
    BY DEF Idle
  <2> HIDE DEF q
  <2> QED BY <1>3, <2>1, <2>2, IdleType, HandlerInv DEF clientVars
<1> QED BY <1>5, <1>6, <1>7, <1>8, <1>9, <1>10 DEF EnqueueSyncTasks

\* Sending, losing the connection and opening a new one.
LEMMA ClientInv ==
  ASSUME Inv, Observe, NEW c \in Clients, SendQueuedEvents(c) \/ Disconnect(c) \/ Reconnect(c)
  PROVE  Inv'
<1>1. SharedOK /\ MadeExact /\ ClientsOK /\ RequestsValid
  BY DEF Inv
<1>2. UNCHANGED <<internVars, handler, queueEvents, eventReceiver, requests>>
  BY DEF SendQueuedEvents, Disconnect, Reconnect, clientVars
<1>3. SharedOK' /\ MadeExact'
  BY <1>1, <1>2, InternUnchanged
<1>4. RequestsValid'
  BY <1>1, <1>2 DEF RequestsValid, internVars
<1>5. unsent' \in [Clients -> BOOLEAN] /\ open' \in [Clients -> BOOLEAN]
  BY <1>1 DEF ClientsOK, SendQueuedEvents, Disconnect, Reconnect, clientVars, connVars
<1>6. /\ connection' \in [Clients -> Nat]
      /\ \A x \in Clients : connection'[x] \in 1..Conns[x]
  <2>1. \A x \in Clients : Conns[x] \in Nat
    BY ConstantsAssumption
  <2>2. /\ connection \in [Clients -> Nat] /\ \A x \in Clients : connection[x] \in 1..Conns[x]
    BY <1>1 DEF ClientsOK
  <2>3. \/ connection' = connection
        \/ connection[c] < Conns[c] /\ connection' = [connection EXCEPT ![c] = connection[c] + 1]
    BY <2>2 DEF SendQueuedEvents, Disconnect, Reconnect, connVars
  <2> QED BY <2>1, <2>2, <2>3
<1>7. ClientsOK'
  BY <1>1, <1>2, <1>5, <1>6 DEF ClientsOK
<1> QED BY <1>3, <1>4, <1>7, ObservedClients DEF Inv

\* Every step preserves the invariant.
LEMMA NextInv == Inv /\ [Next]_vars => Inv'
<1> SUFFICES ASSUME Inv, [Next]_vars PROVE Inv'
  OBVIOUS
<1>1. CASE Observe /\ \E h \in Connection : ExecuteTask(h) \/ EnqueueSyncTasks(h)
  BY <1>1, ExecuteTaskInv, EnqueueInv
<1>2. CASE Observe /\ \E c \in Clients : SendQueuedEvents(c) \/ Disconnect(c) \/ Reconnect(c)
  BY <1>2, ClientInv
<1>3. CASE UNCHANGED vars
  <2>1. UNCHANGED <<internVars, clientVars, connVars, handler, requests, overtaken>>
    BY <1>3 DEF vars
  <2>2. SharedOK' /\ MadeExact'
    BY <2>1, InternUnchanged DEF Inv
  <2>3. ClientsOK' /\ RequestsValid'
    BY <2>1 DEF Inv, ClientsOK, RequestsValid, internVars, clientVars, connVars
  <2> QED BY <2>1, <2>2, <2>3 DEF Inv, HistoryOK
<1> QED BY <1>1, <1>2, <1>3 DEF Next, Step

\* What a request reads of the dispatcher without its lock is what the clients have
\* subscribed and who is eligible, in every order in which subscriptions,
\* unsubscriptions, reconnects and removals are interleaved.
THEOREM SubsMapExactCorrect == Spec => []SubsMapExact
BY InitInv, NextInv, InvExact, PTL DEF Spec

-----------------------------------------------------------------------------
(* Who is eligible                                                         *)

\* Events are sent to connections the client has opened, and so are its requests.
ReceiversOpened ==
  /\ \A c \in Clients : eventReceiver[c] <= connection[c]
  /\ \A h \in Connection : handler[h].pc # "idle" => h[2] <= connection[h[1]]

\* A client that is eligible although a request will remove it is overtaken.
RemovedIsOvertaken ==
  \A c \in Clients : AboutToBeRemoved(c) /\ Eligible(c) => c \in overtaken

\* A client between the halves of std.Client is a send client, or overtaken.
HalfwayIsSent == \A c \in Clients : Halfway(c) => c \in sendClientsMap \/ c \in overtaken

\* So is one that queues its events.
QueuingIsSent == \A c \in subClients : queueEvents[c] => c \in sendClientsMap \/ c \in overtaken

\* And one that is connected, once the request that noticed the new connection has
\* added it.
ConnectedIsSent ==
  \A c \in subClients : Connected(c) =>
    \/ c \in sendClientsMap \/ c \in overtaken
    \/ \E n \in 1..Conns[c] : handler[<<c, n>>].pc = "add"

SentInv ==
  /\ ReceiversOpened /\ RemovedIsOvertaken /\ HalfwayIsSent
  /\ QueuingIsSent /\ ConnectedIsSent

\* It implies that every eligible client is a send client, or overtaken.
LEMMA SentInvEligible == Inv /\ SentInv => EligibleIsSendClient
BY DEF SentInv, QueuingIsSent, ConnectedIsSent, EligibleIsSendClient,
       Eligible, Rejoining, Inv, SharedOK

\* What Observe says of one client.
LEMMA Observed ==
  ASSUME Observe, NEW c \in Clients
  PROVE  /\ ~Eligible(c) /\ Eligible(c)' /\ AboutToBeRemoved(c) => c \in overtaken'
         /\ Halfway(c) /\ c \in sendClientsMap /\ c \notin sendClientsMap' => c \in overtaken'
         /\ c \in overtaken /\ c \notin overtaken' =>
              c \in sendClientsMap' /\ ~(AboutToBeRemoved(c)')
BY DEF Observe

\* A client that is eligible already, or is not about to be removed, does not become
\* eligible unnoticed.
LEMMA RemovedKept ==
  ASSUME SentInv, Observe, NEW c \in Clients, AboutToBeRemoved(c), AboutToBeRemoved(c)',
         Eligible(c)'
  PROVE  c \in overtaken'
<1>1. CASE Eligible(c)
  <2>1. c \in overtaken
    BY <1>1 DEF SentInv, RemovedIsOvertaken
  <2> QED BY <2>1, Observed
<1>2. CASE ~Eligible(c)
  BY <1>2, Observed
<1> QED BY <1>1, <1>2

\* The steps of a request that remove no client.
LEMMA SentStep ==
  ASSUME Inv, SentInv, Observe, NEW h \in Connection, NEW r \in Request,
         handler' = [handler EXCEPT ![h] = r],
         handler[h].pc # "idle" \/ h[2] = connection[h[1]],
         UNCHANGED connVars,
         sendClientsMap \subseteq sendClientsMap', subClients' \subseteq Clients,
         subClients' \subseteq subClients \cup sendClientsMap',
         \/ eventReceiver' = eventReceiver
         \/ /\ eventReceiver' = [eventReceiver EXCEPT ![h[1]] = h[2]]
            /\ h[1] \in sendClientsMap' \/ r.pc = "add" \/ eventReceiver[h[1]] = h[2],
         \A c \in Clients : queueEvents'[c] => queueEvents[c] \/ Halfway(c),
         handler[h].pc = "add" => h[1] \in sendClientsMap',
         r.pc = "setQueueEvents" => h[1] \in sendClientsMap',
         r.pc = "remove" => ~queueEvents'[r.client] /\ ~(Connected(r.client)')
  PROVE  SentInv'
<1>1. /\ ClientsOK /\ connection' = connection /\ open' = open
      /\ connection \in [Clients -> Nat] /\ eventReceiver \in [Clients -> Nat]
      /\ subClients \subseteq Clients
  BY DEF Inv, ClientsOK, SharedOK, connVars
<1>2. /\ handler'[h] = r
      /\ \A g \in Connection \ {h} : handler'[g] = handler[g]
  BY <1>1 DEF ClientsOK
<1>3. h[1] \in Clients /\ h[2] \in 1..Conns[h[1]] /\ h[2] \in Nat /\ h = <<h[1], h[2]>>
  BY ConnectionShape
<1>4. h[2] <= connection[h[1]]
  BY <1>1, <1>3 DEF SentInv, ReceiversOpened
<1>5. \A c \in Clients : c \in sendClientsMap \/ c \in overtaken =>
        c \in sendClientsMap' \/ c \in overtaken'
  BY Observed
<1>6. ReceiversOpened'
  <2>1. \A c \in Clients : eventReceiver'[c] <= connection'[c]
    BY <1>1, <1>3, <1>4 DEF SentInv, ReceiversOpened
  <2>2. ASSUME NEW g \in Connection, handler'[g].pc # "idle"
        PROVE  g[2] <= connection'[g[1]]
    BY <1>1, <1>2, <1>4, <2>2 DEF SentInv, ReceiversOpened
  <2> QED BY <2>1, <2>2 DEF ReceiversOpened
<1>7. RemovedIsOvertaken'
  <2> SUFFICES ASSUME NEW c \in Clients, AboutToBeRemoved(c)', Eligible(c)'
               PROVE  c \in overtaken'
    BY DEF RemovedIsOvertaken
  <2>1. PICK g \in Connection : handler'[g].pc = "remove" /\ handler'[g].client = c
    BY DEF AboutToBeRemoved
  <2>2. CASE g = h
    <3>1. r.pc = "remove" /\ r.client = c
      BY <1>2, <2>1, <2>2
    <3>2. ~(Eligible(c)')
      BY <3>1 DEF Eligible
    <3> QED BY <3>2
  <2>3. CASE g # h
    <3>1. AboutToBeRemoved(c)
      BY <1>2, <2>1, <2>3 DEF AboutToBeRemoved
    <3> QED BY <3>1, RemovedKept
  <2> QED BY <2>2, <2>3
<1>8. HalfwayIsSent'
  <2> SUFFICES ASSUME NEW c \in Clients, NEW n \in 1..Conns[c],
                      handler'[<<c, n>>].pc = "setQueueEvents"
               PROVE  c \in sendClientsMap' \/ c \in overtaken'
    BY DEF HalfwayIsSent, Halfway
  <2>1. <<c, n>> \in Connection
    BY ConnectionOf
  <2>2. CASE <<c, n>> = h
    BY <1>2, <2>2
  <2>3. CASE <<c, n>> # h
    <3>1. Halfway(c)
      BY <1>2, <2>1, <2>3 DEF Halfway
    <3> QED BY <1>5, <3>1 DEF SentInv, HalfwayIsSent
  <2> QED BY <2>2, <2>3
<1>9. QueuingIsSent'
  <2> SUFFICES ASSUME NEW c \in subClients', queueEvents'[c], c \notin sendClientsMap'
               PROVE  c \in overtaken'
    BY DEF QueuingIsSent
  <2>1. c \in Clients /\ c \in subClients
    OBVIOUS
  <2>2. c \in sendClientsMap \/ c \in overtaken
    BY <2>1 DEF SentInv, QueuingIsSent, HalfwayIsSent
  <2> QED BY <1>5, <2>1, <2>2
<1>10. ConnectedIsSent'
  <2> SUFFICES ASSUME NEW c \in subClients', Connected(c)', c \notin sendClientsMap',
                      c \notin overtaken'
               PROVE  \E n \in 1..Conns[c] : handler'[<<c, n>>].pc = "add"
    BY DEF ConnectedIsSent
  <2>1. c \in Clients /\ c \in subClients /\ c \notin sendClientsMap /\ c \notin overtaken
    BY <1>1, <1>5
  <2>2. CASE eventReceiver'[c] = eventReceiver[c]
    <3>1. Connected(c)
      BY <1>1, <2>2 DEF Connected
    <3>2. PICK n \in 1..Conns[c] : handler[<<c, n>>].pc = "add"
      BY <2>1, <3>1 DEF SentInv, ConnectedIsSent
    <3>3. <<c, n>> \in Connection
      BY <2>1, ConnectionOf
    <3>4. <<c, n>> # h
      BY <3>2
    <3> QED BY <1>2, <3>2, <3>3, <3>4
  <2>3. CASE eventReceiver'[c] # eventReceiver[c]
    <3>1. c = h[1] /\ r.pc = "add"
      BY <1>1, <1>3, <2>1, <2>3
    <3>2. handler'[<<c, h[2]>>].pc = "add"
      BY <1>2, <1>3, <3>1
    <3> QED BY <1>3, <3>1, <3>2
  <2> QED BY <2>2, <2>3
<1> QED BY <1>6, <1>7, <1>8, <1>9, <1>10 DEF SentInv

\* Removing a client, whether it is still gone or not.
LEMMA SentRemove ==
  ASSUME Inv, SentInv, Observe, NEW h \in Connection, RemoveSendClient(h)
  PROVE  SentInv'
<1> DEFINE r == [handler[h] EXCEPT !.pc = "loop", !.client = Null]
           gone == handler[h].client
<1>1. /\ ClientsOK /\ connection' = connection /\ open' = open
      /\ eventReceiver' = eventReceiver /\ queueEvents' = queueEvents
      /\ subClients' = subClients /\ sendClientsMap' = sendClientsMap \ {gone}
      /\ handler[h].pc = "remove" /\ handler[h] \in Request
      /\ handler' = [handler EXCEPT ![h] = r]
      /\ gone \in Clients /\ subClients \subseteq Clients
  BY DEF Inv, ClientsOK, RequestsValid, SharedOK, RemoveSendClient, clientVars, connVars
<1>2. r.pc = "loop"
  BY <1>1 DEF Request
<1>3. AboutToBeRemoved(gone)
  BY <1>1 DEF AboutToBeRemoved
<1> HIDE DEF r, gone
<1>4. /\ handler'[h] = r
      /\ \A g \in Connection \ {h} : handler'[g] = handler[g]
  BY <1>1 DEF ClientsOK
<1>5. \A c \in Clients : Eligible(c)' <=> Eligible(c)
  BY <1>1 DEF Eligible, Connected
<1>6. \A c \in Clients : c \in overtaken => c \in sendClientsMap' \/ c \in overtaken'
  BY Observed
<1>7. \A c \in Clients : Eligible(c) /\ (c \in sendClientsMap \/ c \in overtaken)
                         => c \in sendClientsMap' \/ c \in overtaken'
  BY <1>1, <1>3, <1>6 DEF SentInv, RemovedIsOvertaken
<1>8. ReceiversOpened'
  BY <1>1, <1>4 DEF SentInv, ReceiversOpened
<1>9. RemovedIsOvertaken'
  <2> SUFFICES ASSUME NEW c \in Clients, AboutToBeRemoved(c)', Eligible(c)'
               PROVE  c \in overtaken'
    BY DEF RemovedIsOvertaken
  <2>1. AboutToBeRemoved(c)
    BY <1>2, <1>4 DEF AboutToBeRemoved
  <2> QED BY <2>1, RemovedKept
<1>10. HalfwayIsSent'
  <2> SUFFICES ASSUME NEW c \in Clients, NEW n \in 1..Conns[c],
                      handler'[<<c, n>>].pc = "setQueueEvents"
               PROVE  c \in sendClientsMap' \/ c \in overtaken'
    BY DEF HalfwayIsSent, Halfway
  <2>1. Halfway(c)
    BY <1>2, <1>4, ConnectionOf DEF Halfway
  <2>2. c \in sendClientsMap \/ c \in overtaken
    BY <2>1 DEF SentInv, HalfwayIsSent
  <2> QED BY <1>6, <2>1, <2>2, Observed
<1>11. QueuingIsSent'
  <2> SUFFICES ASSUME NEW c \in subClients, queueEvents[c]
               PROVE  c \in sendClientsMap' \/ c \in overtaken'
    BY <1>1 DEF QueuingIsSent
  <2>1. c \in Clients /\ Eligible(c)
    BY <1>1 DEF Eligible
  <2> QED BY <1>7, <2>1 DEF SentInv, QueuingIsSent
<1>12. ConnectedIsSent'
  <2> SUFFICES ASSUME NEW c \in subClients, Connected(c), c \notin sendClientsMap',
                      c \notin overtaken'
               PROVE  \E n \in 1..Conns[c] : handler'[<<c, n>>].pc = "add"
    BY <1>1 DEF ConnectedIsSent, Connected
  <2>1. c \in Clients /\ Eligible(c)
    BY <1>1 DEF Eligible
  <2>2. PICK n \in 1..Conns[c] : handler[<<c, n>>].pc = "add"
    BY <1>7, <2>1 DEF SentInv, ConnectedIsSent
  <2>3. <<c, n>> \in Connection /\ <<c, n>> # h
    BY <1>1, <2>1, <2>2, ConnectionOf
  <2> QED BY <1>4, <2>2, <2>3
<1> QED BY <1>8, <1>9, <1>10, <1>11, <1>12 DEF SentInv

\* Executing the task of a request.
LEMMA SentExecuteTask ==
  ASSUME Inv, SentInv, Observe, NEW h \in Connection, ExecuteTask(h)
  PROVE  SentInv'
<1>1. SharedOK /\ ClientsOK /\ TypeOK
  BY InvExact DEF Inv, SubsMapExact
<1>2. PICK d \in Databases, t \in Tasks[h[1]] :
        /\ \/ SubscribeMessage(h, d, t) \/ SubscribeChanges(h, d, t)
           \/ SetQueueEvents(h, t) \/ OtherTask(t)
        /\ handler' = [handler EXCEPT ![h] =
             [pc |-> IF t.type = "message" /\ t.queueEvents = "true"
                       THEN "setQueueEvents" ELSE "enqueue",
              task |-> t, database |-> d, todo |-> {}, client |-> Null]]
  BY DEF ExecuteTask
<1>3. TaskDone(h, t)
  BY <1>1, <1>2, TaskStep
<1> DEFINE r == [pc |-> IF t.type = "message" /\ t.queueEvents = "true"
                          THEN "setQueueEvents" ELSE "enqueue",
                 task |-> t, database |-> d, todo |-> {}, client |-> Null]
<1>4. /\ r.pc \in {"setQueueEvents", "enqueue"}
      /\ r.pc = "setQueueEvents" => h[1] \in sendClientsMap'
  BY <1>3 DEF TaskDone
<1>5. r \in Request
  <2>1. t \in UNION {Tasks[c] : c \in Clients}
    BY ConnectionShape
  <2>2. \A pc \in {"setQueueEvents", "enqueue"} :
          [pc |-> pc, task |-> t, database |-> d, todo |-> {}, client |-> Null] \in Request
    BY <2>1, RequestOf
  <2> HIDE DEF Request
  <2> QED BY <2>2
<1>6. /\ handler[h].pc = "idle" /\ h[2] = connection[h[1]] /\ UNCHANGED connVars
      /\ handler' = [handler EXCEPT ![h] = r]
  BY <1>2 DEF ExecuteTask
<1>7. /\ sendClientsMap \subseteq sendClientsMap' /\ subClients' \subseteq Clients
      /\ subClients' \subseteq subClients \cup sendClientsMap'
      /\ \/ eventReceiver' = eventReceiver
         \/ /\ eventReceiver' = [eventReceiver EXCEPT ![h[1]] = h[2]]
            /\ h[1] \in sendClientsMap'
      /\ \A c \in Clients : queueEvents'[c] => queueEvents[c]
  BY <1>3 DEF TaskDone, TaskEffect
<1> HIDE DEF r
<1> QED BY <1>4, <1>5, <1>6, <1>7, SentStep

\* The steps of EnqueueSyncTasks().
LEMMA SentEnqueue ==
  ASSUME Inv, SentInv, Observe, NEW h \in Connection, EnqueueSyncTasks(h)
  PROVE  SentInv'
<1> DEFINE q == handler[h]
<1>1. /\ ClientsOK /\ q \in Request /\ q.todo \in SUBSET ClientDbSubs
      /\ q.client \in Clients \cup {Null}
      /\ q.pc # "idle" => q.database \in Databases
      /\ databaseSubsMap \in [Databases -> SUBSET ClientDbSubs]
      /\ subClients \subseteq Clients
  BY DEF Inv, ClientsOK, MadeExact, SharedOK, RequestsValid, Request
<1>2. /\ queueEvents \in [Clients -> BOOLEAN] /\ eventReceiver \in [Clients -> Nat]
      /\ h[1] \in Clients
  BY <1>1, ConnectionShape DEF ClientsOK
<1>3. CASE AssignQueueEvents(h)
  <2> DEFINE r == [q EXCEPT !.pc = "enqueue"]
  <2>1. /\ q.pc = "setQueueEvents" /\ handler' = [handler EXCEPT ![h] = r]
        /\ queueEvents' = [queueEvents EXCEPT ![h[1]] = TRUE]
        /\ sendClientsMap' = sendClientsMap /\ subClients' = subClients
        /\ eventReceiver' = eventReceiver /\ UNCHANGED connVars
    BY <1>1, <1>3 DEF AssignQueueEvents, Go, internVars
  <2>2. r \in Request
    BY <1>1, RequestChange
  <2>3. r.pc = "enqueue"
    BY <1>1 DEF Request
  <2>4. Halfway(h[1])
    BY <2>1, ConnectionShape DEF Halfway
  <2>5. \A c \in Clients : queueEvents'[c] => queueEvents[c] \/ Halfway(c)
    BY <1>2, <2>1, <2>4
  <2> HIDE DEF r, q
  <2> QED BY <1>1, <2>1, <2>2, <2>3, <2>5, SentStep DEF q
<1>4. CASE GetSubClientAndDatabaseSubs(h)
  <2> DEFINE r == [q EXCEPT !.pc = IF h[1] \in subClients THEN "target" ELSE "loop",
                            !.todo = databaseSubsMap[q.database]]
  <2>1. /\ q.pc = "enqueue" /\ handler' = [handler EXCEPT ![h] = r]
        /\ sendClientsMap' = sendClientsMap /\ subClients' = subClients
        /\ UNCHANGED <<eventReceiver, queueEvents, connVars>>
    BY <1>1, <1>4 DEF GetSubClientAndDatabaseSubs, internVars, clientVars
  <2>2. r \in Request
    BY <1>1, <2>1, RequestChange
  <2>3. r.pc \in {"target", "loop"}
    BY <1>1 DEF Request
  <2> HIDE DEF r, q
  <2> QED BY <1>1, <2>1, <2>2, <2>3, SentStep DEF q
<1>5. CASE ProcessSubscriber(h)
  <2>1. CASE q.pc = "target"
    <3> DEFINE r == [q EXCEPT !.pc = IF eventReceiver[h[1]] = h[2] THEN "loop" ELSE "add"]
    <3>1. /\ handler' = [handler EXCEPT ![h] = r]
          /\ eventReceiver' = [eventReceiver EXCEPT ![h[1]] = h[2]]
          /\ sendClientsMap' = sendClientsMap /\ subClients' = subClients
          /\ UNCHANGED <<queueEvents, connVars>>
      BY <1>1, <1>5, <2>1 DEF ProcessSubscriber, Go, internVars
    <3>2. r \in Request
      BY <1>1, RequestChange
    <3>3. r.pc = IF eventReceiver[h[1]] = h[2] THEN "loop" ELSE "add"
      BY <1>1 DEF Request
    <3>4. r.pc = "add" \/ eventReceiver[h[1]] = h[2]
      BY <3>3
    <3> HIDE DEF r, q
    <3> QED BY <1>1, <2>1, <3>1, <3>2, <3>3, <3>4, SentStep DEF q
  <2>2. CASE q.pc = "add"
    <3> DEFINE r == [q EXCEPT !.pc = "loop"]
    <3>1. /\ handler' = [handler EXCEPT ![h] = r]
          /\ sendClientsMap' = sendClientsMap \cup {h[1]} /\ subClients' = subClients
          /\ UNCHANGED <<eventReceiver, queueEvents, connVars>>
      BY <1>1, <1>5, <2>2 DEF ProcessSubscriber, Go, clientVars
    <3>2. r \in Request
      BY <1>1, RequestChange
    <3>3. r.pc = "loop"
      BY <1>1 DEF Request
    <3> HIDE DEF r, q
    <3> QED BY <1>1, <2>2, <3>1, <3>2, <3>3, SentStep DEF q
  <2> QED BY <1>5, <2>1, <2>2 DEF ProcessSubscriber
<1>6. CASE EnqueueSyncEvent(h)
  <2>1. PICK e \in q.todo :
          IF ~queueEvents[e.client] /\ ~Connected(e.client)
            THEN handler' = [handler EXCEPT ![h].pc = "remove", ![h].client = e.client,
                                            ![h].todo = @ \ {e}]
            ELSE handler' = [handler EXCEPT ![h].todo = @ \ {e}]
    BY <1>6 DEF EnqueueSyncEvent
  <2>2. e.client \in Clients /\ q.todo \ {e} \in SUBSET ClientDbSubs
    BY <1>1 DEF ClientDbSubs
  <2>3. /\ q.pc = "loop"
        /\ sendClientsMap' = sendClientsMap /\ subClients' = subClients
        /\ UNCHANGED <<queueEvents, eventReceiver, connVars>>
    BY <1>6 DEF EnqueueSyncEvent, internVars
  <2>4. CASE ~queueEvents[e.client] /\ ~Connected(e.client)
    <3>1. [q EXCEPT !.pc = "remove", !.client = e.client, !.todo = q.todo \ {e}] \in Request
      BY <1>1, <2>2, RequestChange
    <3>2. PICK r \in Request :
            r = [q EXCEPT !.pc = "remove", !.client = e.client, !.todo = q.todo \ {e}]
      BY <3>1
    <3>3. handler' = [handler EXCEPT ![h] = r]
      BY <1>1, <2>1, <2>4, <3>2
    <3>4. r.pc = "remove" /\ r.client = e.client
      BY <1>1, <3>2 DEF Request
    <3>5. ~queueEvents'[r.client] /\ ~Connected(r.client)'
      BY <2>3, <2>4, <3>4 DEF Connected, connVars
    <3> HIDE DEF q
    <3> QED BY <1>1, <2>3, <3>3, <3>4, <3>5, SentStep DEF q
  <2>5. CASE ~(~queueEvents[e.client] /\ ~Connected(e.client))
    <3> DEFINE r == [q EXCEPT !.pc = "loop", !.todo = q.todo \ {e}]
    <3>1. [q EXCEPT !.todo = q.todo \ {e}] = r
      BY <1>1, <2>3 DEF Request
    <3>2. handler' = [handler EXCEPT ![h] = [q EXCEPT !.todo = q.todo \ {e}]]
      BY <1>1, <2>1, <2>5
    <3>3. handler' = [handler EXCEPT ![h] = r]
      BY <3>1, <3>2
    <3>4. r \in Request
      BY <1>1, <2>2, RequestChange
    <3>5. r.pc = "loop"
      BY <1>1 DEF Request
    <3> HIDE DEF r, q
    <3> QED BY <1>1, <2>3, <3>3, <3>4, <3>5, SentStep DEF q
  <2> QED BY <2>4, <2>5
<1>7. CASE RemoveSendClient(h)
  BY <1>7, SentRemove
<1>8. CASE EndRequest(h)
  <2>1. /\ q.pc = "loop" /\ handler' = [handler EXCEPT ![h] = Idle]
        /\ sendClientsMap' = sendClientsMap /\ subClients' = subClients
        /\ UNCHANGED <<eventReceiver, queueEvents, connVars>>
    BY <1>8 DEF EndRequest, internVars, clientVars
  <2>2. Idle.pc = "idle"
    BY DEF Idle
  <2> HIDE DEF q
  <2> QED BY <1>1, <2>1, <2>2, IdleType, SentStep DEF q
<1> QED BY <1>3, <1>4, <1>5, <1>6, <1>7, <1>8 DEF EnqueueSyncTasks

\* Sending, losing the connection and opening a new one.
LEMMA SentClient ==
  ASSUME Inv, SentInv, Observe,
         NEW c \in Clients, SendQueuedEvents(c) \/ Disconnect(c) \/ Reconnect(c)
  PROVE  SentInv'
<1>1. UNCHANGED <<subClients, sendClientsMap, handler, queueEvents, eventReceiver>>
  BY DEF SendQueuedEvents, Disconnect, Reconnect, internVars, clientVars
<1>3. /\ connection \in [Clients -> Nat] /\ eventReceiver \in [Clients -> Nat]
      /\ open \in [Clients -> BOOLEAN] /\ subClients \subseteq Clients
      /\ \A x \in Clients : eventReceiver[x] <= connection[x]
  BY DEF Inv, ClientsOK, SharedOK, SentInv, ReceiversOpened
<1>4. \/ connection' = connection /\ open' = open
      \/ connection' = connection /\ open' = [open EXCEPT ![c] = FALSE]
      \/ connection' = [connection EXCEPT ![c] = connection[c] + 1]
         /\ open' = [open EXCEPT ![c] = TRUE]
  BY <1>3 DEF SendQueuedEvents, Disconnect, Reconnect, connVars
<1>5. \A x \in Clients : connection'[x] \in Nat /\ connection[x] <= connection'[x]
  BY <1>3, <1>4
<1>6. \A x \in Clients : Connected(x)' => Connected(x)
  BY <1>1, <1>3, <1>4 DEF Connected
<1>7. ReceiversOpened'
  <2>1. \A x \in Clients : eventReceiver'[x] <= connection'[x]
    BY <1>1, <1>3, <1>5
  <2>2. ASSUME NEW h \in Connection, handler'[h].pc # "idle"
        PROVE  h[2] <= connection'[h[1]]
    <3>1. h[1] \in Clients /\ h[2] \in Nat
      BY ConnectionShape
    <3>2. h[2] <= connection[h[1]]
      BY <1>1, <2>2 DEF SentInv, ReceiversOpened
    <3> QED BY <1>3, <1>5, <3>1, <3>2
  <2> QED BY <2>1, <2>2 DEF ReceiversOpened
<1>8. \A x \in Clients : Eligible(x)' => Eligible(x)
  BY <1>1, <1>6 DEF Eligible
<1>9. \A x \in Clients : /\ AboutToBeRemoved(x)' <=> AboutToBeRemoved(x)
                         /\ Halfway(x)' <=> Halfway(x)
  BY <1>1 DEF AboutToBeRemoved, Halfway
<1>10. \A x \in Clients : x \in sendClientsMap \/ x \in overtaken =>
         x \in sendClientsMap' \/ x \in overtaken'
  BY <1>1, Observed
<1>11. RemovedIsOvertaken'
  <2> SUFFICES ASSUME NEW x \in Clients, AboutToBeRemoved(x)', Eligible(x)'
               PROVE  x \in overtaken'
    BY DEF RemovedIsOvertaken
  <2> QED BY <1>9, RemovedKept
<1>12. HalfwayIsSent'
  <2> SUFFICES ASSUME NEW x \in Clients, Halfway(x)'
               PROVE  x \in sendClientsMap' \/ x \in overtaken'
    BY DEF HalfwayIsSent
  <2> QED BY <1>9, <1>10 DEF SentInv, HalfwayIsSent
<1>13. QueuingIsSent'
  BY <1>1, <1>3, <1>10 DEF SentInv, QueuingIsSent
<1>14. ConnectedIsSent'
  <2> SUFFICES ASSUME NEW x \in subClients, Connected(x)', x \notin sendClientsMap',
                      x \notin overtaken'
               PROVE  \E n \in 1..Conns[x] : handler'[<<x, n>>].pc = "add"
    BY <1>1 DEF ConnectedIsSent
  <2>1. x \in Clients /\ Connected(x) /\ ~(x \in sendClientsMap \/ x \in overtaken)
    BY <1>3, <1>6, <1>10
  <2> QED BY <1>1, <2>1 DEF SentInv, ConnectedIsSent
<1> QED BY <1>7, <1>11, <1>12, <1>13, <1>14 DEF SentInv

\* No client is known at the start.
LEMMA SentInit == Init => SentInv
<1> SUFFICES ASSUME Init PROVE SentInv
  OBVIOUS
<1>1. \A h \in Connection : handler[h].pc = "idle"
  BY DEF Init, Idle
<1>2. ReceiversOpened
  BY <1>1 DEF Init, ReceiversOpened
<1>3. RemovedIsOvertaken /\ HalfwayIsSent
  <2>1. \A c \in Clients : ~AboutToBeRemoved(c)
    BY <1>1 DEF AboutToBeRemoved
  <2>2. \A c \in Clients : ~Halfway(c)
    BY <1>1, ConnectionOf DEF Halfway
  <2> QED BY <2>1, <2>2 DEF RemovedIsOvertaken, HalfwayIsSent
<1> QED BY <1>2, <1>3 DEF Init, SentInv, QueuingIsSent, ConnectedIsSent

\* Every step keeps the eligible clients among the send clients and the overtaken ones.
LEMMA SentNext == Inv /\ SentInv /\ [Next]_vars => SentInv'
<1> SUFFICES ASSUME Inv, SentInv, [Next]_vars PROVE SentInv'
  OBVIOUS
<1>1. CASE Observe /\ \E h \in Connection : ExecuteTask(h) \/ EnqueueSyncTasks(h)
  BY <1>1, SentExecuteTask, SentEnqueue
<1>2. CASE Observe /\ \E c \in Clients : SendQueuedEvents(c) \/ Disconnect(c) \/ Reconnect(c)
  BY <1>2, SentClient
<1>3. CASE UNCHANGED vars
  <2>1. UNCHANGED <<internVars, clientVars, connVars, handler, overtaken>>
    BY <1>3 DEF vars
  <2>2. ReceiversOpened' /\ QueuingIsSent' /\ ConnectedIsSent'
    BY <2>1 DEF internVars, clientVars, connVars, SentInv, ReceiversOpened, QueuingIsSent,
                ConnectedIsSent, Connected
  <2>3. RemovedIsOvertaken' /\ HalfwayIsSent'
    BY <2>1 DEF internVars, clientVars, connVars, SentInv, RemovedIsOvertaken, HalfwayIsSent,
                AboutToBeRemoved, Halfway, Eligible, Connected
  <2> QED BY <2>2, <2>3 DEF SentInv
<1> QED BY <1>1, <1>2, <1>3 DEF Next, Step

\* Every client that is connected or queues its events is a send client as soon as its
\* request that noticed the new connection has put it back, unless it was overtaken: it
\* came back after a publisher found it gone and before it removed it, or was removed
\* between the halves of std.Client.  There is no third way to miss events
\* (EventDispatcher.EnqueueSyncTasks(), .ProcessSubscriber(), DatabaseService.SetQueueEvents()).
THEOREM EligibleIsSendClientCorrect == Spec => []EligibleIsSendClient
<1>1. Spec => []Inv
  BY InitInv, NextInv, PTL DEF Spec
<1>2. Spec => []SentInv
  BY <1>1, SentInit, SentNext, PTL DEF Spec
<1> QED BY <1>1, <1>2, SentInvEligible, PTL
=============================================================================

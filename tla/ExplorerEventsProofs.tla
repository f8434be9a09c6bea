------------------------ MODULE ExplorerEventsProofs ------------------------
(***************************************************************************)
(* For every number of sockets, clicks and events, and any tree, filters   *)
(* and batches: the event log of the Explorer is exact, a tree whose       *)
(* toggles do not overlap shows what the host has subscribed, and the      *)
(* page, the host and the messages between them keep their types.          *)
(***************************************************************************)
EXTENDS ExplorerEvents, FiniteSetTheorems, SequenceTheorems, TLAPS

-----------------------------------------------------------------------------
(* The inductive invariant                                                 *)

\* What requests are sent for.
Toggles == [kind : {"sub"}, key : SubKeys, on : BOOLEAN]
Contents == Toggles \cup {Send, Acknowledge}

\* The messages between a page and a host that knows n clients.
ToHost(n) == [req : Nat, ack : Nat, clt : 0..n, content : Contents]
Responses(n) == [msg : {"resp"}, req : Nat, clt : 0..n, ok : BOOLEAN]
EventMessages == [msg : {"ev"}, seq : Nat, ev : Seq(SubEvent)]
ToClient(n) == Responses(n) \cup EventMessages
Client == [subs : SUBSET SubKeys, socket : Nat, seq : Nat]

SocketInv ==
    /\ readyState \in [Sockets -> {"none", "connecting", "open", "closing", "closed"}]
    /\ webSocket \in {0} \cup Sockets
    /\ req \in Nat \ {0}
    /\ requests \subseteq [req : Nat, content : Contents]
    /\ \A r \in requests : r.req \in 1..(req - 1)
    /\ ackTimePending \in BOOLEAN
    /\ ackTimer \in BOOLEAN
    /\ ackTimePending = ackTimer
    /\ lastEventSeq \in Nat

HostInv ==
    /\ clients \in Seq(Client)
    /\ clt \in 0..Len(clients)
    /\ toHost \in [Sockets -> Seq(ToHost(Len(clients)))]
    /\ toClient \in [Sockets -> Seq(ToClient(Len(clients)))]

TreeInv ==
    /\ subscribed \subseteq SubKeys
    /\ errors \subseteq SubKeys
    /\ lost \subseteq SubKeys
    /\ waiting \in [Sockets -> Toggles \cup {Nothing}]

ViewInv == ViewTypeOK /\ LogExact

PageInv == SocketInv /\ HostInv /\ TreeInv /\ ViewInv

-----------------------------------------------------------------------------
(* The log                                                                 *)

\* What the filters select is a finite set of positions.
LEMMA FilteredFinite ==
  ASSUME NEW events \in Seq(SubEvent), NEW entry, NEW us, NEW range
  PROVE  /\ IsFiniteSet(Filtered(events, entry, us, range))
         /\ Filtered(events, entry, us, range) \subseteq 1..Len(events)
<1>1. Len(events) \in Nat
  OBVIOUS
<1>2. IsFiniteSet(1..Len(events))
  BY <1>1, FS_Interval
<1>3. Filtered(events, entry, us, range) \subseteq 1..Len(events)
  BY DEF Filtered
<1> QED BY <1>2, <1>3, FS_Subset

\* The filters select of received and arriving events together what they
\* select of each.
LEMMA FilteredConcat ==
  ASSUME NEW events \in Seq(SubEvent), NEW evs \in Seq(SubEvent),
         NEW entry, NEW us, NEW range
  PROVE  /\ events \o evs \in Seq(SubEvent)
         /\ Len(events \o evs) = Len(events) + Len(evs)
         /\ Filtered(events \o evs, entry, us, range) =
              Filtered(events, entry, us, range)
              \cup {i \in (Len(events) + 1)..Len(events \o evs) :
                      Match(entry, (events \o evs)[i]) /\ FilterSeqSrc(us, range, (events \o evs)[i])}
<1> DEFINE all == events \o evs
<1>1. /\ all \in Seq(SubEvent) /\ Len(all) = Len(events) + Len(evs)
      /\ \A i \in 1..Len(events) : all[i] = events[i]
  BY ConcatProperties
<1>2. Len(events) \in Nat /\ Len(evs) \in Nat
  OBVIOUS
<1>3. 1..Len(all) = (1..Len(events)) \cup ((Len(events) + 1)..Len(all))
  BY <1>1, <1>2
<1> HIDE DEF all
<1>4. Filtered(all, entry, us, range) =
        Filtered(events, entry, us, range)
        \cup {i \in (Len(events) + 1)..Len(all) :
                Match(entry, all[i]) /\ FilterSeqSrc(us, range, all[i])}
  BY <1>1, <1>3 DEF Filtered
<1> QED BY <1>1, <1>4 DEF all

\* A filter builds the log anew.
LEMMA SetEditorLogExact ==
  ASSUME ViewInv, NEW entry \in Entries \cup {NoEntry}, NEW us \in SUBSET Users,
         NEW range \in [start : Nat, end : Nat], SetEditorLog(entry, us, range)
  PROVE  ViewInv'
<1>1. ViewTypeOK'
  BY DEF ViewInv, ViewTypeOK, SetEditorLog
<1>2. \A i \in Filtered(subEvents, entry, us, range) : i > 0
  BY DEF Filtered
<1>3. LogExact'
  <2>1. /\ subEvents' = subEvents /\ selectedTreeEl' = entry /\ users' = us
        /\ seqRange' = range /\ cleared' = 0
        /\ log' = Filtered(subEvents, entry, us, range)
        /\ logCount' = Cardinality(Filtered(subEvents, entry, us, range))
    BY DEF SetEditorLog
  <2>2. log' = {i \in Filtered(subEvents, entry, us, range) : i > 0}
    BY <1>2, <2>1
  <2> QED BY <2>1, <2>2 DEF LogExact
<1> QED BY <1>1, <1>3 DEF ViewInv

\* An arriving event is appended to the log if the filters select it.
LEMMA AddSubscriptionEventsExact ==
  ASSUME ViewInv, NEW evs \in Seq(SubEvent), AddSubscriptionEvents(evs)
  PROVE  ViewInv'
<1> DEFINE events == subEvents \o evs
           added  == {i \in (Len(subEvents) + 1)..Len(events) :
                        Match(selectedTreeEl, events[i])
                        /\ FilterSeqSrc(users, seqRange, events[i])}
           old    == Filtered(subEvents, selectedTreeEl, users, seqRange)
<1>1. /\ subEvents' = events /\ log' = log \cup added
      /\ logCount' = logCount + Cardinality(added)
      /\ selectedTreeEl' = selectedTreeEl /\ users' = users
      /\ seqRange' = seqRange /\ cleared' = cleared
  BY DEF AddSubscriptionEvents
<1>2. /\ subEvents \in Seq(SubEvent) /\ cleared \in 0..Len(subEvents)
      /\ Len(subEvents) \in Nat /\ Len(evs) \in Nat
  BY DEF ViewInv, ViewTypeOK
<1>3. /\ events \in Seq(SubEvent) /\ Len(events) = Len(subEvents) + Len(evs)
      /\ Filtered(events, selectedTreeEl, users, seqRange) = old \cup added
  BY <1>2, FilteredConcat
<1>4. IsFiniteSet(old) /\ old \subseteq 1..Len(subEvents)
  BY <1>2, FilteredFinite
<1>5. IsFiniteSet(added)
  <2>1. Len(subEvents) + 1 \in Int /\ Len(events) \in Int
    BY <1>2, <1>3
  <2>2. IsFiniteSet((Len(subEvents) + 1)..Len(events))
    BY <2>1, FS_Interval
  <2> QED BY <2>2, FS_Subset
<1>6. \A i \in added : i > Len(subEvents)
  BY <1>2, <1>3
<1>7. old \cap added = {}
  BY <1>2, <1>4, <1>6
<1> HIDE DEF events, added, old
<1>8. Cardinality(old \cup added) = Cardinality(old) + Cardinality(added)
  <2>1. Cardinality(old) \in Nat /\ Cardinality(added) \in Nat
    BY <1>4, <1>5, FS_CardinalityType
  <2>2. Cardinality(old \cap added) = 0
    BY <1>7, FS_EmptySet
  <2>3. Cardinality(old \cup added)
          = Cardinality(old) + Cardinality(added) - Cardinality(old \cap added)
    BY <1>4, <1>5, FS_Union
  <2> QED BY <2>1, <2>2, <2>3
<1>9. LogExact'
  <2>1. log = {i \in old : i > cleared} /\ logCount = Cardinality(old)
    BY DEF ViewInv, LogExact, old
  <2>2. log' = {i \in old \cup added : i > cleared}
    <3>1. \A i \in added : i > cleared
      BY <1>2, <1>6 DEF added
    <3> QED BY <1>1, <2>1, <3>1
  <2>3. logCount' = Cardinality(old \cup added)
    BY <1>1, <1>8, <2>1
  <2> QED BY <1>1, <1>3, <2>2, <2>3 DEF LogExact
<1>10. ViewTypeOK'
  BY <1>1, <1>2, <1>3 DEF ViewInv, ViewTypeOK
<1> QED BY <1>9, <1>10 DEF ViewInv

\* Clearing empties the editor and keeps the count.
LEMMA ClearAllEventsExact == ViewInv /\ ClearAllEvents => ViewInv'
<1> SUFFICES ASSUME ViewInv, ClearAllEvents PROVE ViewInv'
  OBVIOUS
<1>1. ViewTypeOK'
  BY DEF ViewInv, ViewTypeOK, ClearAllEvents
<1>2. \A i \in Filtered(subEvents, selectedTreeEl, users, seqRange) : ~(i > Len(subEvents))
  BY FilteredFinite DEF ViewInv, ViewTypeOK
<1>3. LogExact'
  BY <1>2 DEF ViewInv, LogExact, ClearAllEvents
<1> QED BY <1>1, <1>3 DEF ViewInv

LEMMA ViewUnchanged == ViewInv /\ UNCHANGED viewVars => ViewInv'
BY DEF ViewInv, ViewTypeOK, LogExact, viewVars

-----------------------------------------------------------------------------
(* The socket                                                              *)

\* The typed state around a socket: what its handlers change.
LEMMA SyncRequestInTyped ==
  ASSUME SocketInv, HostInv, NEW content \in Contents, NEW states,
         SyncRequestIn(content, states)
  PROVE  /\ req' \in Nat \ {0}
         /\ requests' \subseteq [req : Nat, content : Contents]
         /\ \A r \in requests' : r.req \in 1..(req' - 1)
         /\ ackTimePending' = FALSE /\ ackTimer' = FALSE
         /\ toHost' \in [Sockets -> Seq(ToHost(Len(clients)))]
<1> DEFINE message == [req |-> req, ack |-> lastEventSeq, clt |-> clt, content |-> content]
<1>1. /\ req' = req + 1
      /\ requests' = requests \cup {[req |-> req, content |-> content]}
  BY DEF SyncRequestIn
<1>2. req \in Nat \ {0} /\ req' \in Nat \ {0}
  BY <1>1 DEF SocketInv
<1>3. requests' \subseteq [req : Nat, content : Contents]
  BY <1>1, <1>2 DEF SocketInv
<1>4. \A r \in requests' : r.req \in 1..(req' - 1)
  BY <1>1, <1>2 DEF SocketInv
<1>5. ackTimePending' = FALSE /\ ackTimer' = FALSE
  <2>1. ackTimePending' = FALSE /\ ackTimer' = (ackTimer /\ ~ackTimePending)
    BY DEF SyncRequestIn
  <2>2. ackTimer \in BOOLEAN /\ ackTimePending = ackTimer
    BY DEF SocketInv
  <2> QED BY <2>1, <2>2
<1>6. toHost' \in [Sockets -> Seq(ToHost(Len(clients)))]
  <2>1. message \in ToHost(Len(clients))
    BY <1>2 DEF SocketInv, HostInv, ToHost
  <2>2. toHost \in [Sockets -> Seq(ToHost(Len(clients)))]
    BY DEF HostInv
  <2>3. \A s \in Sockets : Append(toHost[s], message) \in Seq(ToHost(Len(clients)))
    BY <2>1, <2>2
  <2>4. \/ toHost' = toHost
        \/ webSocket # 0 /\ toHost' = [toHost EXCEPT ![webSocket] = Append(@, message)]
    BY DEF SyncRequestIn
  <2>5. webSocket # 0 => webSocket \in Sockets
    BY DEF SocketInv
  <2> HIDE DEF message
  <2> QED BY <2>2, <2>3, <2>4, <2>5
<1> QED BY <1>2, <1>3, <1>4, <1>5, <1>6

LEMMA SyncRequestTyped ==
  ASSUME SocketInv, HostInv, NEW content \in Contents, SyncRequest(content),
         UNCHANGED clients
  PROVE  SocketInv' /\ HostInv'
<1>1. SyncRequestIn(content, readyState)
      /\ UNCHANGED <<readyState, webSocket, clt, lastEventSeq, toClient>>
  BY DEF SyncRequest
<1>2. /\ req' \in Nat \ {0}
      /\ requests' \subseteq [req : Nat, content : Contents]
      /\ \A r \in requests' : r.req \in 1..(req' - 1)
      /\ ackTimePending' = FALSE /\ ackTimer' = FALSE
      /\ toHost' \in [Sockets -> Seq(ToHost(Len(clients)))]
  BY <1>1, SyncRequestInTyped
<1> QED BY <1>1, <1>2 DEF SocketInv, HostInv

LEMMA ConnectTyped ==
  ASSUME SocketInv, NEW s \in Sockets, Connect(s)
  PROVE  SocketInv'
BY DEF SocketInv, Connect

LEMMA CloseTyped == ASSUME SocketInv, Close PROVE SocketInv'
BY DEF SocketInv, Close, Closing, Sockets

LEMMA ReconnectTyped ==
  ASSUME SocketInv, NEW s \in Sockets, Reconnect(s)
  PROVE  SocketInv'
BY DEF SocketInv, Reconnect, Closing

LEMMA ClosedTyped ==
  ASSUME SocketInv, HostInv, NEW s \in Sockets, Closed(s), UNCHANGED clients
  PROVE  SocketInv' /\ HostInv'
<1>1. <<>> \in Seq(ToHost(Len(clients))) /\ <<>> \in Seq(ToClient(Len(clients)))
  BY EmptySeq
<1>2. HostInv'
  BY <1>1 DEF HostInv, Closed
<1>3. SocketInv'
  BY DEF SocketInv, Closed
<1> QED BY <1>2, <1>3

\* What arrives is a message of the host, and the rest stays in its channel.
LEMMA ArrivesTyped ==
  ASSUME HostInv, NEW s \in Sockets, NEW msg, Arrives(s, msg)
  PROVE  /\ Head(toClient[s]) \in ToClient(Len(clients))
         /\ Head(toClient[s]).msg = msg
         /\ toClient' \in [Sockets -> Seq(ToClient(Len(clients)))]
<1>1. toClient \in [Sockets -> Seq(ToClient(Len(clients)))] /\ toClient[s] # <<>>
  BY DEF HostInv, Arrives
<1>2. /\ Tail(toClient[s]) \in Seq(ToClient(Len(clients)))
      /\ Head(toClient[s]) \in ToClient(Len(clients))
  BY <1>1, HeadTailProperties
<1>3. toClient' = [toClient EXCEPT ![s] = Tail(@)] /\ Head(toClient[s]).msg = msg
  BY DEF Arrives
<1> QED BY <1>1, <1>2, <1>3

LEMMA ResponseTyped ==
  ASSUME SocketInv, HostInv, NEW s \in Sockets, Response(s), UNCHANGED clients
  PROVE  SocketInv' /\ HostInv' /\ requests' \subseteq requests
<1>1. Arrives(s, "resp")
  BY DEF Response
<1>2. /\ Head(toClient[s]) \in ToClient(Len(clients)) /\ Head(toClient[s]).msg = "resp"
      /\ toClient' \in [Sockets -> Seq(ToClient(Len(clients)))]
  BY <1>1, ArrivesTyped
<1>3. Head(toClient[s]) \in Responses(Len(clients))
  BY <1>2 DEF ToClient, EventMessages
<1>4. clt' \in 0..Len(clients)
  BY <1>3 DEF Response, Responses, HostInv
<1>5. requests' \subseteq requests
  BY DEF Response
<1>6. UNCHANGED <<readyState, webSocket, req, ackTimePending, ackTimer, lastEventSeq, toHost>>
  BY DEF Response
<1>7. SocketInv'
  BY <1>5, <1>6 DEF SocketInv
<1>8. HostInv'
  BY <1>2, <1>4, <1>6 DEF HostInv
<1> QED BY <1>5, <1>7, <1>8

\* The events of a message have the type of those in the log.
LEMMA EventMessageTyped ==
  ASSUME SocketInv, HostInv, NEW s \in Sockets, EventMessage(s), UNCHANGED clients
  PROVE  SocketInv' /\ HostInv' /\ Head(toClient[s]).ev \in Seq(SubEvent)
<1>1. Arrives(s, "ev")
  BY DEF EventMessage
<1>2. /\ Head(toClient[s]) \in ToClient(Len(clients)) /\ Head(toClient[s]).msg = "ev"
      /\ toClient' \in [Sockets -> Seq(ToClient(Len(clients)))]
  BY <1>1, ArrivesTyped
<1>3. Head(toClient[s]) \in EventMessages
  BY <1>2 DEF ToClient, Responses
<1>4. lastEventSeq' \in Nat /\ Head(toClient[s]).ev \in Seq(SubEvent)
  BY <1>3 DEF EventMessage, EventMessages
<1>5. ackTimePending' = TRUE /\ ackTimer' = TRUE
  <2>1. ackTimePending' = TRUE /\ ackTimer' = (ackTimer \/ ~ackTimePending)
    BY DEF EventMessage
  <2>2. ackTimer \in BOOLEAN /\ ackTimePending = ackTimer
    BY DEF SocketInv
  <2> QED BY <2>1, <2>2
<1>6. UNCHANGED <<readyState, webSocket, req, requests, clt, toHost>>
  BY DEF EventMessage
<1>7. SocketInv'
  BY <1>4, <1>5, <1>6 DEF SocketInv
<1>8. HostInv'
  BY <1>2, <1>6 DEF HostInv
<1> QED BY <1>4, <1>7, <1>8

-----------------------------------------------------------------------------
(* The host                                                                *)

\* A host that knows more clients may send what it sent before.
LEMMA MoreClients ==
  ASSUME NEW n \in Nat, NEW m \in Nat, n <= m
  PROVE  /\ Seq(ToHost(n)) \subseteq Seq(ToHost(m))
         /\ Seq(ToClient(n)) \subseteq Seq(ToClient(m))
<1>1. ToHost(n) \subseteq ToHost(m)
  BY DEF ToHost
<1>2. ToClient(n) \subseteq ToClient(m)
  BY DEF ToClient, Responses
<1> QED BY <1>1, <1>2

\* What a client is sent of an event is an event of the log's type.
LEMMA SubscribedTyped ==
  ASSUME NEW subs, NEW ev \in SubEvent, NEW seq \in Nat
  PROVE  Subscribed(subs, ev, seq) \in SubEvent
BY DEF Subscribed, SubEvent

\* An answer may make a client known and changes what it subscribes.
LEMMA HostAnswerInv ==
  ASSUME PageInv, NEW s \in Sockets, NEW ok \in BOOLEAN, HostAnswer(s, ok)
  PROVE  PageInv'
<1> DEFINE message == Head(toHost[s])
           content == message.content
           isSub   == content.kind = "sub"
           id      == IF message.clt = 0 /\ isSub /\ ok THEN Len(clients) + 1 ELSE message.clt
           known   == IF id > Len(clients) THEN Append(clients, NewClient) ELSE clients
           answer  == [msg |-> "resp", req |-> message.req, clt |-> id, ok |-> ok]
<1>1. /\ clients \in Seq(Client) /\ Len(clients) \in Nat
      /\ toHost \in [Sockets -> Seq(ToHost(Len(clients)))]
      /\ toClient \in [Sockets -> Seq(ToClient(Len(clients)))]
      /\ clt \in 0..Len(clients)
  BY DEF PageInv, HostInv
<1>2. /\ toHost[s] # <<>>
      /\ clients' = IF id = 0 THEN clients ELSE
               [known EXCEPT ![id].socket = s,
                             ![id].subs = IF ~(isSub /\ ok) THEN @
                                          ELSE IF content.on THEN @ \cup {content.key}
                                          ELSE @ \ {content.key}]
      /\ toClient' = [toClient EXCEPT ![s] = Append(@, answer)]
      /\ toHost' = [toHost EXCEPT ![s] = Tail(@)]
  BY DEF HostAnswer
<1>3. UNCHANGED <<readyState, webSocket, req, requests, clt, ackTimePending, ackTimer,
                  lastEventSeq, viewVars, subVars>>
  BY DEF HostAnswer
<1>4. message \in ToHost(Len(clients)) /\ Tail(toHost[s]) \in Seq(ToHost(Len(clients)))
  BY <1>1, <1>2, HeadTailProperties
<1>5. message.req \in Nat /\ message.clt \in 0..Len(clients) /\ content \in Contents
  BY <1>4 DEF ToHost
<1>6. isSub => content.key \in SubKeys
  BY <1>5 DEF Contents, Toggles, Subscribe, Send, Acknowledge
<1>7. NewClient \in Client
  BY DEF NewClient, Client
<1>8. /\ known \in Seq(Client) /\ Len(known) \in Nat /\ Len(clients) <= Len(known)
      /\ id \in 0..Len(known)
  BY <1>1, <1>5, <1>7
<1> HIDE DEF message, content, isSub, known
<1>9. clients' \in Seq(Client) /\ Len(clients') \in Nat /\ Len(clients) <= Len(clients')
      /\ id \in 0..Len(clients')
  <2>1. CASE id = 0
    BY <1>1, <1>2, <2>1
  <2>2. CASE id # 0
    <3> DEFINE subs == IF ~(isSub /\ ok) THEN known[id].subs
                       ELSE IF content.on THEN known[id].subs \cup {content.key}
                       ELSE known[id].subs \ {content.key}
               changed == [known[id] EXCEPT !.socket = s, !.subs = subs]
    <3> HIDE DEF id
    <3>1. id \in 1..Len(known) /\ known[id] \in Client
      BY <1>8, <2>2
    <3>2. subs \subseteq SubKeys
      BY <1>6, <3>1 DEF Client
    <3> HIDE DEF subs
    <3>3. changed \in Client
      <4>1. s \in Nat
        BY MaxSocketsAssumption DEF Sockets
      <4> QED BY <3>1, <3>2, <4>1 DEF Client
    <3>4. clients' = [known EXCEPT ![id] = changed]
      BY <1>2, <1>8, <2>2, <3>1 DEF subs
    <3> HIDE DEF changed
    <3>5. clients' \in Seq(Client) /\ Len(clients') = Len(known)
      BY <1>8, <3>1, <3>3, <3>4
    <3> QED BY <1>8, <3>5
  <2> QED BY <2>1, <2>2
<1> HIDE DEF id
<1>10. answer \in ToClient(Len(clients'))
  BY <1>5, <1>9 DEF ToClient, Responses
<1> HIDE DEF answer
<1>11. HostInv'
  <2>1. /\ Seq(ToHost(Len(clients))) \subseteq Seq(ToHost(Len(clients')))
        /\ Seq(ToClient(Len(clients))) \subseteq Seq(ToClient(Len(clients')))
    BY <1>1, <1>9, MoreClients
  <2>2. Append(toClient[s], answer) \in Seq(ToClient(Len(clients')))
    BY <1>1, <1>10, <2>1
  <2>3. toClient' \in [Sockets -> Seq(ToClient(Len(clients')))]
    BY <1>1, <1>2, <2>1, <2>2
  <2>4. toHost' \in [Sockets -> Seq(ToHost(Len(clients')))]
    BY <1>1, <1>2, <1>4, <2>1
  <2>5. clt' \in 0..Len(clients')
    BY <1>1, <1>3, <1>9
  <2> QED BY <1>9, <2>3, <2>4, <2>5 DEF HostInv
<1>12. SocketInv'
  BY <1>3 DEF PageInv, SocketInv
<1>13. TreeInv'
  BY <1>3 DEF PageInv, TreeInv, subVars
<1> QED BY <1>3, <1>11, <1>12, <1>13, ViewUnchanged DEF PageInv

\* Events of a batch are sent with the seq of their message.
LEMMA HostSendInv ==
  ASSUME PageInv, NEW i \in 1..Len(clients), NEW batch \in Batches, HostSend(i, batch)
  PROVE  PageInv'
<1> DEFINE seq == clients[i].seq + 1
           evs == [n \in 1..Len(batch) |-> Subscribed(clients[i].subs, batch[n], seq)]
           message == [msg |-> "ev", seq |-> seq, ev |-> evs]
<1>1. /\ clients \in Seq(Client) /\ clients[i] \in Client /\ Len(clients) \in Nat
      /\ toHost \in [Sockets -> Seq(ToHost(Len(clients)))]
      /\ toClient \in [Sockets -> Seq(ToClient(Len(clients)))]
      /\ clt \in 0..Len(clients)
  BY DEF PageInv, HostInv
<1>2. /\ clients' = [clients EXCEPT ![i].seq = seq]
      /\ \/ toClient' = toClient
         \/ toClient' = [toClient EXCEPT ![clients[i].socket] = Append(@, message)]
  BY DEF HostSend
<1>3. UNCHANGED <<readyState, webSocket, req, requests, clt, ackTimePending, ackTimer,
                  lastEventSeq, toHost, viewVars, subVars>>
  BY DEF HostSend
<1>4. seq \in Nat
  BY <1>1 DEF Client
<1>5. evs \in Seq(SubEvent)
  <2>1. batch \in Seq(SubEvent)
    BY ExplorerEventsAssumption
  <2>2. \A n \in 1..Len(batch) : Subscribed(clients[i].subs, batch[n], seq) \in SubEvent
    BY <1>4, <2>1, SubscribedTyped
  <2> QED BY <2>1, <2>2
<1>6. message \in ToClient(Len(clients))
  BY <1>4, <1>5 DEF ToClient, EventMessages
<1> HIDE DEF seq, evs, message
<1>7. clients' \in Seq(Client) /\ Len(clients') = Len(clients)
  <2>1. [clients[i] EXCEPT !.seq = seq] \in Client
    BY <1>1, <1>4 DEF Client
  <2>2. clients' = [clients EXCEPT ![i] = [clients[i] EXCEPT !.seq = seq]]
    BY <1>1, <1>2
  <2> QED BY <1>1, <2>1, <2>2
<1>8. \A s \in Sockets : Append(toClient[s], message) \in Seq(ToClient(Len(clients)))
  BY <1>1, <1>6
<1>9. toClient' \in [Sockets -> Seq(ToClient(Len(clients)))]
  BY <1>1, <1>2, <1>8
<1>10. HostInv'
  BY <1>1, <1>3, <1>7, <1>9 DEF HostInv
<1>11. SocketInv'
  BY <1>3 DEF PageInv, SocketInv
<1>12. TreeInv'
  BY <1>3 DEF PageInv, TreeInv, subVars
<1> QED BY <1>3, <1>10, <1>11, <1>12, ViewUnchanged DEF PageInv

-----------------------------------------------------------------------------
(* The page                                                                *)

\* A toggle subscribes or unsubscribes an entry.
LEMMA SubscribeContent ==
  ASSUME NEW k \in SubKeys, NEW on \in BOOLEAN
  PROVE  Subscribe(k, on) \in Toggles /\ Subscribe(k, on) \in Contents
BY DEF Contents, Toggles, Subscribe

LEMMA ToggleSubInv ==
  ASSUME PageInv, NEW k \in SubKeys, ToggleSub(k)
  PROVE  PageInv'
<1> DEFINE content == Subscribe(k, k \notin subscribed)
<1>1. content \in Toggles /\ content \in Contents
  <2>1. (k \notin subscribed) \in BOOLEAN
    OBVIOUS
  <2> QED BY <2>1, SubscribeContent
<1>2. /\ subscribed' \subseteq SubKeys /\ errors' \subseteq SubKeys /\ lost' \subseteq SubKeys
      /\ UNCHANGED <<viewVars, clients>>
  BY DEF ToggleSub, PageInv, TreeInv
<1>3. CASE SyncRequest(content) /\ UNCHANGED waiting
  <2>1. SocketInv' /\ HostInv'
    BY <1>1, <1>2, <1>3, SyncRequestTyped DEF PageInv
  <2> QED BY <1>2, <1>3, <2>1, ViewUnchanged DEF PageInv, TreeInv
<1>4. CASE \E s \in Sockets : Connect(s) /\ waiting' = [waiting EXCEPT ![s] = content]
  <2>1. PICK s \in Sockets : Connect(s) /\ waiting' = [waiting EXCEPT ![s] = content]
    BY <1>4
  <2>2. SocketInv'
    BY <2>1, ConnectTyped DEF PageInv
  <2>3. HostInv'
    BY <1>2, <2>1 DEF PageInv, HostInv, Connect
  <2>4. waiting' \in [Sockets -> Toggles \cup {Nothing}]
    BY <1>1, <2>1 DEF PageInv, TreeInv
  <2> QED BY <1>2, <2>2, <2>3, <2>4, ViewUnchanged DEF PageInv, TreeInv
<1> QED BY <1>3, <1>4 DEF ToggleSub

\* The clicks that only connect, close and send, and the timer.
LEMMA SocketStepInv ==
  ASSUME PageInv,
         \/ \E s \in Sockets : ConnectWebsocket(s)
         \/ CloseWebsocket \/ SendSyncRequest \/ AckTimer
  PROVE  PageInv'
<1>1. UNCHANGED <<viewVars, subVars, clients>>
  BY DEF ConnectWebsocket, CloseWebsocket, SendSyncRequest, AckTimer
<1>2. Send \in Contents /\ Acknowledge \in Contents
  BY DEF Contents
<1>3. SocketInv' /\ HostInv'
  <2>1. CASE \E s \in Sockets : ConnectWebsocket(s)
    <3>1. PICK s \in Sockets : Reconnect(s)
      BY <2>1 DEF ConnectWebsocket
    <3> QED BY <1>1, <3>1, ReconnectTyped DEF PageInv, HostInv, Reconnect
  <2>2. CASE CloseWebsocket
    BY <1>1, <2>2, CloseTyped DEF CloseWebsocket, PageInv, HostInv, Close
  <2>3. CASE SendSyncRequest
    BY <1>1, <1>2, <2>3, SyncRequestTyped DEF SendSyncRequest, PageInv
  <2>4. CASE AckTimer
    BY <1>1, <1>2, <2>4, SyncRequestTyped DEF AckTimer, AcknowledgeEvents, PageInv
  <2> QED BY <2>1, <2>2, <2>3, <2>4
<1>4. TreeInv'
  BY <1>1 DEF PageInv, TreeInv, subVars
<1> QED BY <1>1, <1>3, <1>4, ViewUnchanged DEF PageInv

LEMMA OnOpenInv ==
  ASSUME PageInv, NEW s \in Sockets, OnOpen(s)
  PROVE  PageInv'
<1>1. /\ readyState' = [readyState EXCEPT ![s] = "open"]
      /\ waiting' = [waiting EXCEPT ![s] = Nothing]
      /\ UNCHANGED <<webSocket, clt, lastEventSeq, toClient, viewVars,
                     subscribed, errors, lost, clients>>
  BY DEF OnOpen, Opened
<1>2. TreeInv'
  BY <1>1 DEF PageInv, TreeInv
<1>3. readyState' \in [Sockets -> {"none", "connecting", "open", "closing", "closed"}]
  BY <1>1 DEF PageInv, SocketInv
<1>4. CASE UNCHANGED <<req, requests, ackTimePending, ackTimer, toHost>>
  BY <1>1, <1>2, <1>3, <1>4, ViewUnchanged DEF PageInv, SocketInv, HostInv
<1>5. CASE waiting[s] # Nothing /\ SyncRequestIn(waiting[s], readyState')
  <2>1. waiting[s] \in Contents
    BY <1>5 DEF PageInv, TreeInv, Contents
  <2>2. /\ req' \in Nat \ {0}
        /\ requests' \subseteq [req : Nat, content : Contents]
        /\ \A r \in requests' : r.req \in 1..(req' - 1)
        /\ ackTimePending' = FALSE /\ ackTimer' = FALSE
        /\ toHost' \in [Sockets -> Seq(ToHost(Len(clients)))]
    BY <1>5, <2>1, SyncRequestInTyped DEF PageInv
  <2> QED BY <1>1, <1>2, <1>3, <2>2, ViewUnchanged DEF PageInv, SocketInv, HostInv
<1> QED BY <1>4, <1>5 DEF OnOpen

\* The entries of requests are entries of the tree.
LEMMA KeysTyped ==
  ASSUME NEW contents \in SUBSET (Contents \cup {Nothing})
  PROVE  Keys(contents) \subseteq SubKeys
BY DEF Keys, Contents, Toggles, Subscribe, Send, Acknowledge, Nothing

LEMMA OnCloseInv ==
  ASSUME PageInv, NEW s \in Sockets, OnClose(s)
  PROVE  PageInv'
<1>1. SocketInv' /\ HostInv'
  BY ClosedTyped DEF OnClose, PageInv
<1>2. /\ {waiting[s]} \in SUBSET (Contents \cup {Nothing})
      /\ {r.content : r \in requests} \in SUBSET (Contents \cup {Nothing})
  BY DEF PageInv, TreeInv, SocketInv, Contents
<1>3. Keys({waiting[s]}) \subseteq SubKeys /\ Keys({r.content : r \in requests}) \subseteq SubKeys
  BY <1>2, KeysTyped
<1>4. TreeInv'
  BY <1>3 DEF OnClose, PageInv, TreeInv
<1> QED BY <1>1, <1>4, ViewUnchanged DEF OnClose, PageInv

LEMMA OnResponseInv ==
  ASSUME PageInv, NEW s \in Sockets, OnResponse(s)
  PROVE  PageInv'
<1> DEFINE answered == {r.content : r \in requests \ requests'}
<1>1. SocketInv' /\ HostInv'
  BY ResponseTyped DEF OnResponse, PageInv
<1>2. answered \in SUBSET (Contents \cup {Nothing})
  BY DEF PageInv, SocketInv
<1>3. Keys(answered) \subseteq SubKeys
  BY <1>2, KeysTyped
<1>4. errors' \subseteq errors \cup Keys(answered)
  BY DEF OnResponse
<1> HIDE DEF answered
<1>5. TreeInv'
  BY <1>3, <1>4 DEF OnResponse, PageInv, TreeInv
<1> QED BY <1>1, <1>5, ViewUnchanged DEF OnResponse, PageInv

LEMMA OnEventsInv ==
  ASSUME PageInv, NEW s \in Sockets, OnEvents(s)
  PROVE  PageInv'
<1>1. SocketInv' /\ HostInv' /\ Head(toClient[s]).ev \in Seq(SubEvent)
  BY EventMessageTyped DEF OnEvents, PageInv
<1>2. ViewInv'
  BY <1>1, AddSubscriptionEventsExact DEF OnEvents, PageInv
<1>3. TreeInv'
  BY DEF OnEvents, PageInv, TreeInv, subVars
<1> QED BY <1>1, <1>2, <1>3 DEF PageInv

LEMMA ViewStepInv == PageInv /\ View => PageInv'
<1> SUFFICES ASSUME PageInv, View PROVE PageInv'
  OBVIOUS
<1>1. UNCHANGED <<socketVars, subVars, clients>>
  BY DEF View
<1>2. ViewInv'
  <2>1. /\ users \in SUBSET Users /\ seqRange \in [start : Nat, end : Nat]
        /\ selectedTreeEl \in Entries \cup {NoEntry}
    BY DEF PageInv, ViewInv, ViewTypeOK
  <2>2. ASSUME NEW entry \in Entries, SelectEntry(entry) PROVE ViewInv'
    BY <2>1, <2>2, SetEditorLogExact DEF SelectEntry, PageInv
  <2>3. CASE DeselectEntry
    BY <2>1, <2>3, SetEditorLogExact DEF DeselectEntry, PageInv
  <2>4. ASSUME NEW f \in Filters, SetLogFilter(f.users, f.start, f.end) PROVE ViewInv'
    <3>1. f.users \in SUBSET Users /\ [start |-> f.start, end |-> f.end] \in [start : Nat, end : Nat]
      BY ExplorerEventsAssumption
    <3> QED BY <2>1, <2>4, <3>1, SetEditorLogExact DEF SetLogFilter, PageInv
  <2>5. CASE ClearAllEvents
    BY <2>5, ClearAllEventsExact DEF PageInv
  <2> QED BY <2>2, <2>3, <2>4, <2>5 DEF View
<1>3. SocketInv' /\ HostInv' /\ TreeInv'
  BY <1>1 DEF PageInv, SocketInv, HostInv, TreeInv, socketVars, subVars
<1> QED BY <1>2, <1>3 DEF PageInv

-----------------------------------------------------------------------------
(* The theorems                                                            *)

LEMMA InitInv == Init => PageInv
<1> SUFFICES ASSUME Init PROVE PageInv
  OBVIOUS
<1>1. SocketInv
  <2>1. ackTimePending = FALSE /\ ackTimer = FALSE
    BY DEF Init, InitSocket
  <2>2. /\ readyState \in [Sockets -> {"none", "connecting", "open", "closing", "closed"}]
        /\ webSocket \in {0} \cup Sockets /\ req = 1 /\ requests = {} /\ lastEventSeq = 0
    BY DEF Init, InitSocket
  <2>3. requests \subseteq [req : Nat, content : Contents] /\ \A r \in requests : r.req \in 1..(req - 1)
    BY <2>2
  <2>4. req \in Nat \ {0} /\ lastEventSeq \in Nat
    BY <2>2
  <2>5. ackTimePending \in BOOLEAN /\ ackTimer \in BOOLEAN /\ ackTimePending = ackTimer
    BY <2>1
  <2> QED BY <2>2, <2>3, <2>4, <2>5 DEF SocketInv
<1>2. HostInv
  <2>1. /\ <<>> \in Seq(Client) /\ Len(<<>>) = 0
        /\ <<>> \in Seq(ToHost(0)) /\ <<>> \in Seq(ToClient(0))
    BY EmptySeq
  <2> QED BY <2>1 DEF Init, InitSocket, HostInv
<1>3. TreeInv
  BY DEF Init, TreeInv
<1>4. ViewInv
  <2>1. ViewTypeOK
    BY MaxSeqAssumption DEF Init, InitView, ViewTypeOK
  <2>2. \A entry, us, range : Filtered(<<>>, entry, us, range) = {}
    BY DEF Filtered
  <2>3. LogExact
    BY <2>2, FS_EmptySet DEF Init, InitView, LogExact
  <2> QED BY <2>1, <2>3 DEF ViewInv
<1> QED BY <1>1, <1>2, <1>3, <1>4 DEF PageInv

LEMMA NextInv == PageInv /\ [Next]_vars => PageInv'
<1> SUFFICES ASSUME PageInv, [Next]_vars PROVE PageInv'
  OBVIOUS
<1>1. CASE Page
  BY <1>1, ToggleSubInv, SocketStepInv, OnOpenInv, OnCloseInv, OnResponseInv, OnEventsInv,
     ViewStepInv DEF Page
<1>2. CASE Host
  BY <1>2, HostAnswerInv, HostSendInv DEF Host
<1>3. CASE UNCHANGED vars
  BY <1>3, ViewUnchanged DEF vars, socketVars, subVars, PageInv, SocketInv, HostInv, TreeInv
<1> QED BY <1>1, <1>2, <1>3 DEF Next

\* The page, the host and the messages on their way keep their types.
THEOREM PageCorrect == Spec => []PageInv
<1> QED BY InitInv, NextInv, PTL DEF Spec

\* In particular what TypeOK says of the variables.
THEOREM TypeCorrect == Spec => []TypeOK
<1>1. PageInv => TypeOK
  BY DEF PageInv, SocketInv, HostInv, TreeInv, ViewInv, TypeOK
<1> QED BY <1>1, PageCorrect, PTL

\* However often a user switches entries and filters while events arrive:
\* the log built anew and the log appended to (setEditorLog(),
\* addSubscriptionEvent()) are the same.
THEOREM LogExactCorrect == Spec => []LogExact
<1>1. PageInv => LogExact
  BY DEF PageInv, ViewInv
<1> QED BY <1>1, PageCorrect, PTL
-----------------------------------------------------------------------------
(* What the tree shows: the inductive invariant                            *)

IsSub(content) == content.kind = "sub"

\* The answers on their way to the page.
Answers == {m \in UNION {Range(toClient[s]) : s \in Sockets} : m.msg = "resp"}

\* The id of a request is used once: for one entry of the map and one message,
\* the request or its answer.
IdInv ==
    /\ \A r1, r2 \in requests : r1.req = r2.req => r1 = r2
    /\ \A s \in Sockets : \A i \in 1..Len(toHost[s]) : toHost[s][i].req < req
    /\ \A a \in Answers : a.req < req
    /\ \A s, t \in Sockets : \A i \in 1..Len(toHost[s]), j \in 1..Len(toHost[t]) :
          toHost[s][i].req = toHost[t][j].req => s = t /\ i = j
    /\ \A a \in Answers, s \in Sockets : \A i \in 1..Len(toHost[s]) : a.req # toHost[s][i].req
    /\ \A r \in requests, s \in Sockets : \A i \in 1..Len(toHost[s]) :
          toHost[s][i].req = r.req => toHost[s][i].content = r.content

\* Requests are on their way on sockets that are open, or were replaced.
ChannelInv ==
    /\ webSocket # 0 => readyState[webSocket] # "closing"
    /\ \A s \in Sockets : toHost[s] # <<>> => readyState[s] \in {"open", "closing"}

\* At most one toggle is in flight.
OneToggle ==
    /\ \A r1, r2 \in requests : IsSub(r1.content) /\ IsSub(r2.content) => r1 = r2
    /\ \A s, t \in Sockets : IsSub(waiting[s]) /\ IsSub(waiting[t]) => s = t
    /\ \A r \in requests, s \in Sockets : ~(IsSub(r.content) /\ IsSub(waiting[s]))

\* It asks for what the tree shows.
Wanted == \A c \in InFlight : c.on <=> c.key \in subscribed

\* After a request about an entry, unless its answer may be lost, comes the
\* one in flight on the same socket.
Followed(s, i) ==
    \E j \in i..Len(toHost[s]) : \E r \in requests :
        r.req = toHost[s][j].req /\ IsSub(r.content) /\ r.content.key = toHost[s][i].content.key

OthersLost ==
    \A s \in Sockets : \A i \in 1..Len(toHost[s]) :
        IsSub(toHost[s][i].content) /\ toHost[s][i].content.key \notin lost => Followed(s, i)

\* Pending requests were sent for the client the page is, or for none yet.
Asked ==
    \A r \in requests, s \in Sockets : \A i \in 1..Len(toHost[s]) :
        toHost[s][i].req = r.req =>
            toHost[s][i].clt \in IF IsSub(r.content) THEN {clt} ELSE {0, clt}

\* The tree shows these entries as client id has subscribed them.
Shows(id, keys) ==
    \A k \in keys \ (errors \cup lost) : k \in subscribed <=> k \in Subscriptions(id)

\* With the answer that grants a toggle the tree shows what the host has for
\* the client it names, the one the page is or, if it is none, becomes.
Answered ==
    \A r \in requests, a \in Answers :
        a.req = r.req => IF IsSub(r.content) /\ a.ok
                           THEN a.clt # 0 /\ clt \in {0, a.clt} /\ Shows(a.clt, SubKeys)
                           ELSE a.clt \in {0, clt}

OnCourse ==
    /\ OneToggle
    /\ Wanted
    /\ OthersLost
    /\ Asked
    /\ Answered
    /\ Shows(clt, SubKeys \ Keys(InFlight))

MessagesInv == IdInv /\ ChannelInv
ToggleInv == PageInv /\ MessagesInv /\ (~overlapped => OnCourse)

\* Without a toggle in flight nothing is excluded.
LEMMA OnCourseShows == OnCourse /\ InFlight = {} =>
                         \A k \in SubKeys \ (errors \cup lost) :
                            k \in subscribed <=> k \in Subscriptions(clt)
BY DEF OnCourse, Shows, Keys

-----------------------------------------------------------------------------
(* The messages on their way                                               *)

LEMMA AnswersTyped == HostInv => Answers \subseteq Responses(Len(clients))
<1> SUFFICES ASSUME HostInv, NEW a \in Answers PROVE a \in Responses(Len(clients))
  OBVIOUS
<1>1. PICK s \in Sockets : a \in Range(toClient[s]) /\ a.msg = "resp"
  BY DEF Answers
<1>2. toClient[s] \in Seq(ToClient(Len(clients)))
  BY DEF HostInv
<1>3. a \in ToClient(Len(clients))
  BY <1>1, <1>2 DEF Range
<1> QED BY <1>1, <1>3 DEF ToClient, EventMessages

\* What a step leaves of the requests on their way: the last ones of a socket.
Suffix(new, old, n) == Len(new) = Len(old) - n /\ \A i \in 1..Len(new) : new[i] = old[i + n]
Shorter == \A s \in Sockets : \E n \in Nat : Suffix(toHost'[s], toHost[s], n)

LEMMA ToHostTyped ==
  ASSUME HostInv, NEW s \in Sockets
  PROVE  toHost[s] \in Seq(ToHost(Len(clients))) /\ Len(toHost[s]) \in Nat
BY DEF HostInv

LEMMA SuffixSame ==
  ASSUME NEW c, Len(c) \in Nat
  PROVE  Suffix(c, c, 0)
BY DEF Suffix

LEMMA ShorterSame == HostInv /\ toHost' = toHost => Shorter
<1> SUFFICES ASSUME HostInv, toHost' = toHost, NEW s \in Sockets
             PROVE  Suffix(toHost'[s], toHost[s], 0)
  BY DEF Shorter
<1>1. Len(toHost[s]) \in Nat
  BY ToHostTyped
<1> QED BY <1>1, SuffixSame

LEMMA ShorterTail ==
  ASSUME HostInv, NEW s \in Sockets, toHost[s] # <<>>,
         toHost' = [toHost EXCEPT ![s] = Tail(@)]
  PROVE  Shorter
<1> SUFFICES ASSUME NEW t \in Sockets PROVE \E n \in Nat : Suffix(toHost'[t], toHost[t], n)
  BY DEF Shorter
<1>1. toHost \in [Sockets -> Seq(ToHost(Len(clients)))]
  BY DEF HostInv
<1>2. CASE t = s
  <2>1. toHost'[t] = Tail(toHost[t]) /\ toHost[t] \in Seq(ToHost(Len(clients)))
    BY <1>1, <1>2
  <2> DEFINE c == toHost[t]
  <2>2. c \in Seq(ToHost(Len(clients))) /\ c # <<>>
    BY <1>2, <2>1
  <2>3. /\ Len(Tail(c)) = Len(c) - 1
        /\ \A i \in 1..Len(Tail(c)) : Tail(c)[i] = c[i + 1]
    BY <2>2, HeadTailProperties
  <2>4. Suffix(Tail(c), c, 1)
    BY <2>3 DEF Suffix
  <2> QED BY <2>1, <2>4
<1>3. CASE t # s
  <2>1. toHost'[t] = toHost[t] /\ Len(toHost[t]) \in Nat
    BY <1>1, <1>3, ToHostTyped
  <2>2. Suffix(toHost'[t], toHost[t], 0)
    BY <2>1, SuffixSame
  <2> QED BY <2>2
<1> QED BY <1>2, <1>3

LEMMA ShorterClosed ==
  ASSUME HostInv, NEW s \in Sockets, toHost' = [toHost EXCEPT ![s] = <<>>]
  PROVE  Shorter
<1> SUFFICES ASSUME NEW t \in Sockets PROVE \E n \in Nat : Suffix(toHost'[t], toHost[t], n)
  BY DEF Shorter
<1>1. toHost \in [Sockets -> Seq(ToHost(Len(clients)))] /\ Len(toHost[t]) \in Nat
  BY ToHostTyped DEF HostInv
<1>2. CASE t = s
  <2>1. toHost'[t] = <<>> /\ Len(toHost'[t]) = 0
    BY <1>1, <1>2
  <2>2. Suffix(toHost'[t], toHost[t], Len(toHost[t]))
    BY <1>1, <2>1 DEF Suffix
  <2> QED BY <1>1, <2>2
<1>3. CASE t # s
  <2>1. toHost'[t] = toHost[t]
    BY <1>1, <1>3
  <2>2. Suffix(toHost'[t], toHost[t], 0)
    BY <1>1, <2>1, SuffixSame
  <2> QED BY <2>2
<1> QED BY <1>2, <1>3

\* Every request on its way was on its way before.
LEMMA ShorterFrom ==
  ASSUME HostInv, Shorter, HostInv', NEW s \in Sockets
  PROVE  \E n \in Nat : /\ Suffix(toHost'[s], toHost[s], n)
                        /\ \A i \in 1..Len(toHost'[s]) : /\ i + n \in 1..Len(toHost[s])
                                                         /\ toHost'[s][i] = toHost[s][i + n]
<1>1. PICK n \in Nat : Suffix(toHost'[s], toHost[s], n)
  BY DEF Shorter
<1>2. Len(toHost[s]) \in Nat
  BY ToHostTyped
<1>3. toHost'[s] \in Seq(ToHost(Len(clients')))
  BY DEF HostInv
<1>4. Len(toHost'[s]) \in Nat
  BY <1>3
<1> QED BY <1>1, <1>2, <1>4 DEF Suffix

\* What the handlers of messages and of closed sockets leave of the answers.
LEMMA AnswersSame == toClient' = toClient => Answers' = Answers
BY DEF Answers

LEMMA AnswersTail ==
  ASSUME HostInv, NEW s \in Sockets, NEW msg, Arrives(s, msg)
  PROVE  /\ Answers' \subseteq Answers
         /\ msg = "resp" => Head(toClient[s]) \in Answers
<1>1. /\ toClient \in [Sockets -> Seq(ToClient(Len(clients)))] /\ toClient[s] # <<>>
      /\ toClient' = [toClient EXCEPT ![s] = Tail(@)] /\ Head(toClient[s]).msg = msg
  BY DEF HostInv, Arrives
<1>2. Range(Tail(toClient[s])) \subseteq Range(toClient[s])
  <2> DEFINE c == toClient[s]
  <2>1. c \in Seq(ToClient(Len(clients))) /\ c # <<>>
    BY <1>1
  <2>2. /\ Len(Tail(c)) = Len(c) - 1
        /\ Tail(c) \in Seq(ToClient(Len(clients)))
        /\ \A i \in 1..Len(Tail(c)) : Tail(c)[i] = c[i + 1]
    BY <2>1, HeadTailProperties
  <2>3. DOMAIN c = 1..Len(c) /\ DOMAIN Tail(c) = 1..Len(Tail(c)) /\ Len(c) \in Nat
    BY <2>1, <2>2
  <2> HIDE DEF c
  <2>4. \A i \in DOMAIN Tail(c) : i + 1 \in DOMAIN c /\ Tail(c)[i] = c[i + 1]
    BY <2>2, <2>3
  <2>5. Range(Tail(c)) \subseteq Range(c)
    BY <2>4 DEF Range
  <2> QED BY <2>5 DEF c
<1>3. \A t \in Sockets : Range(toClient'[t]) \subseteq Range(toClient[t])
  BY <1>1, <1>2
<1>4. Answers' \subseteq Answers
  BY <1>3 DEF Answers
<1>5. Head(toClient[s]) \in Range(toClient[s])
  <2>1. toClient[s] \in Seq(ToClient(Len(clients)))
    BY <1>1
  <2>2. 1 \in DOMAIN toClient[s] /\ Head(toClient[s]) = toClient[s][1]
    BY <1>1, <2>1
  <2> QED BY <2>2 DEF Range
<1>6. msg = "resp" => Head(toClient[s]) \in Answers
  BY <1>1, <1>5 DEF Answers
<1> QED BY <1>4, <1>6

LEMMA AnswersClosed ==
  ASSUME HostInv, NEW s \in Sockets, toClient' = [toClient EXCEPT ![s] = <<>>]
  PROVE  Answers' \subseteq Answers
<1>1. Range(<<>>) = {}
  BY DEF Range
<1>2. \A t \in Sockets : Range(toClient'[t]) \subseteq Range(toClient[t])
  BY <1>1 DEF HostInv
<1> QED BY <1>2 DEF Answers

LEMMA AnswersAppend ==
  ASSUME HostInv, NEW s \in Sockets, NEW m,
         toClient' = [toClient EXCEPT ![s] = Append(@, m)]
  PROVE  Answers' \subseteq Answers \cup {a \in {m} : a.msg = "resp"}
<1>1. toClient \in [Sockets -> Seq(ToClient(Len(clients)))]
  BY DEF HostInv
<1>2. Range(Append(toClient[s], m)) \subseteq Range(toClient[s]) \cup {m}
  <2> DEFINE c == toClient[s]
  <2>1. c \in Seq(ToClient(Len(clients)))
    BY <1>1
  <2>2. DOMAIN c = 1..Len(c) /\ DOMAIN Append(c, m) = 1..(Len(c) + 1) /\ Len(c) \in Nat
    BY <2>1
  <2>3. \A i \in 1..(Len(c) + 1) : Append(c, m)[i] = IF i <= Len(c) THEN c[i] ELSE m
    BY <2>1
  <2> HIDE DEF c
  <2>4. \A i \in DOMAIN Append(c, m) : \/ i \in DOMAIN c /\ Append(c, m)[i] = c[i]
                                       \/ Append(c, m)[i] = m
    BY <2>2, <2>3
  <2>5. Range(Append(c, m)) \subseteq Range(c) \cup {m}
    BY <2>4 DEF Range
  <2> QED BY <2>5 DEF c
<1>3. \A t \in Sockets : Range(toClient'[t]) \subseteq Range(toClient[t]) \cup {m}
  BY <1>1, <1>2
<1> QED BY <1>3 DEF Answers

-----------------------------------------------------------------------------
(* Ids of requests and the sockets they travel on                          *)

LEMMA OneMessage ==
  ASSUME IdInv, NEW s \in Sockets, NEW t \in Sockets,
         NEW i \in 1..Len(toHost[s]), NEW j \in 1..Len(toHost[t]),
         toHost[s][i].req = toHost[t][j].req
  PROVE  s = t /\ i = j
BY DEF IdInv

LEMMA IdShorter ==
  ASSUME HostInv, HostInv', IdInv, Shorter, Answers' \subseteq Answers,
         requests' \subseteq requests, req' = req
  PROVE  IdInv'
<1>1. \A s \in Sockets : \E n \in Nat :
        \A i \in 1..Len(toHost'[s]) : i + n \in 1..Len(toHost[s]) /\ toHost'[s][i] = toHost[s][i + n]
  BY ShorterFrom
<1>2. \A s \in Sockets : \A i \in 1..Len(toHost'[s]) : toHost'[s][i].req < req
  BY <1>1 DEF IdInv
<1>3. ASSUME NEW s \in Sockets, NEW t \in Sockets,
             NEW i \in 1..Len(toHost'[s]), NEW j \in 1..Len(toHost'[t]),
             toHost'[s][i].req = toHost'[t][j].req
      PROVE  s = t /\ i = j
  <2>1. PICK n \in Nat : \A k \in 1..Len(toHost'[s]) :
          k + n \in 1..Len(toHost[s]) /\ toHost'[s][k] = toHost[s][k + n]
    BY <1>1
  <2>2. PICK m \in Nat : \A k \in 1..Len(toHost'[t]) :
          k + m \in 1..Len(toHost[t]) /\ toHost'[t][k] = toHost[t][k + m]
    BY <1>1
  <2>3. /\ i + n \in 1..Len(toHost[s]) /\ toHost'[s][i] = toHost[s][i + n]
        /\ j + m \in 1..Len(toHost[t]) /\ toHost'[t][j] = toHost[t][j + m]
    BY <2>1, <2>2
  <2>4. toHost[s][i + n].req = toHost[t][j + m].req
    BY <1>3, <2>3
  <2>5. s = t
    BY <2>3, <2>4, OneMessage
  <2>6. /\ j + n \in 1..Len(toHost[s]) /\ toHost[s][i + n].req = toHost[s][j + n].req
    BY <1>3, <2>1, <2>3, <2>5
  <2>7. \A a, b \in 1..Len(toHost[s]) : toHost[s][a].req = toHost[s][b].req => a = b
    BY OneMessage
  <2>8. i + n = j + n
    BY <2>3, <2>6, <2>7
  <2> QED BY <2>5, <2>8
<1>4. ASSUME NEW a \in Answers', NEW s \in Sockets, NEW i \in 1..Len(toHost'[s])
      PROVE  a.req # toHost'[s][i].req
  <2>1. PICK n \in Nat : i + n \in 1..Len(toHost[s]) /\ toHost'[s][i] = toHost[s][i + n]
    BY <1>1
  <2>2. a \in Answers
    OBVIOUS
  <2>3. \A j \in 1..Len(toHost[s]) : a.req # toHost[s][j].req
    BY <2>2 DEF IdInv
  <2> QED BY <2>1, <2>3
<1>5. \A r \in requests', s \in Sockets : \A i \in 1..Len(toHost'[s]) :
        toHost'[s][i].req = r.req => toHost'[s][i].content = r.content
  <2> SUFFICES ASSUME NEW r \in requests', NEW s \in Sockets, NEW i \in 1..Len(toHost'[s]),
                      toHost'[s][i].req = r.req
               PROVE  toHost'[s][i].content = r.content
    OBVIOUS
  <2>1. PICK n \in Nat : i + n \in 1..Len(toHost[s]) /\ toHost'[s][i] = toHost[s][i + n]
    BY <1>1
  <2>2. r \in requests
    OBVIOUS
  <2> QED BY <2>1, <2>2 DEF IdInv
<1>6. \A a \in Answers' : a.req < req'
  BY DEF IdInv
<1>7. \A r1, r2 \in requests' : r1.req = r2.req => r1 = r2
  BY DEF IdInv
<1> QED BY <1>2, <1>3, <1>4, <1>5, <1>6, <1>7 DEF IdInv

\* A request is sent on the socket of the client, if it is open.
Message(content) == [req |-> req, ack |-> lastEventSeq, clt |-> clt, content |-> content]

LEMMA SentFrom ==
  ASSUME SocketInv, HostInv, NEW content \in Contents, NEW states,
         SyncRequestIn(content, states), NEW s \in Sockets
  PROVE  /\ Len(toHost[s]) \in Nat /\ Len(toHost'[s]) \in Nat
         /\ Len(toHost[s]) <= Len(toHost'[s])
         /\ \A i \in 1..Len(toHost[s]) : toHost'[s][i] = toHost[s][i]
         /\ \A i \in 1..Len(toHost'[s]) :
              i > Len(toHost[s]) => /\ i = Len(toHost[s]) + 1
                                    /\ s = webSocket /\ states[s] = "open"
                                    /\ toHost'[s][i] = Message(content)
         /\ s = webSocket /\ states[s] = "open" => Len(toHost'[s]) = Len(toHost[s]) + 1
<1> DEFINE c == toHost[s]
<1>1. toHost \in [Sockets -> Seq(ToHost(Len(clients)))]
  BY DEF HostInv
<1>2. c \in Seq(ToHost(Len(clients))) /\ Len(c) \in Nat
  BY <1>1
<1>3. /\ webSocket # 0 /\ states[webSocket] = "open" =>
           toHost' = [toHost EXCEPT ![webSocket] = Append(@, Message(content))]
      /\ ~(webSocket # 0 /\ states[webSocket] = "open") => toHost' = toHost
  BY DEF SyncRequestIn, Message
<1>4. CASE s = webSocket /\ states[s] = "open"
  <2>1. webSocket # 0
    BY <1>4, MaxSocketsAssumption DEF Sockets
  <2>2. toHost'[s] = Append(c, Message(content))
    BY <1>1, <1>3, <1>4, <2>1
  <2>3. Len(Append(c, Message(content))) = Len(c) + 1
    BY <1>2
  <2>4. \A i \in 1..(Len(c) + 1) :
          Append(c, Message(content))[i] = IF i <= Len(c) THEN c[i] ELSE Message(content)
    BY <1>2
  <2> QED BY <1>2, <1>4, <2>2, <2>3, <2>4
<1>5. CASE ~(s = webSocket /\ states[s] = "open")
  <2>1. toHost'[s] = toHost[s]
    BY <1>1, <1>3, <1>5
  <2> QED BY <1>2, <1>5, <2>1
<1> QED BY <1>4, <1>5

LEMMA IdSent ==
  ASSUME SocketInv, HostInv, IdInv, NEW content \in Contents, NEW states,
         SyncRequestIn(content, states), Answers' = Answers
  PROVE  IdInv'
<1>1. /\ req' = req + 1 /\ req \in Nat
      /\ requests' = requests \cup {[req |-> req, content |-> content]}
      /\ \A r \in requests : r.req < req
  BY DEF SyncRequestIn, SocketInv
<1>2. \A s \in Sockets : \A i \in 1..Len(toHost[s]) :
         toHost[s][i].req < req /\ toHost[s][i].req \in Nat
  <2> SUFFICES ASSUME NEW s \in Sockets, NEW i \in 1..Len(toHost[s])
               PROVE  toHost[s][i].req < req /\ toHost[s][i].req \in Nat
    OBVIOUS
  <2>1. toHost[s] \in Seq(ToHost(Len(clients)))
    BY ToHostTyped
  <2>2. toHost[s][i] \in ToHost(Len(clients))
    BY <2>1
  <2> QED BY <2>2 DEF IdInv, ToHost
<1>3. \A a \in Answers : a.req < req /\ a.req \in Nat
  BY AnswersTyped DEF IdInv, Responses
<1>4. \A s \in Sockets : \A i \in 1..Len(toHost'[s]) :
        \/ i \in 1..Len(toHost[s]) /\ toHost'[s][i] = toHost[s][i]
        \/ /\ i = Len(toHost[s]) + 1 /\ s = webSocket
           /\ toHost'[s][i].req = req /\ toHost'[s][i].content = content
  <2> SUFFICES ASSUME NEW s \in Sockets, NEW i \in 1..Len(toHost'[s])
               PROVE  \/ i \in 1..Len(toHost[s]) /\ toHost'[s][i] = toHost[s][i]
                      \/ /\ i = Len(toHost[s]) + 1 /\ s = webSocket
                         /\ toHost'[s][i].req = req /\ toHost'[s][i].content = content
    OBVIOUS
  <2>1. CASE i > Len(toHost[s])
    <3>1. i = Len(toHost[s]) + 1 /\ s = webSocket /\ toHost'[s][i] = Message(content)
      BY <2>1, SentFrom
    <3> QED BY <3>1 DEF Message
  <2>2. CASE ~(i > Len(toHost[s]))
    <3>1. /\ Len(toHost[s]) \in Nat /\ Len(toHost'[s]) \in Nat
          /\ \A j \in 1..Len(toHost[s]) : toHost'[s][j] = toHost[s][j]
      BY SentFrom
    <3> QED BY <2>2, <3>1
  <2> QED BY <2>1, <2>2
<1>5. \A r1, r2 \in requests' : r1.req = r2.req => r1 = r2
  BY <1>1 DEF IdInv
<1>6. \A s \in Sockets : \A i \in 1..Len(toHost'[s]) : toHost'[s][i].req < req'
  BY <1>1, <1>2, <1>4
<1>7. \A a \in Answers' : a.req < req'
  BY <1>1, <1>3
<1>8. \A s, t \in Sockets : \A i \in 1..Len(toHost'[s]), j \in 1..Len(toHost'[t]) :
        toHost'[s][i].req = toHost'[t][j].req => s = t /\ i = j
  <2> SUFFICES ASSUME NEW s \in Sockets, NEW t \in Sockets,
                      NEW i \in 1..Len(toHost'[s]), NEW j \in 1..Len(toHost'[t]),
                      toHost'[s][i].req = toHost'[t][j].req
               PROVE  s = t /\ i = j
    OBVIOUS
  <2>1. CASE toHost'[s][i].req = req
    <3>1. ~(i \in 1..Len(toHost[s]) /\ toHost'[s][i] = toHost[s][i])
      BY <1>1, <1>2, <2>1
    <3>2. ~(j \in 1..Len(toHost[t]) /\ toHost'[t][j] = toHost[t][j])
      <4>1. toHost'[t][j].req = req
        BY <2>1
      <4> QED BY <1>1, <1>2, <4>1
    <3>3. i = Len(toHost[s]) + 1 /\ s = webSocket
      BY <1>4, <3>1
    <3>4. j = Len(toHost[t]) + 1 /\ t = webSocket
      BY <1>4, <3>2
    <3> QED BY <3>3, <3>4
  <2>2. CASE toHost'[s][i].req # req
    <3>1. i \in 1..Len(toHost[s]) /\ toHost'[s][i] = toHost[s][i]
      BY <1>4, <2>2
    <3>2. j \in 1..Len(toHost[t]) /\ toHost'[t][j] = toHost[t][j]
      BY <1>4, <2>2
    <3> QED BY <3>1, <3>2, OneMessage
  <2> QED BY <2>1, <2>2
<1>9. ASSUME NEW a \in Answers', NEW s \in Sockets, NEW i \in 1..Len(toHost'[s])
      PROVE  a.req # toHost'[s][i].req
  <2>1. a.req < req /\ a.req \in Nat /\ \A j \in 1..Len(toHost[s]) : a.req # toHost[s][j].req
    BY <1>3 DEF IdInv
  <2>2. \/ i \in 1..Len(toHost[s]) /\ toHost'[s][i] = toHost[s][i]
        \/ toHost'[s][i].req = req
    BY <1>4
  <2> QED BY <1>1, <2>1, <2>2
<1>10. \A r \in requests', s \in Sockets : \A i \in 1..Len(toHost'[s]) :
         toHost'[s][i].req = r.req => toHost'[s][i].content = r.content
  BY <1>1, <1>2, <1>4 DEF IdInv
<1> QED BY <1>5, <1>6, <1>7, <1>8, <1>9, <1>10 DEF IdInv

\* The answer takes the place of the request.
LEMMA IdAnswer ==
  ASSUME PageInv, HostInv', IdInv, NEW s \in Sockets, NEW ok \in BOOLEAN, HostAnswer(s, ok)
  PROVE  IdInv'
<1>1. /\ toHost[s] # <<>> /\ toHost' = [toHost EXCEPT ![s] = Tail(@)]
      /\ UNCHANGED <<req, requests>>
      /\ \E a : /\ a.req = Head(toHost[s]).req
                /\ toClient' = [toClient EXCEPT ![s] = Append(@, a)]
  BY DEF HostAnswer
<1>2. HostInv
  BY DEF PageInv
<1>3. toHost[s] \in Seq(ToHost(Len(clients))) /\ Len(toHost[s]) \in Nat
  BY <1>2, ToHostTyped
<1>4. Head(toHost[s]) = toHost[s][1] /\ 1 \in 1..Len(toHost[s])
  BY <1>1, <1>3
<1>5. \A a \in Answers' : a \in Answers \/ a.req = toHost[s][1].req
  BY <1>1, <1>2, <1>4, AnswersAppend
<1>6. Shorter
  BY <1>1, <1>2, ShorterTail
<1>7. \A t \in Sockets : \A i \in 1..Len(toHost'[t]) :
        toHost'[t][i].req # toHost[s][1].req
  <2> SUFFICES ASSUME NEW t \in Sockets, NEW i \in 1..Len(toHost'[t]),
                      toHost'[t][i].req = toHost[s][1].req
               PROVE  FALSE
    OBVIOUS
  <2>1. PICK n \in Nat : /\ Suffix(toHost'[t], toHost[t], n)
                         /\ i + n \in 1..Len(toHost[t]) /\ toHost'[t][i] = toHost[t][i + n]
    BY <1>2, <1>6, ShorterFrom
  <2>2. t = s /\ i + n = 1
    BY <1>4, <2>1 DEF IdInv
  <2>3. Len(toHost'[s]) = Len(toHost[s]) - 1
    BY <1>1, <1>2, <1>3, HeadTailProperties DEF HostInv
  <2>4. n = 1
    BY <1>3, <2>1, <2>2, <2>3 DEF Suffix
  <2> QED BY <2>2, <2>4
<1>8. \A t \in Sockets : \A i \in 1..Len(toHost'[t]) :
        \E j \in 1..Len(toHost[t]) : toHost'[t][i] = toHost[t][j]
  BY <1>2, <1>6, ShorterFrom
<1>9. \A a \in Answers' : a.req < req'
  BY <1>1, <1>4, <1>5 DEF IdInv
<1>10. \A a \in Answers', t \in Sockets : \A i \in 1..Len(toHost'[t]) : a.req # toHost'[t][i].req
  BY <1>5, <1>7, <1>8 DEF IdInv
<1>11. \A r \in requests', t \in Sockets : \A i \in 1..Len(toHost'[t]) :
         toHost'[t][i].req = r.req => toHost'[t][i].content = r.content
  BY <1>1, <1>8 DEF IdInv
<1>12. \A t \in Sockets : \A i \in 1..Len(toHost'[t]) : toHost'[t][i].req < req'
  BY <1>1, <1>8 DEF IdInv
<1>13. \A r1, r2 \in requests' : r1.req = r2.req => r1 = r2
  BY <1>1 DEF IdInv
<1>14. \A t, u \in Sockets : \A i \in 1..Len(toHost'[t]), j \in 1..Len(toHost'[u]) :
         toHost'[t][i].req = toHost'[u][j].req => t = u /\ i = j
  <2> SUFFICES ASSUME NEW t \in Sockets, NEW u \in Sockets,
                      NEW i \in 1..Len(toHost'[t]), NEW j \in 1..Len(toHost'[u]),
                      toHost'[t][i].req = toHost'[u][j].req
               PROVE  t = u /\ i = j
    OBVIOUS
  <2>1. PICK n \in Nat : Suffix(toHost'[t], toHost[t], n)
                         /\ \A k \in 1..Len(toHost'[t]) :
                              k + n \in 1..Len(toHost[t]) /\ toHost'[t][k] = toHost[t][k + n]
    BY <1>2, <1>6, ShorterFrom
  <2>2. PICK m \in Nat : Suffix(toHost'[u], toHost[u], m)
                         /\ \A k \in 1..Len(toHost'[u]) :
                              k + m \in 1..Len(toHost[u]) /\ toHost'[u][k] = toHost[u][k + m]
    BY <1>2, <1>6, ShorterFrom
  <2>3. /\ i + n \in 1..Len(toHost[t]) /\ toHost'[t][i] = toHost[t][i + n]
        /\ j + m \in 1..Len(toHost[u]) /\ toHost'[u][j] = toHost[u][j + m]
    BY <2>1, <2>2
  <2>4. t = u
    BY <2>3, OneMessage
  <2>5. j + n \in 1..Len(toHost[t]) /\ toHost'[t][j] = toHost[t][j + n]
    BY <2>1, <2>4
  <2>6. toHost[t][i + n].req = toHost[t][j + n].req
    BY <2>3, <2>4, <2>5
  <2>7. \A a, b \in 1..Len(toHost[t]) : toHost[t][a].req = toHost[t][b].req => a = b
    BY OneMessage
  <2>8. i + n = j + n
    BY <2>3, <2>5, <2>6, <2>7
  <2> QED BY <2>4, <2>8
<1> QED BY <1>9, <1>10, <1>11, <1>12, <1>13, <1>14 DEF IdInv

\* A request is sent where it can travel.
LEMMA ChannelSent ==
  ASSUME SocketInv, HostInv, ChannelInv, NEW content \in Contents,
         SyncRequestIn(content, readyState'), webSocket' = webSocket,
         \/ readyState' = readyState
         \/ \E s \in Sockets : Opened(s)
  PROVE  ChannelInv'
<1>1. \A s \in Sockets : readyState[s] \in {"open", "closing"} => readyState'[s] = readyState[s]
  BY DEF Opened, SocketInv
<1>2. webSocket # 0 => webSocket \in Sockets /\ readyState'[webSocket] # "closing"
  BY DEF Opened, SocketInv, ChannelInv
<1>3. ASSUME NEW s \in Sockets, toHost'[s] # <<>>
      PROVE  readyState'[s] \in {"open", "closing"}
  <2>1. CASE toHost'[s] = toHost[s]
    BY <1>1, <1>3, <2>1 DEF ChannelInv
  <2>2. CASE toHost'[s] # toHost[s]
    <3>1. s = webSocket /\ readyState'[webSocket] = "open"
      BY <2>2 DEF SyncRequestIn, HostInv
    <3> QED BY <3>1
  <2> QED BY <2>1, <2>2
<1> QED BY <1>2, <1>3 DEF ChannelInv

LEMMA MessagesSent ==
  ASSUME SocketInv, HostInv, MessagesInv, NEW content \in Contents,
         SyncRequestIn(content, readyState'), webSocket' = webSocket, toClient' = toClient,
         \/ readyState' = readyState
         \/ \E s \in Sockets : Opened(s)
  PROVE  MessagesInv'
<1>1. Answers' = Answers
  BY AnswersSame
<1> QED BY <1>1, IdSent, ChannelSent DEF MessagesInv

\* A socket is created, closed or replaced.
LEMMA MessagesSocket ==
  ASSUME SocketInv, HostInv, HostInv', MessagesInv,
         \/ \E s \in Sockets : Connect(s) \/ Reconnect(s)
         \/ Close
  PROVE  MessagesInv'
<1>1. UNCHANGED <<req, requests, toHost, toClient>>
  BY DEF Connect, Reconnect, Close
<1>2. IdInv'
  BY <1>1, AnswersSame, ShorterSame, IdShorter DEF MessagesInv
<1>3. ChannelInv'
  <2>1. ASSUME NEW s \in Sockets, Connect(s) PROVE ChannelInv'
    BY <2>1 DEF Connect, Created, ChannelInv, SocketInv, MessagesInv
  <2>2. ASSUME NEW s \in Sockets, Reconnect(s) PROVE ChannelInv'
    BY <2>2 DEF Reconnect, Created, Closing, ChannelInv, SocketInv, MessagesInv
  <2>3. CASE Close
    BY <2>3 DEF Close, Closing, ChannelInv, SocketInv, MessagesInv
  <2> QED BY <2>1, <2>2, <2>3
<1> QED BY <1>2, <1>3 DEF MessagesInv

LEMMA MessagesClosed ==
  ASSUME SocketInv, HostInv, HostInv', MessagesInv, NEW s \in Sockets, Closed(s)
  PROVE  MessagesInv'
<1>1. /\ readyState' = [readyState EXCEPT ![s] = "closed"] /\ requests' = {}
      /\ toHost' = [toHost EXCEPT ![s] = <<>>] /\ toClient' = [toClient EXCEPT ![s] = <<>>]
      /\ UNCHANGED <<webSocket, req>>
  BY DEF Closed
<1>2. IdInv'
  BY <1>1, AnswersClosed, ShorterClosed, IdShorter DEF MessagesInv
<1>3. ChannelInv'
  BY <1>1 DEF ChannelInv, SocketInv, HostInv, MessagesInv
<1> QED BY <1>2, <1>3 DEF MessagesInv

LEMMA MessagesArrived ==
  ASSUME SocketInv, HostInv, HostInv', MessagesInv, NEW s \in Sockets,
         Response(s) \/ EventMessage(s)
  PROVE  MessagesInv' /\ Answers' \subseteq Answers
<1>1. /\ requests' \subseteq requests
      /\ UNCHANGED <<readyState, webSocket, req, toHost>>
  BY DEF Response, EventMessage
<1>2. \E msg : Arrives(s, msg)
  BY DEF Response, EventMessage
<1>3. Answers' \subseteq Answers
  BY <1>2, AnswersTail
<1>4. IdInv'
  BY <1>1, <1>3, ShorterSame, IdShorter DEF MessagesInv
<1>5. ChannelInv'
  BY <1>1 DEF ChannelInv, MessagesInv
<1> QED BY <1>3, <1>4, <1>5 DEF MessagesInv

LEMMA MessagesAnswer ==
  ASSUME PageInv, HostInv', MessagesInv, NEW s \in Sockets, NEW ok \in BOOLEAN, HostAnswer(s, ok)
  PROVE  MessagesInv'
<1>1. IdInv'
  BY IdAnswer DEF MessagesInv
<1>2. /\ toHost[s] # <<>> /\ toHost' = [toHost EXCEPT ![s] = Tail(@)]
      /\ UNCHANGED <<readyState, webSocket>>
  BY DEF HostAnswer
<1>3. ChannelInv'
  BY <1>2 DEF PageInv, HostInv, ChannelInv, MessagesInv
<1> QED BY <1>1, <1>3 DEF MessagesInv

\* An event is no answer.
LEMMA AnswersSend ==
  ASSUME PageInv, NEW i \in 1..Len(clients), NEW batch \in Batches, HostSend(i, batch)
  PROVE  Answers' \subseteq Answers
<1>1. HostInv
  BY DEF PageInv
<1>2. CASE toClient' = toClient
  BY <1>2, AnswersSame
<1>3. CASE toClient' # toClient
  <2>1. PICK m : /\ m.msg = "ev"
                 /\ toClient' = [toClient EXCEPT ![clients[i].socket] = Append(@, m)]
    BY <1>3 DEF HostSend
  <2>2. clients[i].socket \in Sockets
    <3>1. toClient \in [Sockets -> Seq(ToClient(Len(clients)))]
      BY <1>1 DEF HostInv
    <3> QED BY <1>3, <2>1, <3>1
  <2>3. Answers' \subseteq Answers \cup {a \in {m} : a.msg = "resp"}
    BY <1>1, <2>1, <2>2, AnswersAppend
  <2> QED BY <2>1, <2>3
<1> QED BY <1>2, <1>3

LEMMA MessagesSend ==
  ASSUME PageInv, HostInv', MessagesInv, NEW i \in 1..Len(clients), NEW batch \in Batches,
         HostSend(i, batch)
  PROVE  MessagesInv'
<1>1. UNCHANGED <<readyState, webSocket, req, requests, toHost>>
  BY DEF HostSend
<1>2. IdInv'
  BY <1>1, AnswersSend, ShorterSame, IdShorter DEF MessagesInv, PageInv
<1>3. ChannelInv'
  BY <1>1 DEF ChannelInv, MessagesInv
<1> QED BY <1>2, <1>3 DEF MessagesInv

LEMMA MessagesSame ==
  ASSUME HostInv, HostInv', MessagesInv, UNCHANGED socketVars
  PROVE  MessagesInv'
<1>1. UNCHANGED <<readyState, webSocket, req, requests, toHost, toClient>>
  BY DEF socketVars
<1>2. IdInv'
  BY <1>1, AnswersSame, ShorterSame, IdShorter DEF MessagesInv
<1>3. ChannelInv'
  BY <1>1 DEF ChannelInv, MessagesInv
<1> QED BY <1>2, <1>3 DEF MessagesInv

LEMMA MessagesNext == PageInv /\ PageInv' /\ MessagesInv /\ [Next]_vars => MessagesInv'
<1> SUFFICES ASSUME PageInv, PageInv', MessagesInv, [Next]_vars PROVE MessagesInv'
  OBVIOUS
<1>1. SocketInv /\ HostInv /\ HostInv'
  BY DEF PageInv
<1>2. Send \in Contents /\ Acknowledge \in Contents
  BY DEF Contents
<1>3. ASSUME NEW k \in SubKeys, ToggleSub(k) PROVE MessagesInv'
  <2>1. CASE SyncRequest(Subscribe(k, k \notin subscribed))
    <3>1. (k \notin subscribed) \in BOOLEAN
      OBVIOUS
    <3>2. Subscribe(k, k \notin subscribed) \in Contents
      BY <3>1, SubscribeContent
    <3> QED BY <1>1, <2>1, <3>2, MessagesSent DEF SyncRequest
  <2>2. CASE \E s \in Sockets : Connect(s)
    BY <1>1, <2>2, MessagesSocket
  <2> QED BY <1>3, <2>1, <2>2 DEF ToggleSub
<1>4. ASSUME NEW s \in Sockets, ConnectWebsocket(s) PROVE MessagesInv'
  BY <1>1, <1>4, MessagesSocket DEF ConnectWebsocket
<1>5. CASE CloseWebsocket
  BY <1>1, <1>5, MessagesSocket DEF CloseWebsocket
<1>6. CASE SendSyncRequest
  BY <1>1, <1>2, <1>6, MessagesSent DEF SendSyncRequest, SyncRequest
<1>7. CASE AckTimer
  BY <1>1, <1>2, <1>7, MessagesSent DEF AckTimer, AcknowledgeEvents, SyncRequest
<1>8. ASSUME NEW s \in Sockets, OnOpen(s) PROVE MessagesInv'
  <2>1. /\ Opened(s) /\ readyState' = [readyState EXCEPT ![s] = "open"]
        /\ readyState[s] = "connecting" /\ UNCHANGED <<webSocket, toClient>>
    BY <1>8 DEF OnOpen, Opened
  <2>2. CASE waiting[s] = Nothing
    <3>1. UNCHANGED <<req, requests, toHost>>
      BY <1>8, <2>2 DEF OnOpen
    <3>2. IdInv'
      BY <1>1, <2>1, <3>1, AnswersSame, ShorterSame, IdShorter DEF MessagesInv
    <3>3. ChannelInv'
      BY <1>1, <2>1, <3>1 DEF ChannelInv, MessagesInv, SocketInv
    <3> QED BY <3>2, <3>3 DEF MessagesInv
  <2>3. CASE waiting[s] # Nothing
    <3>1. waiting[s] \in Contents
      BY <2>3 DEF PageInv, TreeInv, Contents
    <3>2. SyncRequestIn(waiting[s], readyState')
      BY <1>8, <2>3 DEF OnOpen
    <3> QED BY <1>1, <2>1, <3>1, <3>2, MessagesSent
  <2> QED BY <2>2, <2>3
<1>9. ASSUME NEW s \in Sockets, OnClose(s) PROVE MessagesInv'
  BY <1>1, <1>9, MessagesClosed DEF OnClose
<1>10. ASSUME NEW s \in Sockets, OnResponse(s) PROVE MessagesInv'
  BY <1>1, <1>10, MessagesArrived DEF OnResponse
<1>11. ASSUME NEW s \in Sockets, OnEvents(s) PROVE MessagesInv'
  BY <1>1, <1>11, MessagesArrived DEF OnEvents
<1>12. CASE View \/ UNCHANGED vars
  BY <1>1, <1>12, MessagesSame DEF View, vars
<1>13. CASE Host
  BY <1>1, <1>13, MessagesAnswer, MessagesSend DEF Host
<1> QED BY <1>3, <1>4, <1>5, <1>6, <1>7, <1>8, <1>9, <1>10, <1>11, <1>12, <1>13
        DEF Next, Page

-----------------------------------------------------------------------------
(* The tree stays on course                                                *)

\* What is in flight is asked for by a request or waits for a socket.
LEMMA InFlightIs ==
  ASSUME NEW c
  PROVE  c \in InFlight <=> /\ IsSub(c)
                            /\ \/ \E r \in requests : r.content = c
                               \/ \E s \in Sockets : waiting[s] = c
BY DEF InFlight, Toggling, IsSub

LEMMA KeysIs ==
  ASSUME NEW k
  PROVE  k \in Keys(InFlight) <=> \E c \in InFlight : c.key = k
BY DEF Keys, InFlight

\* Steps that leave requests and subscriptions alone.
LEMMA CourseQuiet ==
  ASSUME PageInv, OnCourse, Answers' \subseteq Answers,
         UNCHANGED <<requests, waiting, subscribed, errors, lost, clt, toHost>>,
         \A n \in 0..Len(clients) : Subscriptions(n)' = Subscriptions(n)
  PROVE  OnCourse'
<1>1. InFlight' = InFlight /\ Keys(InFlight)' = Keys(InFlight)
  BY DEF InFlight, Toggling, Keys
<1>2. HostInv /\ clt \in 0..Len(clients)
  BY DEF PageInv, HostInv
<1>3. \A a \in Answers : a.clt \in 0..Len(clients)
  BY <1>2, AnswersTyped DEF Responses
<1>4. \A n \in 0..Len(clients) : \A keys : Shows(n, keys) => Shows(n, keys)'
  BY DEF Shows
<1>5. OneToggle'
  BY DEF OnCourse, OneToggle
<1>6. Wanted'
  BY <1>1 DEF OnCourse, Wanted
<1>7. OthersLost'
  BY DEF OnCourse, OthersLost, Followed
<1>8. Asked'
  BY DEF OnCourse, Asked
<1>9. Answered'
  BY <1>3, <1>4 DEF OnCourse, Answered
<1>10. Shows(clt, SubKeys \ Keys(InFlight))'
  BY <1>1, <1>2 DEF OnCourse, Shows
<1> QED BY <1>5, <1>6, <1>7, <1>8, <1>9, <1>10 DEF OnCourse

\* A request that is sent asks for the client the page is.
LEMMA AskedSent ==
  ASSUME SocketInv, HostInv, IdInv, Asked, Answered, NEW content \in Contents, NEW states,
         SyncRequestIn(content, states), Answers' = Answers, clt' = clt
  PROVE  /\ Asked'
         /\ \A r \in requests', a \in Answers' : a.req = r.req => r \in requests
<1>1. /\ req \in Nat /\ requests' = requests \cup {[req |-> req, content |-> content]}
      /\ \A r \in requests : r.req < req /\ r.req \in Nat
  BY DEF SyncRequestIn, SocketInv
<1>2. \A a \in Answers : a.req < req /\ a.req \in Nat
  BY AnswersTyped DEF IdInv, Responses
<1>3. \A r \in requests', a \in Answers' : a.req = r.req => r \in requests
  BY <1>1, <1>2
<1>4. ASSUME NEW r \in requests', NEW s \in Sockets, NEW i \in 1..Len(toHost'[s]),
             toHost'[s][i].req = r.req
      PROVE  toHost'[s][i].clt \in IF IsSub(r.content) THEN {clt} ELSE {0, clt}
  <2>1. CASE i > Len(toHost[s])
    <3>1. toHost'[s][i] = Message(content)
      BY <2>1, SentFrom
    <3> QED BY <3>1 DEF Message
  <2>2. CASE ~(i > Len(toHost[s]))
    <3>1. i \in 1..Len(toHost[s]) /\ toHost'[s][i] = toHost[s][i]
      <4>1. /\ Len(toHost[s]) \in Nat /\ Len(toHost'[s]) \in Nat
            /\ \A j \in 1..Len(toHost[s]) : toHost'[s][j] = toHost[s][j]
        BY SentFrom
      <4> QED BY <2>2, <4>1
    <3>2. toHost[s][i].req < req
      BY <3>1 DEF IdInv
    <3>3. r \in requests
      <4>1. r.req < req
        BY <1>4, <3>1, <3>2
      <4> QED BY <1>1, <4>1
    <3> QED BY <1>4, <3>1, <3>3 DEF Asked
  <2> QED BY <2>1, <2>2
<1> QED BY <1>3, <1>4 DEF Asked

\* A request that is no toggle.
LEMMA CourseSent ==
  ASSUME PageInv, MessagesInv, OnCourse, NEW content \in {Send, Acknowledge}, NEW states,
         SyncRequestIn(content, states), toClient' = toClient,
         UNCHANGED <<waiting, subscribed, errors, lost, clt, clients>>
  PROVE  OnCourse'
<1>1. /\ SocketInv /\ HostInv /\ IdInv /\ content \in Contents /\ ~IsSub(content)
      /\ Answers' = Answers
  BY AnswersSame DEF PageInv, MessagesInv, Contents, IsSub, Send, Acknowledge
<1>2. requests' = requests \cup {[req |-> req, content |-> content]}
  BY DEF SyncRequestIn
<1>3. InFlight' = InFlight
  BY <1>1, <1>2 DEF InFlight, Toggling, IsSub
<1>4. Keys(InFlight)' = Keys(InFlight)
  BY <1>3 DEF Keys
<1>5. OneToggle'
  BY <1>1, <1>2 DEF OnCourse, OneToggle
<1>6. Wanted'
  BY <1>3 DEF OnCourse, Wanted
<1>7. OthersLost'
  <2> SUFFICES ASSUME NEW s \in Sockets, NEW i \in 1..Len(toHost'[s]),
                      IsSub(toHost'[s][i].content), toHost'[s][i].content.key \notin lost
               PROVE  Followed(s, i)'
    BY DEF OthersLost
  <2>1. ~(i > Len(toHost[s]))
    <3>1. i > Len(toHost[s]) => toHost'[s][i] = Message(content)
      BY <1>1, SentFrom
    <3>2. IsSub(Message(content).content) => FALSE
      BY <1>1 DEF Message
    <3> QED BY <3>1, <3>2
  <2>2. /\ Len(toHost[s]) \in Nat /\ Len(toHost'[s]) \in Nat /\ Len(toHost[s]) <= Len(toHost'[s])
        /\ \A j \in 1..Len(toHost[s]) : toHost'[s][j] = toHost[s][j]
    BY <1>1, SentFrom
  <2>3. i \in 1..Len(toHost[s]) /\ toHost'[s][i] = toHost[s][i]
    BY <2>1, <2>2
  <2>4. Followed(s, i)
    BY <2>3 DEF OnCourse, OthersLost
  <2> QED BY <1>2, <2>2, <2>3, <2>4 DEF Followed
<1>8. /\ Asked'
      /\ \A r \in requests', a \in Answers' : a.req = r.req => r \in requests
  BY <1>1, AskedSent DEF OnCourse
<1>9. \A n, keys : Shows(n, keys)' = Shows(n, keys)
  BY DEF Shows, Subscriptions
<1>10. Answered'
  BY <1>1, <1>8, <1>9 DEF OnCourse, Answered
<1>11. Shows(clt, SubKeys \ Keys(InFlight))'
  BY <1>4 DEF OnCourse, Shows, Subscriptions
<1> QED BY <1>5, <1>6, <1>7, <1>8, <1>10, <1>11 DEF OnCourse

\* The request of a toggle is sent: no other is in flight, and the requests
\* about its entry that are on their way are on the same socket, or the entry
\* is one whose answer may be lost.
LEMMA CourseToggled ==
  ASSUME PageInv, MessagesInv, OnCourse, NEW content \in Toggles, NEW states,
         SyncRequestIn(content, states), toClient' = toClient,
         UNCHANGED <<clt, clients>>,
         \A r \in requests : ~IsSub(r.content),
         \A s \in Sockets : ~IsSub(waiting'[s]),
         content.on <=> content.key \in subscribed',
         \A s \in Sockets : \A i \in 1..Len(toHost[s]) :
            IsSub(toHost[s][i].content) =>
               \/ toHost[s][i].content.key \in lost'
               \/ s = webSocket /\ states[s] = "open" /\ toHost[s][i].content.key = content.key,
         Shows(clt, SubKeys \ {content.key})'
  PROVE  OnCourse'
<1>1. /\ SocketInv /\ HostInv /\ IdInv /\ content \in Contents /\ IsSub(content)
      /\ Answers' = Answers
  BY AnswersSame DEF PageInv, MessagesInv, Contents, Toggles, IsSub
<1> DEFINE new == [req |-> req, content |-> content]
<1>2. requests' = requests \cup {new} /\ new.req = req /\ new.content = content
  BY DEF SyncRequestIn
<1> HIDE DEF new
<1>3. InFlight' = {content}
  BY <1>1, <1>2 DEF InFlight, Toggling, IsSub
<1>4. Keys(InFlight)' = {content.key}
  BY <1>1, <1>3 DEF Keys, IsSub
<1>5. OneToggle'
  BY <1>2 DEF OneToggle
<1>6. Wanted'
  BY <1>3 DEF Wanted
<1>7. OthersLost'
  <2> SUFFICES ASSUME NEW s \in Sockets, NEW i \in 1..Len(toHost'[s]),
                      IsSub(toHost'[s][i].content), toHost'[s][i].content.key \notin lost'
               PROVE  Followed(s, i)'
    BY DEF OthersLost
  <2>1. /\ Len(toHost[s]) \in Nat /\ Len(toHost'[s]) \in Nat /\ Len(toHost[s]) <= Len(toHost'[s])
        /\ \A j \in 1..Len(toHost[s]) : toHost'[s][j] = toHost[s][j]
        /\ s = webSocket /\ states[s] = "open" => Len(toHost'[s]) = Len(toHost[s]) + 1
    BY <1>1, SentFrom
  <2>2. \A j \in 1..Len(toHost'[s]) : j > Len(toHost[s]) =>
           toHost'[s][j].req = req /\ toHost'[s][j].content = content
    <3>1. \A j \in 1..Len(toHost'[s]) : j > Len(toHost[s]) => toHost'[s][j] = Message(content)
      BY <1>1, SentFrom
    <3> QED BY <3>1 DEF Message
  <2>3. CASE i > Len(toHost[s])
    <3>1. /\ i \in i..Len(toHost'[s]) /\ new \in requests' /\ new.req = toHost'[s][i].req
          /\ IsSub(new.content) /\ new.content.key = toHost'[s][i].content.key
      BY <1>1, <1>2, <2>1, <2>2, <2>3
    <3> QED BY <3>1 DEF Followed
  <2>4. CASE ~(i > Len(toHost[s]))
    <3>1. i \in 1..Len(toHost[s]) /\ toHost'[s][i] = toHost[s][i]
      BY <2>1, <2>4
    <3>2. s = webSocket /\ states[s] = "open" /\ toHost[s][i].content.key = content.key
      BY <3>1
    <3> DEFINE n == Len(toHost[s]) + 1
    <3>3. n \in i..Len(toHost'[s]) /\ n \in 1..Len(toHost'[s]) /\ n > Len(toHost[s])
      BY <2>1, <3>1, <3>2
    <3>4. toHost'[s][n].req = req
      BY <2>2, <3>3
    <3>5. /\ new \in requests' /\ new.req = toHost'[s][n].req
          /\ IsSub(new.content) /\ new.content.key = toHost'[s][i].content.key
      BY <1>1, <1>2, <3>1, <3>2, <3>4
    <3> HIDE DEF n
    <3> QED BY <3>3, <3>5 DEF Followed
  <2> QED BY <2>3, <2>4
<1>8. /\ Asked'
      /\ \A r \in requests', a \in Answers' : a.req = r.req => r \in requests
  BY <1>1, AskedSent DEF OnCourse
<1>9. Answered'
  BY <1>1, <1>8 DEF OnCourse, Answered
<1>10. Shows(clt, SubKeys \ Keys(InFlight))'
  BY <1>4 DEF Shows
<1> QED BY <1>5, <1>6, <1>7, <1>8, <1>9, <1>10 DEF OnCourse

\* A toggle that connects first.
LEMMA CourseConnecting ==
  ASSUME PageInv, MessagesInv, OnCourse, InFlight = {}, NEW content \in Toggles, NEW s \in Sockets,
         UNCHANGED <<requests, clt, clients, toHost, toClient>>,
         waiting' = [waiting EXCEPT ![s] = content],
         content.on <=> content.key \in subscribed',
         \A t \in Sockets : \A i \in 1..Len(toHost[t]) :
            IsSub(toHost[t][i].content) => toHost[t][i].content.key \in lost',
         Shows(clt, SubKeys \ {content.key})'
  PROVE  OnCourse'
<1>1. /\ waiting \in [Sockets -> Toggles \cup {Nothing}] /\ IsSub(content)
  BY DEF PageInv, TreeInv, Toggles, IsSub
<1>2. /\ \A r \in requests : ~IsSub(r.content)
      /\ \A t \in Sockets : ~IsSub(waiting[t])
  BY InFlightIs
<1>3. waiting'[s] = content /\ \A t \in Sockets : t # s => waiting'[t] = waiting[t]
  BY <1>1
<1>4. InFlight' = {content}
  BY <1>1, <1>2, <1>3 DEF InFlight, Toggling, IsSub
<1>5. Keys(InFlight)' = {content.key}
  BY <1>1, <1>4 DEF Keys, IsSub
<1>6. OneToggle'
  BY <1>2, <1>3 DEF OneToggle
<1>7. Wanted'
  BY <1>4 DEF Wanted
<1>8. OthersLost'
  BY DEF OthersLost
<1>9. Asked'
  BY DEF OnCourse, Asked
<1>10. Answered'
  BY <1>2, AnswersSame DEF OnCourse, Answered
<1>11. Shows(clt, SubKeys \ Keys(InFlight))'
  BY <1>5 DEF Shows
<1> QED BY <1>6, <1>7, <1>8, <1>9, <1>10, <1>11 DEF OnCourse

\* Without a toggle in flight the requests about entries that are on their way
\* are about those whose answer may be lost.
LEMMA NoneFollows ==
  ASSUME OnCourse, \A r \in requests : ~IsSub(r.content),
         NEW s \in Sockets, NEW i \in 1..Len(toHost[s]), IsSub(toHost[s][i].content)
  PROVE  toHost[s][i].content.key \in lost
BY DEF OnCourse, OthersLost, Followed

LEMMA CourseToggleSub ==
  ASSUME PageInv, MessagesInv, OnCourse, InFlight = {}, NEW k \in SubKeys, ToggleSub(k)
  PROVE  OnCourse'
<1>1. /\ UNCHANGED clients
      /\ subscribed' = IF k \in subscribed THEN subscribed \ {k} ELSE subscribed \cup {k}
      /\ errors' = errors \ {k}
      /\ lost' = IF \E s \in Sockets \ {webSocket} : k \in Travelling(s) THEN lost ELSE lost \ {k}
  BY DEF ToggleSub
<1>2. PICK content \in Toggles : content = Subscribe(k, k \notin subscribed)
  <2>1. (k \notin subscribed) \in BOOLEAN
    OBVIOUS
  <2> QED BY <2>1, SubscribeContent
<1>3. content.key = k /\ (content.on <=> k \in subscribed')
  BY <1>1, <1>2 DEF Subscribe
<1>4. /\ \A r \in requests : ~IsSub(r.content)
      /\ \A s \in Sockets : ~IsSub(waiting[s])
  BY InFlightIs
<1>5. ASSUME UNCHANGED clt PROVE Shows(clt, SubKeys \ {k})'
  <2>1. Shows(clt, SubKeys)
    BY DEF OnCourse, Keys, Shows
  <2> QED BY <1>1, <1>5, <2>1 DEF Shows, Subscriptions
<1>6. ASSUME NEW s \in Sockets, NEW i \in 1..Len(toHost[s]), IsSub(toHost[s][i].content)
      PROVE  \/ toHost[s][i].content.key \in lost'
             \/ s = webSocket /\ toHost[s][i].content.key = k
  <2>1. toHost[s][i].content.key \in lost
    BY <1>4, <1>6, NoneFollows
  <2>2. toHost[s][i].content.key \in Travelling(s)
    <3>1. toHost[s] \in Seq(ToHost(Len(clients)))
      BY ToHostTyped DEF PageInv
    <3>2. i \in DOMAIN toHost[s]
      BY <3>1
    <3> QED BY <1>6, <3>2 DEF Travelling, Keys, IsSub
  <2> QED BY <1>1, <2>1, <2>2
<1>7. CASE IsOpen /\ SyncRequest(content) /\ UNCHANGED waiting
  <2>1. readyState[webSocket] = "open"
    BY <1>7 DEF IsOpen
  <2>2. /\ SyncRequestIn(content, readyState) /\ UNCHANGED <<toClient, clt, clients, waiting>>
    BY <1>1, <1>7 DEF SyncRequest
  <2>3. Shows(clt, SubKeys \ {content.key})'
    BY <1>3, <1>5, <2>2
  <2>4. \A s \in Sockets : \A i \in 1..Len(toHost[s]) :
          IsSub(toHost[s][i].content) =>
             \/ toHost[s][i].content.key \in lost'
             \/ s = webSocket /\ readyState[s] = "open" /\ toHost[s][i].content.key = content.key
    BY <1>3, <1>6, <2>1
  <2>5. \A s \in Sockets : ~IsSub(waiting'[s])
    BY <1>4, <2>2
  <2> QED BY <1>3, <1>4, <2>2, <2>3, <2>4, <2>5, CourseToggled
<1>8. CASE ~IsOpen /\ \E s \in Sockets : Connect(s) /\ waiting' = [waiting EXCEPT ![s] = content]
  <2>1. PICK s \in Sockets : Connect(s) /\ waiting' = [waiting EXCEPT ![s] = content]
    BY <1>8
  <2>2. UNCHANGED <<requests, clt, clients, toHost, toClient>>
    BY <1>1, <2>1 DEF Connect
  <2>3. webSocket \in Sockets => toHost[webSocket] = <<>>
    <3>1. webSocket \in Sockets => webSocket # 0
      BY MaxSocketsAssumption DEF Sockets
    <3> QED BY <1>8, <3>1 DEF IsOpen, MessagesInv, ChannelInv
  <2>4. \A t \in Sockets : \A i \in 1..Len(toHost[t]) :
          IsSub(toHost[t][i].content) => toHost[t][i].content.key \in lost'
    <3>1. 1..Len(<<>>) = {}
      OBVIOUS
    <3> QED BY <1>6, <2>3, <3>1
  <2>5. Shows(clt, SubKeys \ {content.key})'
    BY <1>3, <1>5, <2>2
  <2> QED BY <1>3, <2>1, <2>2, <2>4, <2>5, CourseConnecting
<1> QED BY <1>2, <1>7, <1>8 DEF ToggleSub

\* A socket opens: the toggle that waited for it is sent.
LEMMA CourseOpen ==
  ASSUME PageInv, MessagesInv, OnCourse, NEW s \in Sockets, OnOpen(s)
  PROVE  OnCourse'
<1>1. /\ waiting \in [Sockets -> Toggles \cup {Nothing}]
      /\ waiting' = [waiting EXCEPT ![s] = Nothing]
      /\ UNCHANGED <<subscribed, errors, lost, clt, clients, toClient>>
  BY DEF OnOpen, PageInv, TreeInv
<1>2. CASE waiting[s] = Nothing
  <2>1. UNCHANGED <<requests, toHost>>
    BY <1>2 DEF OnOpen
  <2>2. waiting' = waiting
    BY <1>1, <1>2
  <2>3. \A n \in 0..Len(clients) : Subscriptions(n)' = Subscriptions(n)
    BY <1>1 DEF Subscriptions
  <2> QED BY <1>1, <2>1, <2>2, <2>3, AnswersSame, CourseQuiet
<1>3. CASE waiting[s] # Nothing
  <2>1. PICK content \in Toggles : content = waiting[s]
    BY <1>1, <1>3
  <2>2. SyncRequestIn(content, readyState')
    BY <1>3, <2>1 DEF OnOpen
  <2>3. IsSub(content) /\ content \in InFlight
    BY <2>1, InFlightIs DEF Toggles, IsSub
  <2>4. \A r \in requests : ~IsSub(r.content)
    BY <2>1, <2>3 DEF OnCourse, OneToggle
  <2>5. \A t \in Sockets : ~IsSub(waiting'[t])
    BY <1>1, <2>1, <2>3 DEF OnCourse, OneToggle, IsSub, Nothing
  <2>6. content.on <=> content.key \in subscribed'
    BY <1>1, <2>3 DEF OnCourse, Wanted
  <2>7. \A t \in Sockets : \A i \in 1..Len(toHost[t]) :
          IsSub(toHost[t][i].content) => toHost[t][i].content.key \in lost'
    BY <1>1, <2>4, NoneFollows
  <2>8. Keys(InFlight) = {content.key}
    <3>1. \A c \in InFlight : c = content
      BY <2>1, <2>3, <2>4, InFlightIs DEF OnCourse, OneToggle
    <3> QED BY <2>3, <3>1 DEF Keys, IsSub
  <2>9. Shows(clt, SubKeys \ {content.key})'
    BY <1>1, <2>8 DEF OnCourse, Shows, Subscriptions
  <2> QED BY <1>1, <2>2, <2>4, <2>5, <2>6, <2>7, <2>9, CourseToggled
<1> QED BY <1>2, <1>3

\* A socket closes: what is in flight afterwards waits for another one.
LEMMA CourseClose ==
  ASSUME PageInv, MessagesInv, OnCourse, NEW s \in Sockets, OnClose(s)
  PROVE  OnCourse'
<1>1. /\ waiting \in [Sockets -> Toggles \cup {Nothing}]
      /\ waiting' = [waiting EXCEPT ![s] = Nothing]
      /\ errors' = errors \cup Keys({waiting[s]})
      /\ lost' = lost \cup Keys({r.content : r \in requests})
      /\ toHost' = [toHost EXCEPT ![s] = <<>>]
      /\ toHost \in [Sockets -> Seq(ToHost(Len(clients)))]
      /\ requests' = {}
      /\ UNCHANGED <<subscribed, clt, clients>>
  BY DEF OnClose, Closed, PageInv, TreeInv, HostInv
<1>2. waiting'[s] = Nothing /\ \A t \in Sockets : t # s => waiting'[t] = waiting[t]
  BY <1>1
<1>3. \A t \in Sockets : IsSub(waiting'[t]) => waiting'[t] = waiting[t]
  BY <1>2 DEF IsSub, Nothing
<1>4. \A c \in InFlight' : c \in InFlight /\ \E t \in Sockets : t # s /\ waiting[t] = c
  <2> SUFFICES ASSUME NEW c \in InFlight'
               PROVE  c \in InFlight /\ \E t \in Sockets : t # s /\ waiting[t] = c
    OBVIOUS
  <2>1. c.kind = "sub" /\ \E t \in Sockets : waiting'[t] = c
    BY <1>1 DEF InFlight, Toggling
  <2>2. PICK t \in Sockets : waiting'[t] = c
    BY <2>1
  <2>3. t # s
    BY <1>2, <2>1, <2>2 DEF Nothing
  <2> QED BY <1>2, <2>1, <2>2, <2>3, InFlightIs DEF IsSub
<1>5. OneToggle'
  BY <1>1, <1>3 DEF OnCourse, OneToggle
<1>6. Wanted'
  BY <1>1, <1>4 DEF OnCourse, Wanted
<1>7. \A r \in requests : IsSub(r.content) => r.content.key \in lost'
  BY <1>1 DEF Keys, IsSub
<1>8. OthersLost'
  <2> SUFFICES ASSUME NEW t \in Sockets, NEW i \in 1..Len(toHost'[t]),
                      IsSub(toHost'[t][i].content), toHost'[t][i].content.key \notin lost'
               PROVE  FALSE
    BY DEF OthersLost
  <2>1. t # s
    <3>1. 1..Len(<<>>) = {}
      OBVIOUS
    <3> QED BY <1>1, <3>1
  <2>2. toHost'[t] = toHost[t]
    BY <1>1, <2>1
  <2>3. toHost[t][i].content.key \notin lost
    BY <1>1, <2>2
  <2>4. Followed(t, i)
    BY <2>2, <2>3 DEF OnCourse, OthersLost
  <2> QED BY <1>7, <2>2, <2>4 DEF Followed
<1>9. Asked' /\ Answered'
  BY <1>1 DEF Asked, Answered
<1>10. Shows(clt, SubKeys \ Keys(InFlight))'
  <2> SUFFICES ASSUME NEW k \in SubKeys, k \notin errors', k \notin lost', k \notin Keys(InFlight)'
               PROVE  k \in subscribed' <=> k \in Subscriptions(clt)'
    BY DEF Shows
  <2>1. ASSUME NEW c \in InFlight, c.key = k PROVE FALSE
    <3>1. IsSub(c)
      BY InFlightIs
    <3>2. CASE \E r \in requests : r.content = c
      BY <1>7, <2>1, <3>1, <3>2
    <3>3. CASE \E t \in Sockets : waiting[t] = c
      <4>1. PICK t \in Sockets : waiting[t] = c
        BY <3>3
      <4>2. CASE t = s
        BY <1>1, <2>1, <3>1, <4>1, <4>2 DEF Keys, IsSub
      <4>3. CASE t # s
        <5>1. waiting'[t] = c
          BY <1>2, <4>1, <4>3
        <5>2. c \in InFlight'
          BY <3>1, <5>1 DEF InFlight, Toggling, IsSub
        <5>3. k \in Keys(InFlight)'
          BY <2>1, <3>1, <5>2 DEF Keys, IsSub
        <5> QED BY <5>3
      <4> QED BY <4>2, <4>3
    <3> QED BY <3>2, <3>3, InFlightIs
  <2>2. k \notin Keys(InFlight)
    BY <2>1, KeysIs
  <2>3. k \in subscribed <=> k \in Subscriptions(clt)
    BY <1>1, <2>2 DEF OnCourse, Shows
  <2> QED BY <1>1, <2>3 DEF Subscriptions
<1> QED BY <1>5, <1>6, <1>8, <1>9, <1>10 DEF OnCourse

\* An answer: what it was for is not in flight any more.
LEMMA CourseResponse ==
  ASSUME PageInv, MessagesInv, OnCourse, NEW s \in Sockets, OnResponse(s)
  PROVE  OnCourse'
<1>1. SocketInv /\ HostInv /\ IdInv /\ Arrives(s, "resp")
  BY DEF PageInv, MessagesInv, OnResponse, Response
<1>2. Head(toClient[s]) \in Answers /\ Answers' \subseteq Answers
  BY <1>1, AnswersTail
<1>3. PICK a \in Answers : a = Head(toClient[s])
  BY <1>2
<1>4. /\ requests' = {r \in requests : r.req # a.req}
      /\ clt' = IF (\E r \in requests : r.req = a.req) /\ a.clt # 0 THEN a.clt ELSE clt
      /\ errors' = IF a.ok THEN errors ELSE errors \cup Keys({r.content : r \in requests \ requests'})
      /\ UNCHANGED <<waiting, subscribed, lost, clients, toHost>>
  BY <1>3 DEF OnResponse, Response
<1>5. CASE \A r \in requests : r.req # a.req
  <2>1. requests' = requests /\ clt' = clt
    BY <1>4, <1>5
  <2>2. Keys({r.content : r \in requests \ requests'}) = {}
    BY <2>1 DEF Keys
  <2>3. errors' = errors
    BY <1>4, <2>2
  <2>4. \A n \in 0..Len(clients) : Subscriptions(n)' = Subscriptions(n)
    BY <1>4 DEF Subscriptions
  <2> QED BY <1>2, <1>4, <2>1, <2>3, <2>4, CourseQuiet
<1>6. ASSUME NEW r0 \in requests, r0.req = a.req PROVE OnCourse'
  <2>1. \A r \in requests : r.req = a.req => r = r0
    BY <1>1, <1>6 DEF IdInv
  <2>2. requests' = requests \ {r0} /\ requests \ requests' = {r0}
    BY <1>4, <1>6, <2>1
  <2>3. Keys({r.content : r \in requests \ requests'})
          = IF IsSub(r0.content) THEN {r0.content.key} ELSE {}
    BY <2>2 DEF Keys, IsSub
  <2>4. IF IsSub(r0.content) /\ a.ok
          THEN a.clt # 0 /\ clt \in {0, a.clt} /\ Shows(a.clt, SubKeys)
          ELSE a.clt \in {0, clt}
    BY <1>6 DEF OnCourse, Answered
  <2>5. clt' = IF IsSub(r0.content) /\ a.ok THEN a.clt ELSE clt
    BY <1>4, <1>6, <2>4
  <2>6. clt = 0 \/ clt' = clt
    BY <2>4, <2>5
  <2>7. \A r \in requests' : r \in requests /\ (IsSub(r.content) => ~IsSub(r0.content))
    BY <1>6, <2>2 DEF OnCourse, OneToggle
  <2>8. \A t \in Sockets : \A i \in 1..Len(toHost[t]) : toHost[t][i].req # r0.req
    BY <1>1, <1>6 DEF IdInv
  <2>9. OneToggle'
    BY <1>4, <2>2 DEF OnCourse, OneToggle
  <2>10. \A c \in InFlight' : c \in InFlight
    BY <1>4, <2>2 DEF InFlight, Toggling
  <2>11. Wanted'
    BY <1>4, <2>10 DEF OnCourse, Wanted
  <2>12. OthersLost'
    <3> SUFFICES ASSUME NEW t \in Sockets, NEW i \in 1..Len(toHost[t]),
                        IsSub(toHost[t][i].content), toHost[t][i].content.key \notin lost
                 PROVE  Followed(t, i)'
      BY <1>4 DEF OthersLost
    <3>1. PICK j \in i..Len(toHost[t]) : \E r \in requests :
             r.req = toHost[t][j].req /\ IsSub(r.content) /\ r.content.key = toHost[t][i].content.key
      BY DEF OnCourse, OthersLost, Followed
    <3>2. PICK r \in requests :
             r.req = toHost[t][j].req /\ IsSub(r.content) /\ r.content.key = toHost[t][i].content.key
      BY <3>1
    <3>3. j \in 1..Len(toHost[t])
      OBVIOUS
    <3>4. r # r0
      BY <2>8, <3>2, <3>3
    <3>5. r \in requests'
      BY <2>2, <3>4
    <3> QED BY <1>4, <3>2, <3>5 DEF Followed
  <2>13. Asked'
    <3> SUFFICES ASSUME NEW r \in requests', NEW t \in Sockets, NEW i \in 1..Len(toHost[t]),
                        toHost[t][i].req = r.req
                 PROVE  toHost[t][i].clt \in IF IsSub(r.content) THEN {clt'} ELSE {0, clt'}
      BY <1>4 DEF Asked
    <3>1. toHost[t][i].clt \in IF IsSub(r.content) THEN {clt} ELSE {0, clt}
      BY <2>7 DEF OnCourse, Asked
    <3>2. IsSub(r.content) => clt' = clt
      BY <2>5, <2>7
    <3> QED BY <2>6, <3>1, <3>2
  <2>14. Answered'
    <3> SUFFICES ASSUME NEW r \in requests', NEW b \in Answers', b.req = r.req
                 PROVE  IF IsSub(r.content) /\ b.ok
                          THEN b.clt # 0 /\ clt' \in {0, b.clt} /\ Shows(b.clt, SubKeys)'
                          ELSE b.clt \in {0, clt'}
      BY DEF Answered
    <3>1. r \in requests /\ b \in Answers
      BY <1>2, <2>7
    <3>2. IF IsSub(r.content) /\ b.ok
            THEN b.clt # 0 /\ clt \in {0, b.clt} /\ Shows(b.clt, SubKeys)
            ELSE b.clt \in {0, clt}
      BY <3>1 DEF OnCourse, Answered
    <3>3. CASE IsSub(r.content)
      <4>1. ~IsSub(r0.content)
        BY <2>7, <3>3
      <4>2. clt' = clt /\ errors' = errors
        BY <1>4, <2>3, <2>5, <4>1
      <4>3. Shows(b.clt, SubKeys) => Shows(b.clt, SubKeys)'
        BY <1>4, <4>2 DEF Shows, Subscriptions
      <4> QED BY <3>2, <4>2, <4>3
    <3>4. CASE ~IsSub(r.content)
      BY <2>6, <3>2, <3>4
    <3> QED BY <3>3, <3>4
  <2>15. Shows(clt, SubKeys \ Keys(InFlight))'
    <3>1. CASE IsSub(r0.content)
      <4>1. \A c \in InFlight : c = r0.content
        BY <1>6, <3>1, InFlightIs DEF OnCourse, OneToggle
      <4>2. Keys(InFlight) \subseteq {r0.content.key}
        BY <4>1, KeysIs
      <4>3. CASE a.ok
        <5>1. Shows(a.clt, SubKeys)' 
          BY <1>4, <2>4, <3>1, <4>3 DEF Shows, Subscriptions
        <5>2. clt' = a.clt
          BY <2>5, <3>1, <4>3
        <5> QED BY <5>1, <5>2 DEF Shows, Subscriptions
      <4>4. CASE ~a.ok
        <5>1. clt' = clt /\ errors' = errors \cup {r0.content.key}
          BY <1>4, <2>3, <2>5, <3>1, <4>4
        <5> QED BY <1>4, <4>2, <5>1 DEF OnCourse, Shows, Subscriptions
      <4> QED BY <4>3, <4>4
    <3>2. CASE ~IsSub(r0.content)
      <4>1. clt' = clt /\ errors' = errors
        BY <1>4, <2>3, <2>5, <3>2
      <4>2. InFlight' = InFlight
        BY <1>4, <1>6, <2>2, <3>2 DEF InFlight, Toggling, IsSub
      <4>3. Keys(InFlight)' = Keys(InFlight)
        BY <4>2 DEF Keys
      <4> QED BY <1>4, <4>1, <4>3 DEF OnCourse, Shows, Subscriptions
    <3> QED BY <3>1, <3>2
  <2> QED BY <2>9, <2>11, <2>12, <2>13, <2>14, <2>15 DEF OnCourse
<1> QED BY <1>5, <1>6

\* The client a request is answered for: a new one for the first toggle that
\* is granted.
AnswerId(m, ok) == IF m.clt = 0 /\ IsSub(m.content) /\ ok THEN Len(clients) + 1 ELSE m.clt

\* An answer changes at most whether its client has subscribed its entry.
LEMMA AnswerEffect ==
  ASSUME PageInv, NEW s \in Sockets, NEW ok \in BOOLEAN, HostAnswer(s, ok),
         NEW m, m = Head(toHost[s]), NEW id, id = AnswerId(m, ok)
  PROVE  /\ m = toHost[s][1] /\ 1 \in 1..Len(toHost[s]) /\ m.clt \in 0..Len(clients)
         /\ \A n \in 0..Len(clients) : \A k :
              ~(IsSub(m.content) /\ ok /\ n = id /\ k = m.content.key) =>
                 (k \in Subscriptions(n)' <=> k \in Subscriptions(n))
         /\ IsSub(m.content) /\ ok =>
              /\ id # 0
              /\ m.content.key \in Subscriptions(id)' <=> m.content.on
              /\ m.clt = 0 => \A k : k # m.content.key => k \notin Subscriptions(id)'
              /\ m.clt # 0 => id = m.clt
         /\ ~(IsSub(m.content) /\ ok) => id = m.clt
         /\ Answers' \subseteq Answers \cup {[msg |-> "resp", req |-> m.req, clt |-> id, ok |-> ok]}
         /\ Shorter
<1> DEFINE known == IF id > Len(clients) THEN Append(clients, NewClient) ELSE clients
           answer == [msg |-> "resp", req |-> m.req, clt |-> id, ok |-> ok]
           granted == IsSub(m.content) /\ ok
<1>1. /\ clients \in Seq(Client) /\ Len(clients) \in Nat
      /\ toHost[s] # <<>> /\ toHost[s] \in Seq(ToHost(Len(clients))) /\ HostInv
  <2>1. HostInv
    BY DEF PageInv
  <2>2. clients \in Seq(Client) /\ Len(clients) \in Nat
    BY <2>1 DEF HostInv
  <2>3. toHost[s] # <<>>
    BY DEF HostAnswer
  <2> QED BY <2>1, <2>2, <2>3, ToHostTyped
<1>2. /\ clients' = IF id = 0 THEN clients ELSE
             [known EXCEPT ![id].socket = s,
                           ![id].subs = IF ~granted THEN @
                                        ELSE IF m.content.on THEN @ \cup {m.content.key}
                                        ELSE @ \ {m.content.key}]
      /\ toClient' = [toClient EXCEPT ![s] = Append(@, answer)]
      /\ toHost' = [toHost EXCEPT ![s] = Tail(@)]
  BY DEF HostAnswer, AnswerId, IsSub
<1>3. m = toHost[s][1] /\ 1 \in 1..Len(toHost[s]) /\ m \in ToHost(Len(clients))
  BY <1>1, HeadTailProperties
<1>4. m.clt \in 0..Len(clients)
  BY <1>3 DEF ToHost
<1>5. /\ id \in 0..(Len(clients) + 1)
      /\ granted /\ m.clt = 0 => id = Len(clients) + 1
      /\ ~(granted /\ m.clt = 0) => id = m.clt
  BY <1>1, <1>4 DEF AnswerId
<1>6. Answers' \subseteq Answers \cup {answer}
  <2>1. PICK a : a = answer
    OBVIOUS
  <2>2. toClient' = [toClient EXCEPT ![s] = Append(@, a)]
    BY <1>2, <2>1
  <2>3. Answers' \subseteq Answers \cup {b \in {a} : b.msg = "resp"}
    BY <1>1, <2>2, AnswersAppend
  <2> HIDE DEF answer
  <2> QED BY <2>1, <2>3
<1>7. Shorter
  BY <1>1, <1>2, ShorterTail
<1>8. NewClient \in Client /\ NewClient.subs = {}
  BY DEF NewClient, Client
<1>9. /\ known \in Seq(Client) /\ id \in 0..Len(known) /\ Len(known) \in Nat
      /\ Len(clients) <= Len(known)
      /\ \A n \in 1..Len(clients) : known[n] = clients[n]
      /\ id > Len(clients) => known[id] = NewClient
  <2>1. CASE id > Len(clients)
    <3>1. known = Append(clients, NewClient) /\ id = Len(clients) + 1
      BY <1>1, <1>5, <2>1
    <3>2. /\ Append(clients, NewClient) \in Seq(Client)
          /\ Len(Append(clients, NewClient)) = Len(clients) + 1
          /\ \A n \in 1..Len(clients) : Append(clients, NewClient)[n] = clients[n]
          /\ Append(clients, NewClient)[Len(clients) + 1] = NewClient
      BY <1>1, <1>8
    <3> QED BY <1>1, <3>1, <3>2
  <2>2. CASE ~(id > Len(clients))
    BY <1>1, <1>5, <2>2
  <2> QED BY <2>1, <2>2
<1> HIDE DEF known, granted
<1>10. /\ \A n \in 1..Len(clients) : n # id => clients'[n].subs = clients[n].subs
       /\ id # 0 => clients'[id].subs = IF ~granted THEN known[id].subs
                                        ELSE IF m.content.on THEN known[id].subs \cup {m.content.key}
                                        ELSE known[id].subs \ {m.content.key}
  <2>1. CASE id = 0
    BY <1>2, <2>1
  <2>2. CASE id # 0
    <3>1. id \in 1..Len(known) /\ known[id] \in Client
      BY <1>9, <2>2
    <3>2. DOMAIN known = 1..Len(known)
      BY <1>9
    <3>3. \A n \in 1..Len(known) : n # id => clients'[n] = known[n]
      BY <1>2, <2>2, <3>2
    <3>4. clients'[id].subs = IF ~granted THEN known[id].subs
                              ELSE IF m.content.on THEN known[id].subs \cup {m.content.key}
                              ELSE known[id].subs \ {m.content.key}
      BY <1>2, <2>2, <3>1, <3>2 DEF Client
    <3>5. \A n \in 1..Len(clients) : n \in 1..Len(known)
      BY <1>1, <1>9
    <3> QED BY <1>9, <3>3, <3>4, <3>5
  <2> QED BY <2>1, <2>2
<1>11. \A n \in 0..Len(clients) : \A k :
         ~(granted /\ n = id /\ k = m.content.key) =>
            (k \in Subscriptions(n)' <=> k \in Subscriptions(n))
  <2> SUFFICES ASSUME NEW n \in 0..Len(clients), NEW k, ~(granted /\ n = id /\ k = m.content.key)
               PROVE  k \in Subscriptions(n)' <=> k \in Subscriptions(n)
    OBVIOUS
  <2>1. CASE n = 0
    BY <2>1 DEF Subscriptions
  <2>2. CASE n # 0
    <3>1. n \in 1..Len(clients) /\ known[n] = clients[n]
      BY <1>1, <1>9, <2>2
    <3>2. k \in clients'[n].subs <=> k \in clients[n].subs
      BY <1>10, <2>2, <3>1
    <3> QED BY <2>2, <3>2 DEF Subscriptions
  <2> QED BY <2>1, <2>2
<1>12. granted =>
         /\ id # 0
         /\ m.content.key \in Subscriptions(id)' <=> m.content.on
         /\ m.clt = 0 => \A k : k # m.content.key => k \notin Subscriptions(id)'
         /\ m.clt # 0 => id = m.clt
  <2> SUFFICES ASSUME granted
               PROVE  /\ id # 0
                      /\ m.content.key \in Subscriptions(id)' <=> m.content.on
                      /\ m.clt = 0 => \A k : k # m.content.key => k \notin Subscriptions(id)'
                      /\ m.clt # 0 => id = m.clt
    OBVIOUS
  <2>1. id # 0 /\ (m.clt # 0 => id = m.clt)
    BY <1>1, <1>5
  <2>2. Subscriptions(id)' = IF m.content.on THEN known[id].subs \cup {m.content.key}
                             ELSE known[id].subs \ {m.content.key}
    BY <1>10, <2>1 DEF Subscriptions
  <2>3. m.clt = 0 => known[id].subs = {}
    BY <1>1, <1>5, <1>8, <1>9
  <2>4. m.content.on \in BOOLEAN
    BY <1>3 DEF granted, ToHost, Contents, Toggles, IsSub, Send, Acknowledge
  <2> QED BY <2>1, <2>2, <2>3, <2>4
<1> QED BY <1>3, <1>4, <1>5, <1>6, <1>7, <1>11, <1>12 DEF granted

LEMMA CourseAnswer ==
  ASSUME PageInv, MessagesInv, OnCourse, NEW s \in Sockets, NEW ok \in BOOLEAN, HostAnswer(s, ok)
  PROVE  OnCourse'
<1>1. PICK m : m = Head(toHost[s])
  OBVIOUS
<1>2. PICK id : id = AnswerId(m, ok)
  OBVIOUS
<1> DEFINE answer == [msg |-> "resp", req |-> m.req, clt |-> id, ok |-> ok]
           granted == IsSub(m.content) /\ ok
<1>3. /\ m = toHost[s][1] /\ 1 \in 1..Len(toHost[s]) /\ m.clt \in 0..Len(clients)
      /\ \A n \in 0..Len(clients) : \A k :
           ~(granted /\ n = id /\ k = m.content.key) =>
              (k \in Subscriptions(n)' <=> k \in Subscriptions(n))
      /\ granted =>
           /\ id # 0
           /\ m.content.key \in Subscriptions(id)' <=> m.content.on
           /\ m.clt = 0 => \A k : k # m.content.key => k \notin Subscriptions(id)'
           /\ m.clt # 0 => id = m.clt
      /\ ~granted => id = m.clt
      /\ Answers' \subseteq Answers \cup {answer}
      /\ Shorter
  BY <1>1, <1>2, AnswerEffect
<1>4. /\ UNCHANGED <<requests, waiting, subscribed, errors, lost, clt>>
      /\ HostInv /\ HostInv' /\ IdInv
  BY HostAnswerInv DEF HostAnswer, subVars, PageInv, MessagesInv
<1>5. clt \in 0..Len(clients) /\ \A a \in Answers : a.clt \in 0..Len(clients)
  BY <1>4, AnswersTyped DEF HostInv, Responses
<1>6. \A t \in Sockets : \E n \in Nat : Suffix(toHost'[t], toHost[t], n)
         /\ \A i \in 1..Len(toHost'[t]) : i + n \in 1..Len(toHost[t]) /\ toHost'[t][i] = toHost[t][i + n]
  BY <1>3, <1>4, ShorterFrom
<1>7. InFlight' = InFlight /\ Keys(InFlight)' = Keys(InFlight)
  BY <1>4 DEF InFlight, Toggling, Keys
\* The entry of the request is one whose answer may be lost, or in flight,
\* by the request itself or one that follows it.
<1>8. IsSub(m.content) /\ m.content.key \notin lost =>
        \E j \in 1..Len(toHost[s]), r \in requests :
           r.req = toHost[s][j].req /\ IsSub(r.content) /\ r.content.key = m.content.key
  BY <1>3 DEF OnCourse, OthersLost, Followed
<1>9. OneToggle'
  BY <1>4 DEF OnCourse, OneToggle
<1>10. Wanted'
  BY <1>4, <1>7 DEF OnCourse, Wanted
<1>11. OthersLost'
  <2> SUFFICES ASSUME NEW t \in Sockets, NEW i \in 1..Len(toHost'[t]),
                      IsSub(toHost'[t][i].content), toHost'[t][i].content.key \notin lost
               PROVE  Followed(t, i)'
    BY <1>4 DEF OthersLost
  <2>1. PICK n \in Nat : /\ Suffix(toHost'[t], toHost[t], n)
                         /\ i + n \in 1..Len(toHost[t]) /\ toHost'[t][i] = toHost[t][i + n]
    BY <1>6
  <2>2. Followed(t, i + n)
    BY <2>1 DEF OnCourse, OthersLost
  <2>3. PICK j \in (i + n)..Len(toHost[t]) : \E r \in requests :
           r.req = toHost[t][j].req /\ IsSub(r.content) /\ r.content.key = toHost[t][i + n].content.key
    BY <2>2 DEF Followed
  <2>4. Len(toHost[t]) \in Nat /\ Len(toHost'[t]) = Len(toHost[t]) - n
    BY <1>4, <2>1, ToHostTyped DEF Suffix
  <2>5. j - n \in i..Len(toHost'[t]) /\ j - n \in 1..Len(toHost'[t]) /\ (j - n) + n = j
    BY <2>1, <2>3, <2>4
  <2>6. toHost'[t][j - n] = toHost[t][j]
    BY <2>1, <2>5 DEF Suffix
  <2> QED BY <1>4, <2>1, <2>3, <2>5, <2>6 DEF Followed
<1>12. Asked'
  <2> SUFFICES ASSUME NEW r \in requests, NEW t \in Sockets, NEW i \in 1..Len(toHost'[t]),
                      toHost'[t][i].req = r.req
               PROVE  toHost'[t][i].clt \in IF IsSub(r.content) THEN {clt} ELSE {0, clt}
    BY <1>4 DEF Asked
  <2>1. PICK n \in Nat : i + n \in 1..Len(toHost[t]) /\ toHost'[t][i] = toHost[t][i + n]
    BY <1>6
  <2> QED BY <2>1 DEF OnCourse, Asked
<1>13. ASSUME NEW r \in requests, NEW a \in Answers', a.req = r.req
       PROVE  IF IsSub(r.content) /\ a.ok
                THEN a.clt # 0 /\ clt \in {0, a.clt} /\ Shows(a.clt, SubKeys)'
                ELSE a.clt \in {0, clt}
  <2>1. CASE a \in Answers
    <3>1. IF IsSub(r.content) /\ a.ok
            THEN a.clt # 0 /\ clt \in {0, a.clt} /\ Shows(a.clt, SubKeys)
            ELSE a.clt \in {0, clt}
      BY <1>13, <2>1 DEF OnCourse, Answered
    <3>2. IsSub(r.content) /\ IsSub(m.content) => m.content.key \in lost
      <4> SUFFICES ASSUME IsSub(r.content), IsSub(m.content), m.content.key \notin lost
                   PROVE  FALSE
        OBVIOUS
      <4>1. PICK j \in 1..Len(toHost[s]), q \in requests : q.req = toHost[s][j].req /\ IsSub(q.content)
        BY <1>8
      <4>2. q = r
        BY <4>1 DEF OnCourse, OneToggle
      <4> QED BY <1>4, <1>13, <2>1, <4>1, <4>2 DEF IdInv
    <3>3. IsSub(r.content) /\ Shows(a.clt, SubKeys) => Shows(a.clt, SubKeys)'
      BY <1>3, <1>4, <1>5, <2>1, <3>2 DEF Shows
    <3> QED BY <3>1, <3>3
  <2>2. CASE a = answer
    <3>1. r.content = m.content
      BY <1>3, <1>4, <1>13, <2>2 DEF IdInv
    <3>2. m.clt \in IF IsSub(m.content) THEN {clt} ELSE {0, clt}
      BY <1>3, <1>13, <2>2, <3>1 DEF OnCourse, Asked
    <3>3. CASE ~granted
      BY <1>3, <2>2, <3>1, <3>2, <3>3
    <3>4. CASE granted
      <4>1. m.content \in InFlight
        BY <3>1, <3>4, InFlightIs
      <4>2. \A c \in InFlight : c = m.content
        BY <3>1, <3>4, InFlightIs DEF OnCourse, OneToggle
      <4>3. Keys(InFlight) = {m.content.key}
        BY <4>1, <4>2, <3>4 DEF Keys, IsSub
      <4>4. m.content.on <=> m.content.key \in subscribed
        BY <4>1 DEF OnCourse, Wanted
      <4>5. \A k \in SubKeys \ (errors \cup lost) :
               k # m.content.key => (k \in subscribed <=> k \in Subscriptions(clt))
        BY <4>3 DEF OnCourse, Shows
      <4>6. m.clt = clt /\ id # 0 /\ clt \in {0, id}
        BY <1>3, <3>2, <3>4
      <4>7. ASSUME NEW k \in SubKeys \ (errors \cup lost)
            PROVE  k \in subscribed <=> k \in Subscriptions(id)'
        <5>1. CASE k = m.content.key
          BY <1>3, <3>4, <4>4, <5>1
        <5>2. CASE k # m.content.key /\ clt = 0
          <6>1. k \notin Subscriptions(id)'
            BY <1>3, <3>4, <4>6, <5>2
          <6>2. k \notin subscribed
            BY <4>5, <5>2 DEF Subscriptions
          <6> QED BY <6>1, <6>2
        <5>3. CASE k # m.content.key /\ clt # 0
          <6>1. id = clt
            BY <1>3, <3>4, <4>6, <5>3
          <6>2. k \in Subscriptions(id)' <=> k \in Subscriptions(id)
            BY <1>3, <1>5, <5>3, <6>1
          <6> QED BY <4>5, <5>3, <6>1, <6>2
        <5> QED BY <5>1, <5>2, <5>3
      <4>8. Shows(id, SubKeys)'
        BY <1>4, <4>7 DEF Shows
      <4> QED BY <2>2, <3>1, <3>4, <4>6, <4>8
    <3> QED BY <3>3, <3>4
  <2> QED BY <1>3, <2>1, <2>2
<1>14. Answered'
  BY <1>4, <1>13 DEF Answered
<1>15. Shows(clt, SubKeys \ Keys(InFlight))'
  <2> SUFFICES ASSUME NEW k \in SubKeys, k \notin errors, k \notin lost, k \notin Keys(InFlight)
               PROVE  k \in subscribed <=> k \in Subscriptions(clt)'
    BY <1>4, <1>7 DEF Shows
  <2>1. ~(granted /\ k = m.content.key)
    <3> SUFFICES ASSUME granted, k = m.content.key PROVE FALSE
      OBVIOUS
    <3>1. PICK r \in requests : IsSub(r.content) /\ r.content.key = k
      BY <1>8
    <3>2. r.content \in InFlight
      BY <3>1, InFlightIs
    <3> QED BY <3>1, <3>2, KeysIs
  <2>2. k \in Subscriptions(clt)' <=> k \in Subscriptions(clt)
    <3>1. PICK n \in 0..Len(clients) : n = clt
      BY <1>5
    <3>2. k \in Subscriptions(n)' <=> k \in Subscriptions(n)
      BY <1>3, <2>1
    <3> QED BY <1>4, <3>1, <3>2 DEF Subscriptions
  <2>3. k \in subscribed <=> k \in Subscriptions(clt)
    BY DEF OnCourse, Shows
  <2> QED BY <2>2, <2>3
<1> QED BY <1>9, <1>10, <1>11, <1>12, <1>14, <1>15 DEF OnCourse

LEMMA CourseSend ==
  ASSUME PageInv, OnCourse, NEW i \in 1..Len(clients), NEW batch \in Batches, HostSend(i, batch)
  PROVE  OnCourse'
<1>1. /\ UNCHANGED <<requests, waiting, subscribed, errors, lost, clt, toHost>>
      /\ clients' = [clients EXCEPT ![i].seq = clients[i].seq + 1]
      /\ clients \in Seq(Client)
  BY DEF HostSend, subVars, PageInv, HostInv
<1>2. Answers' \subseteq Answers
  BY AnswersSend
<1>3. \A n \in 1..Len(clients) : clients'[n].subs = clients[n].subs
  <2>1. \A n \in 1..Len(clients) : clients[n] \in Client
    BY <1>1
  <2>2. \A n \in 1..Len(clients) :
          clients'[n] = IF n = i THEN [clients[n] EXCEPT !.seq = clients[i].seq + 1] ELSE clients[n]
    BY <1>1
  <2> QED BY <2>1, <2>2 DEF Client
<1>4. \A n \in 0..Len(clients) : Subscriptions(n)' = Subscriptions(n)
  BY <1>1, <1>3 DEF Subscriptions
<1> QED BY <1>1, <1>2, <1>4, CourseQuiet

LEMMA ToggleNext == ToggleInv /\ [Next]_vars => ToggleInv'
<1> SUFFICES ASSUME ToggleInv, [Next]_vars PROVE ToggleInv'
  OBVIOUS
<1>1. PageInv /\ PageInv' /\ MessagesInv /\ MessagesInv'
  BY NextInv, MessagesNext DEF ToggleInv
<1>2. ASSUME ~overlapped' PROVE OnCourse'
  <2>1. ~overlapped /\ \A k \in SubKeys : ToggleSub(k) => InFlight = {}
    <3>1. ASSUME NEW k \in SubKeys, ToggleSub(k) PROVE ~overlapped /\ InFlight = {}
      <4>1. overlapped' = (overlapped \/ InFlight # {})
        BY <3>1 DEF ToggleSub
      <4> QED BY <1>2, <4>1
    <3>2. CASE \A k \in SubKeys : ~ToggleSub(k)
      <4>1. overlapped' = overlapped
        <5>1. CASE Host
          <6>1. ASSUME NEW s \in Sockets, NEW ok \in BOOLEAN, HostAnswer(s, ok)
                PROVE  overlapped' = overlapped
            BY <6>1 DEF HostAnswer, subVars
          <6>2. ASSUME NEW i \in 1..Len(clients), NEW batch \in Batches, HostSend(i, batch)
                PROVE  overlapped' = overlapped
            BY <6>2 DEF HostSend, subVars
          <6> QED BY <5>1, <6>1, <6>2 DEF Host
        <5>2. ASSUME NEW s \in Sockets,
                     ConnectWebsocket(s) \/ OnOpen(s) \/ OnClose(s) \/ OnResponse(s) \/ OnEvents(s)
              PROVE  overlapped' = overlapped
          BY <5>2 DEF ConnectWebsocket, OnOpen, OnClose, OnResponse, OnEvents, subVars
        <5>3. CASE CloseWebsocket \/ SendSyncRequest \/ AckTimer \/ View \/ UNCHANGED vars
          BY <5>3 DEF CloseWebsocket, SendSyncRequest, AckTimer, View, subVars, vars
        <5> QED BY <3>2, <5>1, <5>2, <5>3 DEF Next, Page
      <4> QED BY <1>2, <3>2, <4>1
    <3> QED BY <3>1, <3>2
  <2>2. OnCourse
    BY <2>1 DEF ToggleInv
  <2>3. \A n \in 0..Len(clients) : clients' = clients => Subscriptions(n)' = Subscriptions(n)
    BY DEF Subscriptions
  <2>4. ASSUME NEW k \in SubKeys, ToggleSub(k) PROVE OnCourse'
    BY <1>1, <2>1, <2>2, <2>4, CourseToggleSub
  <2>5. CASE (\E s \in Sockets : ConnectWebsocket(s)) \/ CloseWebsocket
    <3>1. UNCHANGED <<requests, waiting, subscribed, errors, lost, clt, toHost, toClient, clients>>
      BY <2>5 DEF ConnectWebsocket, Reconnect, CloseWebsocket, Close, subVars
    <3> QED BY <1>1, <2>2, <2>3, <3>1, AnswersSame, CourseQuiet
  <2>6. CASE SendSyncRequest
    BY <1>1, <2>2, <2>6, CourseSent DEF SendSyncRequest, SyncRequest, subVars
  <2>7. CASE AckTimer
    BY <1>1, <2>2, <2>7, CourseSent DEF AckTimer, AcknowledgeEvents, SyncRequest, subVars
  <2>8. ASSUME NEW s \in Sockets, OnOpen(s) \/ OnClose(s) \/ OnResponse(s) PROVE OnCourse'
    BY <1>1, <2>2, <2>8, CourseOpen, CourseClose, CourseResponse
  <2>9. ASSUME NEW s \in Sockets, OnEvents(s) PROVE OnCourse'
    <3>1. UNCHANGED <<requests, waiting, subscribed, errors, lost, clt, toHost, clients>>
      BY <2>9 DEF OnEvents, EventMessage, subVars
    <3>2. Answers' \subseteq Answers
      BY <1>1, <2>9, MessagesArrived DEF OnEvents, PageInv
    <3> QED BY <1>1, <2>2, <2>3, <3>1, <3>2, CourseQuiet
  <2>10. CASE View \/ UNCHANGED vars
    <3>1. UNCHANGED <<requests, waiting, subscribed, errors, lost, clt, toHost, toClient, clients>>
      BY <2>10 DEF View, vars, socketVars, subVars
    <3> QED BY <1>1, <2>2, <2>3, <3>1, AnswersSame, CourseQuiet
  <2>11. CASE Host
    BY <1>1, <2>2, <2>11, CourseAnswer, CourseSend DEF Host
  <2> QED BY <2>4, <2>5, <2>6, <2>7, <2>8, <2>9, <2>10, <2>11 DEF Next, Page
<1> QED BY <1>1, <1>2 DEF ToggleInv

LEMMA ToggleInit == Init => ToggleInv
<1> SUFFICES ASSUME Init PROVE ToggleInv
  OBVIOUS
<1>1. /\ webSocket = 0 /\ requests = {} /\ clt = 0 /\ subscribed = {}
      /\ toHost = [s \in Sockets |-> <<>>] /\ toClient = [s \in Sockets |-> <<>>]
      /\ waiting = [s \in Sockets |-> Nothing]
  BY DEF Init, InitSocket
<1>2. 1..Len(<<>>) = {} /\ Range(<<>>) = {}
  BY DEF Range
<1>3. Answers = {}
  BY <1>1, <1>2 DEF Answers
<1>4. MessagesInv
  BY <1>1, <1>2, <1>3 DEF MessagesInv, IdInv, ChannelInv
<1>5. \A s \in Sockets : ~IsSub(waiting[s])
  BY <1>1 DEF IsSub, Nothing
<1>6. InFlight = {}
  BY <1>1, <1>5, InFlightIs
<1>7. OneToggle /\ Wanted /\ OthersLost /\ Asked /\ Answered
  BY <1>1, <1>2, <1>5, <1>6 DEF OneToggle, Wanted, OthersLost, Asked, Answered
<1>8. Shows(clt, SubKeys \ Keys(InFlight))
  BY <1>1 DEF Shows, Subscriptions
<1> QED BY <1>4, <1>7, <1>8, InitInv DEF ToggleInv, OnCourse

\* A user who lets every toggle end before the next one sees in the tree what
\* the host has for the page (toggleContainerSub(), toggleMessageSub()), for
\* any number of sockets that are opened, closed and replaced meanwhile.
THEOREM TreeShowsCorrect == Spec => []TreeShowsSubscriptions
<1>1. ToggleInv => TreeShowsSubscriptions
  BY OnCourseShows DEF ToggleInv, TreeShowsSubscriptions
<1> QED BY <1>1, ToggleInit, ToggleNext, PTL DEF Spec
=============================================================================

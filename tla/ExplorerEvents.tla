--------------------------- MODULE ExplorerEvents ---------------------------
(***************************************************************************)
(* The Playground and Pub-Sub tabs of the Hub Explorer                     *)
(* (explorer/src/playground.ts, events.ts) over one WebSocketClient        *)
(* (BrowserSocket): subscriptions are toggled in the tree, which connects  *)
(* first if there is no open socket; received events go to the log         *)
(* (EventView).                                                            *)
(*                                                                         *)
(* The host is external: it answers requests in order, hands out a client  *)
(* id with the first accepted subscription of a request without one, keeps *)
(* the subscriptions of a client when its socket closes, and sends events  *)
(* on the socket of the client's last request (they are lost if it is      *)
(* closed: the page never asks the host to queue them).                    *)
(***************************************************************************)
EXTENDS BrowserSocket, EventView

CONSTANTS
    SubKeys,            \* the tree entries with a 'sub' tag
    Batches,            \* the sequences of events published together
    MaxClicks,          \* bound: clicks of the user
    MaxEvents,          \* bound: event messages of the host
    Filters             \* the values entered in the filter fields

ASSUME ExplorerEventsAssumption ==
    /\ \A k \in SubKeys : k \in Entries /\ k.kind \in {"container", "messages", "message"}
    /\ \A batch \in Batches : batch \in Seq(SubEvent) /\ batch # <<>>
    /\ \A f \in Filters : f.users \subseteq Users /\ f.start \in Nat /\ f.end \in Nat

VARIABLES
    subscribed,         \* ContainerSub.subscribed, MessageSub.subscribed
    errors,             \* the entries that show an error
    waiting,            \* what connect() is awaited for, per socket
    clients,            \* host: subscriptions, socket and event seq per client
    clicks,             \* bounded: clicks of the user so far
    sent,               \* bounded: event messages of the host so far
    lost,               \* history: entries a request is about whose answer is lost
    overlapped          \* history: a toggle began before the last one ended

subVars == <<subscribed, errors, waiting, lost, overlapped>>
vars == <<socketVars, viewVars, subVars, clients, clicks, sent>>

Nothing == [kind |-> "none"]
Subscribe(k, on) == [kind |-> "sub", key |-> k, on |-> on]
Send == [kind |-> "send"]

Toggling == {r.content : r \in requests} \cup {waiting[s] : s \in Sockets}
InFlight == {c \in Toggling : c.kind = "sub"}
Keys(contents) == {c.key : c \in {d \in contents : d.kind = "sub"}}

\* The entries that messages on their way to the host are about: on a socket
\* that was replaced they may come after those on the socket in use.
Travelling(s) == Keys({toHost[s][i].content : i \in DOMAIN toHost[s]})

Init ==
    /\ InitSocket
    /\ InitView
    /\ subscribed = {}
    /\ errors = {}
    /\ waiting = [s \in Sockets |-> Nothing]
    /\ clients = <<>>
    /\ clicks = 0
    /\ sent = 0
    /\ lost = {}
    /\ overlapped = FALSE

Click ==
    /\ clicks < MaxClicks
    /\ clicks' = clicks + 1

(***************************************************************************)
(* toggleContainerSub(), toggleMessageSub(): the entry changes at once,    *)
(* then connect() is awaited, then the answer to the request.              *)
(***************************************************************************)
ToggleSub(k) ==
    LET content == Subscribe(k, k \notin subscribed)
    IN /\ Click
       /\ subscribed' = IF k \in subscribed THEN subscribed \ {k} ELSE subscribed \cup {k}
       /\ errors' = errors \ {k}
       /\ lost' = IF \E s \in Sockets \ {webSocket} : k \in Travelling(s)
                     THEN lost ELSE lost \ {k}
       /\ overlapped' = (overlapped \/ InFlight # {})
       /\ \/ /\ IsOpen
             /\ SyncRequest(content)
             /\ UNCHANGED waiting
          \/ /\ ~IsOpen
             /\ \E s \in Sockets : /\ Connect(s)
                                   /\ waiting' = [waiting EXCEPT ![s] = content]
       /\ UNCHANGED <<viewVars, clients, sent>>

ConnectWebsocket(s) ==
    /\ Click
    /\ Reconnect(s)
    /\ UNCHANGED <<viewVars, subVars, clients, sent>>

CloseWebsocket ==
    /\ Click
    /\ Close
    /\ UNCHANGED <<viewVars, subVars, clients, sent>>

\* sendSyncRequest()
SendSyncRequest ==
    /\ Click
    /\ IsOpen
    /\ SyncRequest(Send)
    /\ UNCHANGED <<viewVars, subVars, clients, sent>>

AckTimer ==
    /\ AcknowledgeEvents
    /\ UNCHANGED <<viewVars, subVars, clients, clicks, sent>>

\* onopen; connect() returns and the request it was awaited for is sent, on
\* the socket of the client, which may be another one by now.
OnOpen(s) ==
    /\ Opened(s)
    /\ waiting' = [waiting EXCEPT ![s] = Nothing]
    /\ IF waiting[s] = Nothing
         THEN UNCHANGED <<req, requests, ackTimePending, ackTimer, toHost, unacked>>
         ELSE SyncRequestIn(waiting[s], readyState')
    /\ UNCHANGED <<webSocket, clt, lastEventSeq, toClient,
                   viewVars, subscribed, errors, lost, overlapped, clients, clicks, sent>>

\* onclose: a failed connect() is shown as an error of the entry, a rejected
\* request is an exception nobody catches.
OnClose(s) ==
    /\ Closed(s)
    /\ waiting' = [waiting EXCEPT ![s] = Nothing]
    /\ errors' = errors \cup Keys({waiting[s]})
    /\ lost' = lost \cup Keys({r.content : r \in requests})
    /\ UNCHANGED <<viewVars, subscribed, overlapped, clients, clicks, sent>>

\* A response; if it is an error it is shown at the entry.
OnResponse(s) ==
    /\ Response(s)
    /\ LET answered == {r.content : r \in requests \ requests'}
       IN errors' = IF Head(toClient[s]).ok THEN errors ELSE errors \cup Keys(answered)
    /\ UNCHANGED <<viewVars, subscribed, waiting, lost, overlapped, clients, clicks, sent>>

OnEvents(s) ==
    /\ EventMessage(s)
    /\ AddSubscriptionEvents(Head(toClient[s]).ev)
    /\ UNCHANGED <<subVars, clients, clicks, sent>>

-----------------------------------------------------------------------------
(***************************************************************************)
(* The host.                                                               *)
(***************************************************************************)
NewClient == [subs |-> {}, socket |-> 0, seq |-> 0]

\* Answer the next request of a socket; ok: the subscription is granted.
HostAnswer(s, ok) ==
    /\ readyState[s] \in {"open", "closing"}
    /\ toHost[s] # <<>>
    /\ LET message == Head(toHost[s])
           content == message.content
           isSub   == content.kind = "sub"
           id      == IF message.clt = 0 /\ isSub /\ ok THEN Len(clients) + 1 ELSE message.clt
           known   == IF id > Len(clients) THEN Append(clients, NewClient) ELSE clients
       IN /\ ok \/ isSub
          /\ clients' = IF id = 0 THEN clients ELSE
               [known EXCEPT ![id].socket = s,
                             ![id].subs = IF ~(isSub /\ ok) THEN @
                                          ELSE IF content.on THEN @ \cup {content.key}
                                          ELSE @ \ {content.key}]
          /\ toClient' = [toClient EXCEPT ![s] =
                            Append(@, [msg |-> "resp", req |-> message.req, clt |-> id, ok |-> ok])]
          /\ toHost' = [toHost EXCEPT ![s] = Tail(@)]
    /\ UNCHANGED <<readyState, webSocket, req, requests, clt, ackTimePending, ackTimer,
                   lastEventSeq, unacked, viewVars, subVars, clicks, sent>>

\* What a client is sent of an event: the changes and messages it subscribed.
Subscribed(subs, ev, seq) ==
    [ev EXCEPT
       !.seq = seq,
       !.containers = {c \in @ : Entry("container", ev.db, c) \in subs},
       !.messages = {m \in @ : \/ Entry("messages", ev.db, "") \in subs
                               \/ Entry("message", ev.db, m) \in subs}]

\* Each event of a batch concerns the client: of a publication that holds
\* others as well it is sent those that do, which are a batch of their own.
HostSend(i, batch) ==
    LET client == clients[i]
        seq    == client.seq + 1
        evs    == [n \in 1..Len(batch) |-> Subscribed(client.subs, batch[n], seq)]
    IN /\ sent < MaxEvents
       /\ sent' = sent + 1
       /\ \A n \in 1..Len(batch) : evs[n].containers \cup evs[n].messages # {}
       /\ clients' = [clients EXCEPT ![i].seq = seq]
       /\ toClient' = IF readyState[client.socket] # "open" THEN toClient
                      ELSE [toClient EXCEPT ![client.socket] =
                              Append(@, [msg |-> "ev", seq |-> seq, ev |-> evs])]
       /\ UNCHANGED <<readyState, webSocket, req, requests, clt, ackTimePending, ackTimer,
                      lastEventSeq, toHost, unacked, viewVars, subVars, clicks>>

-----------------------------------------------------------------------------
View ==
    /\ Click
    /\ \/ \E entry \in Entries : SelectEntry(entry)
       \/ DeselectEntry
       \/ \E f \in Filters : SetLogFilter(f.users, f.start, f.end)
       \/ ClearAllEvents
    /\ UNCHANGED <<socketVars, subVars, clients, sent>>

Page ==
    \/ \E k \in SubKeys : ToggleSub(k)
    \/ \E s \in Sockets : ConnectWebsocket(s)
    \/ CloseWebsocket
    \/ SendSyncRequest
    \/ AckTimer
    \/ \E s \in Sockets : OnOpen(s) \/ OnClose(s) \/ OnResponse(s) \/ OnEvents(s)
    \/ View

Host ==
    \/ \E s \in Sockets, ok \in BOOLEAN : HostAnswer(s, ok)
    \/ \E i \in 1..Len(clients), batch \in Batches : HostSend(i, batch)

Next == Page \/ Host

Spec == Init /\ [][Next]_vars

\* The timer of the browser fires.
FairSpec == Spec /\ WF_vars(AckTimer)

-----------------------------------------------------------------------------
(***************************************************************************)
(* Fields and counts have their types, the log of the view included.       *)
(***************************************************************************)
TypeOK ==
    /\ readyState \in [Sockets -> {"none", "connecting", "open", "closing", "closed"}]
    /\ webSocket \in {0} \cup Sockets
    /\ req \in Nat \ {0}
    /\ \A r \in requests : r.req \in 1..(req - 1)
    /\ clt \in 0..Len(clients)
    /\ ackTimePending = ackTimer
    /\ subscribed \subseteq SubKeys
    /\ errors \cup lost \subseteq SubKeys
    /\ ViewTypeOK

(***************************************************************************)
(* A user who waits for the end of a toggle before the next one sees in    *)
(* the tree what the host has for the page's client id, whatever was       *)
(* closed, reconnected, sent and acknowledged in between: for every entry  *)
(* without an error or a request whose answer got lost (until it is        *)
(* toggled again when no such request is left on another socket).          *)
(***************************************************************************)
Subscriptions(id) == IF id = 0 THEN {} ELSE clients[id].subs

TreeShowsSubscriptions ==
    ~overlapped /\ InFlight = {} =>
        \A k \in SubKeys \ (errors \cup lost) :
            k \in subscribed <=> k \in Subscriptions(clt)

(***************************************************************************)
(* A received event is acknowledged by a request that is sent, unless the  *)
(* socket it was received from is closed before.                           *)
(***************************************************************************)
EventsAcknowledged ==
    \A s \in Sockets : unacked = s ~> (unacked # s \/ readyState[s] # "open")
=============================================================================

------------------------ MODULE EventDeliveryProofs ------------------------
(***************************************************************************)
(* EventDelivery for every number of connections, events and requests.     *)
(***************************************************************************)
EXTENDS EventDelivery, SequenceTheorems, TLAPS

-----------------------------------------------------------------------------
(* What the operations of queues do to the elements of a queue             *)

\* The elements of a sequence by index.
LEMMA RangeSeq ==
  ASSUME NEW S, NEW s \in Seq(S)
  PROVE  /\ Range(s) = {s[i] : i \in 1..Len(s)}
         /\ Range(s) \subseteq S
<1>1. DOMAIN s = 1..Len(s) /\ \A i \in 1..Len(s) : s[i] \in S
  OBVIOUS
<1> QED BY <1>1 DEF Range

\* An empty queue has no elements.
LEMMA RangeEmpty == Range(<<>>) = {}
BY DEF Range

\* Appending to a queue adds one element.
LEMMA RangeAppend ==
  ASSUME NEW S, NEW s \in Seq(S), NEW e \in S
  PROVE  /\ Append(s, e) \in Seq(S) /\ Append(s, e) # <<>>
         /\ Len(Append(s, e)) = Len(s) + 1
         /\ \A i \in 1..Len(s) : Append(s, e)[i] = s[i]
         /\ Append(s, e)[Len(s) + 1] = e
         /\ Range(Append(s, e)) = Range(s) \cup {e}
<1> DEFINE t == Append(s, e)
<1>1. /\ t \in Seq(S) /\ Len(t) = Len(s) + 1
      /\ \A i \in 1..Len(s) : t[i] = s[i]
      /\ t[Len(s) + 1] = e
  BY AppendProperties
<1>2. Len(s) \in Nat
  OBVIOUS
<1>3. Range(t) = {t[i] : i \in 1..Len(s) + 1} /\ Range(s) = {s[i] : i \in 1..Len(s)}
  BY <1>1, RangeSeq
<1>4. Range(t) \subseteq Range(s) \cup {e}
  <2> SUFFICES ASSUME NEW i \in 1..Len(s) + 1 PROVE t[i] \in Range(s) \cup {e}
    BY <1>3
  <2>1. CASE i \in 1..Len(s) BY <2>1, <1>1, <1>3
  <2>2. CASE i = Len(s) + 1 BY <2>2, <1>1
  <2> QED BY <2>1, <2>2, <1>2
<1>5. Range(s) \cup {e} \subseteq Range(t)
  BY <1>1, <1>2, <1>3
<1>6. t # <<>>
  BY <1>1, <1>2, EmptySeq
<1> HIDE DEF t
<1> QED BY <1>1, <1>4, <1>5, <1>6 DEF t

\* Adding several messages to a queue keeps the elements of both.
LEMMA RangeConcat ==
  ASSUME NEW S, NEW s \in Seq(S), NEW t \in Seq(S)
  PROVE  /\ s \o t \in Seq(S)
         /\ Range(s \o t) = Range(s) \cup Range(t)
<1> DEFINE u == s \o t
<1>1. /\ u \in Seq(S) /\ Len(u) = Len(s) + Len(t)
      /\ \A i \in 1..Len(s) : u[i] = s[i]
      /\ \A i \in 1..Len(t) : u[Len(s) + i] = t[i]
  BY ConcatProperties
<1>2. Len(s) \in Nat /\ Len(t) \in Nat
  OBVIOUS
<1>3. /\ Range(u) = {u[i] : i \in 1..Len(s) + Len(t)}
      /\ Range(s) = {s[i] : i \in 1..Len(s)} /\ Range(t) = {t[i] : i \in 1..Len(t)}
  BY <1>1, RangeSeq
<1> HIDE DEF u
<1>4. Range(u) \subseteq Range(s) \cup Range(t)
  <2> SUFFICES ASSUME NEW i \in 1..Len(s) + Len(t) PROVE u[i] \in Range(s) \cup Range(t)
    BY <1>3
  <2>1. CASE i \in 1..Len(s) BY <2>1, <1>1, <1>3
  <2>2. CASE i > Len(s)
    <3>1. i - Len(s) \in 1..Len(t) /\ i = Len(s) + (i - Len(s))
      BY <2>2, <1>2
    <3>2. u[i] = t[i - Len(s)]
      BY <3>1, <1>1
    <3> QED BY <3>1, <3>2, <1>3
  <2> QED BY <2>1, <2>2, <1>2
<1>5. Range(s) \subseteq Range(u)
  BY <1>1, <1>2, <1>3
<1>6. Range(t) \subseteq Range(u)
  <2> SUFFICES ASSUME NEW i \in 1..Len(t) PROVE t[i] \in Range(u)
    BY <1>3
  <2>1. Len(s) + i \in 1..Len(s) + Len(t) /\ u[Len(s) + i] = t[i]
    BY <1>1, <1>2
  <2> QED BY <2>1, <1>3
<1> QED BY <1>1, <1>4, <1>5, <1>6 DEF u

\* Removing the head of a queue.
LEMMA RangeTail ==
  ASSUME NEW S, NEW s \in Seq(S), s # <<>>
  PROVE  /\ Tail(s) \in Seq(S) /\ Head(s) \in S /\ Len(Tail(s)) = Len(s) - 1
         /\ \A i \in 1..Len(s) - 1 : Tail(s)[i] = s[i + 1]
         /\ Range(Tail(s)) \subseteq Range(s) /\ Head(s) \in Range(s)
<1> DEFINE t == Tail(s)
<1>1. /\ t \in Seq(S) /\ Head(s) \in S /\ Len(t) = Len(s) - 1
      /\ \A i \in 1..Len(s) - 1 : t[i] = s[i + 1]
      /\ Head(s) = s[1]
  BY HeadTailProperties
<1>2. Len(s) \in Nat \ {0}
  OBVIOUS
<1>3. Range(t) = {t[i] : i \in 1..Len(s) - 1} /\ Range(s) = {s[i] : i \in 1..Len(s)}
  BY <1>1, RangeSeq
<1> HIDE DEF t
<1>4. Range(t) \subseteq Range(s)
  <2> SUFFICES ASSUME NEW i \in 1..Len(s) - 1 PROVE t[i] \in Range(s)
    BY <1>3
  <2>1. t[i] = s[i + 1] /\ i + 1 \in 1..Len(s) BY <1>1, <1>2
  <2> QED BY <2>1, <1>3
<1>5. Head(s) \in Range(s)
  BY <1>1, <1>2, <1>3
<1> QED BY <1>1, <1>4, <1>5 DEF t

\* What remains of a queue when its first n elements are removed.
LEMMA RangeSuffix ==
  ASSUME NEW S, NEW s \in Seq(S), NEW n \in 0..Len(s)
  PROVE  /\ SubSeq(s, n + 1, Len(s)) \in Seq(S)
         /\ Range(SubSeq(s, n + 1, Len(s))) \subseteq Range(s)
         /\ \A i \in n + 1 .. Len(s) : s[i] \in Range(SubSeq(s, n + 1, Len(s)))
<1> DEFINE t == SubSeq(s, n + 1, Len(s))
<1>1. Len(s) \in Nat /\ n \in Nat /\ n <= Len(s) /\ \A i \in n + 1 .. Len(s) : s[i] \in S
  OBVIOUS
<1>2. /\ t \in Seq(S) /\ Len(t) = IF n + 1 <= Len(s) THEN Len(s) - (n + 1) + 1 ELSE 0
      /\ \A i \in 1 .. Len(s) - (n + 1) + 1 : t[i] = s[n + 1 + i - 1]
  BY <1>1, SubSeqProperties
<1> HIDE DEF t
<1>3. Len(t) = Len(s) - n /\ \A i \in 1..Len(s) - n : t[i] = s[n + i]
  BY <1>1, <1>2
<1>4. Range(t) = {t[i] : i \in 1..Len(s) - n} /\ Range(s) = {s[i] : i \in 1..Len(s)}
  BY <1>2, <1>3, RangeSeq
<1>5. Range(t) \subseteq Range(s)
  <2> SUFFICES ASSUME NEW i \in 1..Len(s) - n PROVE t[i] \in Range(s)
    BY <1>4
  <2>1. t[i] = s[n + i] /\ n + i \in 1..Len(s) BY <1>1, <1>3
  <2> QED BY <2>1, <1>4
<1>6. ASSUME NEW i \in n + 1 .. Len(s) PROVE s[i] \in Range(t)
  <2>1. i - n \in 1..Len(s) - n /\ t[i - n] = s[i]
    BY <1>1, <1>3
  <2> QED BY <2>1, <1>4
<1> QED BY <1>2, <1>5, <1>6 DEF t

-----------------------------------------------------------------------------
(* Types                                                                   *)

\* Initially the variables have their types.
LEMMA TypeInit == Init => TypeOK /\ LoopShape
<1> SUFFICES ASSUME Init PROVE TypeOK /\ LoopShape
  OBVIOUS
<1>1. 1 \in Conn /\ <<>> \in Seq(Nat) /\ <<>> \in Seq(Message)
  BY ConstantsAssumption, EmptySeq DEF Conn
<1>2. queueEvents \in BOOLEAN
  BY ConstantsAssumption DEF Init
<1>3. /\ conn \in [Conn -> {"none", "open", "broken", "closed"}]
      /\ requests \in [Conn -> Seq(Nat)]
      /\ events \in [Conn -> Seq(Message)]
      /\ handler \in [Conn -> [pc : {"idle", "unacknowledged", "ack"}, ack : Nat]]
  BY <1>1 DEF Init
<1> QED BY <1>1, <1>2, <1>3 DEF Init, TypeOK, LoopShape

\* The steps of the send loop keep the types.
LEMMA TypeSendEvents == TypeOK /\ LoopShape /\ SendEvents => (TypeOK /\ LoopShape)'
<1> SUFFICES ASSUME TypeOK, LoopShape, SendEvents PROVE (TypeOK /\ LoopShape)'
  OBVIOUS
<1> USE DEF hubVars, connVars, clientVars, LoopShape
<1>0. <<>> \in Seq(Nat) /\ <<>> \in Seq(Message)
  BY EmptySeq
<1>1. CASE StartSendEvents
  BY <1>1 DEF StartSendEvents, HasClientEvent, TypeOK
<1>2. CASE ClearUnsentSyncEvents
  BY <1>0, <1>2 DEF ClearUnsentSyncEvents, TypeOK
<1>3. CASE DequeueEvents
  BY <1>0, <1>3 DEF DequeueEvents, EventMessagesToResend, TypeOK
<1>4. CASE WriteEventMessage
  <2>1. eventCounter' \in Nat /\ [seq |-> eventCounter', events |-> syncEvents] \in Message
    BY <1>4 DEF WriteEventMessage, TypeOK, Message
  <2>2. eventMessages' \in Seq(Message) /\ eventMessages' # <<>>
    <3>1. eventMessages' = Append(eventMessages, [seq |-> eventCounter', events |-> syncEvents])
      BY <1>4 DEF WriteEventMessage
    <3>2. eventMessages \in Seq(Message)
      BY DEF TypeOK
    <3> QED BY <2>1, <3>1, <3>2, RangeAppend
  <2> QED BY <1>0, <1>4, <2>1, <2>2 DEF WriteEventMessage, TypeOK
<1>5. CASE StoreEventMessage
  <2>1. eventMessages # <<>> /\ eventMessages \in Seq(Message)
    BY <1>5 DEF StoreEventMessage, TypeOK
  <2>2. eventMessages[Len(eventMessages)] \in Message
    BY <2>1, EmptySeq, ElementOfSeq
  <2>3. sentEventMessages' \in Seq(Message)
    BY <1>5, <2>2, AppendProperties DEF StoreEventMessage, TypeOK
  <2> QED BY <1>5, <2>3 DEF StoreEventMessage, TypeOK
<1>6. CASE SendEventMessages
  <2>1. events[target] \o eventMessages \in Seq(Message)
    BY ConcatProperties DEF TypeOK
  <2>2. events' \in [Conn -> Seq(Message)]
    BY <1>6, <2>1 DEF SendEventMessages, TypeOK
  <2> QED BY <1>0, <1>6, <2>2 DEF SendEventMessages, TypeOK
<1> QED BY <1>1, <1>2, <1>3, <1>4, <1>5, <1>6 DEF SendEvents

\* A request of the client keeps the types.
LEMMA TypeProcessSubscriber ==
  ASSUME NEW c \in Conn
  PROVE  TypeOK /\ LoopShape /\ ProcessSubscriber(c) => (TypeOK /\ LoopShape)'
<1> SUFFICES ASSUME TypeOK, LoopShape, ProcessSubscriber(c) PROVE (TypeOK /\ LoopShape)'
  OBVIOUS
<1> USE DEF loopVars, clientVars, LoopShape
<1>1. CASE UpdateTarget(c)
  <2>1. Tail(requests[c]) \in Seq(Nat) /\ Head(requests[c]) \in Nat
    BY <1>1, HeadTailProperties DEF UpdateTarget, TypeOK
  <2>2. requests' \in [Conn -> Seq(Nat)]
    BY <1>1, <2>1 DEF UpdateTarget, TypeOK
  <2>3. handler' \in [Conn -> [pc : {"idle", "unacknowledged", "ack"}, ack : Nat]]
    BY <1>1, <2>1 DEF UpdateTarget, TypeOK
  <2> QED BY <1>1, <2>2, <2>3 DEF UpdateTarget, TypeOK
<1>2. CASE SendUnacknowledgedEvents(c)
  <2>1. handler' \in [Conn -> [pc : {"idle", "unacknowledged", "ack"}, ack : Nat]]
    <3>1. handler' = [handler EXCEPT ![c].pc = "ack"]
      BY <1>2 DEF SendUnacknowledgedEvents
    <3> QED BY <3>1 DEF TypeOK
  <2>2. resendEventMessages' \in BOOLEAN /\ clientEvents' \in Nat
    <3>1. CASE MustResend
      <4>1. resendEventMessages' = TRUE /\ NewClientEvent
        BY <1>2, <3>1 DEF SendUnacknowledgedEvents
      <4>2. clientEvents' \in Nat
        BY <4>1 DEF NewClientEvent, TypeOK
      <4> QED BY <4>1, <4>2
    <3>2. CASE ~MustResend
      BY <1>2, <3>2 DEF SendUnacknowledgedEvents, TypeOK
    <3> QED BY <3>1, <3>2
  <2> QED BY <1>2, <2>1, <2>2 DEF SendUnacknowledgedEvents, TypeOK
<1>3. CASE AcknowledgeEventMessages(c)
  <2>1. sentEventMessages' \in Seq(Message)
    <3>1. PICK n \in 0..Len(sentEventMessages) :
            sentEventMessages' = SubSeq(sentEventMessages, n + 1, Len(sentEventMessages))
      BY <1>3 DEF AcknowledgeEventMessages
    <3>2. sentEventMessages \in Seq(Message)
      BY DEF TypeOK
    <3> QED BY <3>1, <3>2, RangeSuffix
  <2>2. handler' \in [Conn -> [pc : {"idle", "unacknowledged", "ack"}, ack : Nat]]
    <3>1. handler' = [handler EXCEPT ![c].pc = "idle"]
      BY <1>3 DEF AcknowledgeEventMessages
    <3> QED BY <3>1 DEF TypeOK
  <2> QED BY <1>3, <2>1, <2>2 DEF AcknowledgeEventMessages, TypeOK
<1> QED BY <1>1, <1>2, <1>3 DEF ProcessSubscriber

\* Every step keeps the types.
LEMMA TypeNext == TypeOK /\ LoopShape /\ [Next]_vars => (TypeOK /\ LoopShape)'
<1> SUFFICES ASSUME TypeOK, LoopShape, [Next]_vars PROVE (TypeOK /\ LoopShape)'
  OBVIOUS
<1>1. CASE EnqueueSyncEvent
  <2>1. published' \in Nat /\ unsentSyncEvents' \in Seq(Nat)
    <3>1. /\ published' = published + 1
          /\ unsentSyncEvents' = Append(unsentSyncEvents, published')
      BY <1>1 DEF EnqueueSyncEvent
    <3>2. published \in Nat /\ unsentSyncEvents \in Seq(Nat)
      BY DEF TypeOK
    <3> QED BY <3>1, <3>2
  <2>2. clientEvents' \in Nat
    BY <1>1 DEF EnqueueSyncEvent, NewClientEvent, TypeOK
  <2> QED BY <1>1, <2>1, <2>2
      DEF EnqueueSyncEvent, TypeOK, LoopShape, loopVars, connVars, clientVars
<1>2. ASSUME NEW value \in BOOLEAN, SetQueueEvents(value) PROVE (TypeOK /\ LoopShape)'
  BY <1>2, ConstantsAssumption
  DEF SetQueueEvents, TypeOK, LoopShape, loopVars, connVars, clientVars
<1>3. CASE SendEvents
  BY <1>3, TypeSendEvents
<1>4. ASSUME NEW c \in Conn, ProcessSubscriber(c) PROVE (TypeOK /\ LoopShape)'
  BY <1>4, TypeProcessSubscriber
<1>5. ASSUME NEW c \in Conn, Close(c) PROVE (TypeOK /\ LoopShape)'
  BY <1>5, EmptySeq DEF Close, TypeOK, LoopShape, hubVars, loopVars, clientVars
<1>6. CASE SyncTasks
  <2>1. /\ requests' \in [Conn -> Seq(Nat)] /\ current' \in Conn
        /\ conn' \in [Conn -> {"none", "open", "broken", "closed"}]
    <3>1. CASE /\ requests' = [requests EXCEPT ![current] = Append(@, lastEventSeq)]
               /\ UNCHANGED <<conn, current>>
      BY <3>1, AppendProperties DEF TypeOK
    <3>2. CASE /\ current < Conns /\ current' = current + 1
               /\ conn' = [conn EXCEPT ![current'] = "open"]
               /\ requests' = [requests EXCEPT ![current'] = <<lastEventSeq>>]
      <4>1. <<lastEventSeq>> \in Seq(Nat)
        BY DEF TypeOK
      <4>2. current' \in Conn
        BY <3>2, ConstantsAssumption DEF TypeOK, Conn
      <4> QED BY <3>2, <4>1, <4>2 DEF TypeOK
    <3> QED BY <1>6, <3>1, <3>2 DEF SyncTasks, SendRequest
  <2> QED BY <1>6, <2>1 DEF SyncTasks, TypeOK, LoopShape, hubVars, loopVars
<1>7. CASE ProcessEvents
  <2>1. /\ Tail(events[current]) \in Seq(Message) /\ Head(events[current]) \in Message
    BY <1>7, HeadTailProperties DEF ProcessEvents, TypeOK
  <2>2. events' \in [Conn -> Seq(Message)]
    BY <1>7, <2>1 DEF ProcessEvents, TypeOK
  <2>3. lastEventSeq' \in Nat /\ processed' \in Seq(Message)
    <3>1. Head(events[current]).seq \in Nat
      BY <2>1 DEF Message
    <3>2. Append(processed, Head(events[current])) \in Seq(Message)
      BY <2>1, RangeAppend DEF TypeOK
    <3> QED BY <1>7, <3>1, <3>2 DEF ProcessEvents, TypeOK
  <2> QED BY <1>7, <2>2, <2>3 DEF ProcessEvents, TypeOK, LoopShape, hubVars, loopVars
<1>8. CASE Break
  BY <1>8, EmptySeq DEF Break, TypeOK, LoopShape, hubVars, loopVars, clientVars
<1>9. CASE UNCHANGED vars
  BY <1>9 DEF vars, TypeOK, LoopShape, hubVars, loopVars, connVars, clientVars
<1> QED BY <1>1, <1>2, <1>3, <1>4, <1>5, <1>6, <1>7, <1>8, <1>9 DEF Next

\* Type correctness, for every number of connections, events and requests.
THEOREM TypeCorrect == Spec => []TypeOK
<1>1. Init => TypeOK /\ LoopShape
  BY TypeInit
<1>2. (TypeOK /\ LoopShape) /\ [Next]_vars => (TypeOK /\ LoopShape)'
  BY TypeNext
<1> QED BY <1>1, <1>2, PTL DEF Spec

-----------------------------------------------------------------------------
(* The order of messages                                                   *)

\* Events and sequence numbers are natural numbers.
LEMMA MessagesType ==
  TypeOK => /\ Messages \subseteq Message /\ Pending \subseteq Nat
            /\ \A m \in Message : m.seq \in Nat /\ Range(m.events) \subseteq Nat
<1> SUFFICES ASSUME TypeOK
             PROVE  /\ Messages \subseteq Message /\ Pending \subseteq Nat
                    /\ \A m \in Message : m.seq \in Nat /\ Range(m.events) \subseteq Nat
  OBVIOUS
<1>1. /\ Range(sentEventMessages) \subseteq Message
      /\ Range(eventMessages) \subseteq Message /\ Range(processed) \subseteq Message
      /\ Range(syncEvents) \subseteq Nat /\ Range(unsentSyncEvents) \subseteq Nat
  BY RangeSeq DEF TypeOK
<1>2. ASSUME NEW c \in Conn PROVE Range(events[c]) \subseteq Message
  <2>1. events[c] \in Seq(Message)
    BY DEF TypeOK
  <2> QED BY <2>1, RangeSeq
<1>3. ASSUME NEW m \in Message PROVE m.seq \in Nat /\ Range(m.events) \subseteq Nat
  <2>1. m.seq \in Nat /\ m.events \in Seq(Nat)
    BY DEF Message
  <2> QED BY <2>1, RangeSeq
<1> QED BY <1>1, <1>2, <1>3 DEF Messages, Pending

\* A step that makes no message, but copies, moves or drops some, keeps them
\* ordered; so does one that publishes an event.
LEMMA MessagesKept ==
  ASSUME TypeOK, TypeOK', MessagesOrdered,
         Messages' \subseteq Messages, eventCounter' = eventCounter,
         published' >= published,
         \A f \in Pending' : f \in Pending \/ f > published
  PROVE  MessagesOrdered'
<1> SUFFICES ASSUME NEW m \in Messages'
             PROVE  /\ 1 <= m.seq /\ m.seq <= eventCounter' /\ m.events # <<>>
                    /\ Before(Range(m.events), Pending')
                    /\ \A e \in Range(m.events) : e <= published'
                    /\ \A n \in Messages' :
                         /\ m.seq < n.seq => Before(Range(m.events), Range(n.events))
                         /\ m.seq = n.seq => m = n
  BY DEF MessagesOrdered, Before
<1>1. m \in Messages /\ Range(m.events) \subseteq Nat
  BY MessagesType
<1>2. published \in Nat /\ published' \in Nat /\ Pending' \subseteq Nat
  <2>1. /\ published \in Nat /\ published' \in Nat
        /\ syncEvents' \in Seq(Nat) /\ unsentSyncEvents' \in Seq(Nat)
    BY DEF TypeOK
  <2> QED BY <2>1, RangeSeq DEF Pending
<1>3. /\ 1 <= m.seq /\ m.seq <= eventCounter' /\ m.events # <<>>
      /\ \A n \in Messages' :
           /\ m.seq < n.seq => Before(Range(m.events), Range(n.events))
           /\ m.seq = n.seq => m = n
  BY <1>1 DEF MessagesOrdered
<1>4. \A e \in Range(m.events) : e <= published /\ \A f \in Pending : e < f
  BY <1>1 DEF MessagesOrdered, Before
<1>5. \A e \in Range(m.events) : e <= published'
  BY <1>1, <1>2, <1>4
<1>6. Before(Range(m.events), Pending')
  BY <1>1, <1>2, <1>4 DEF Before
<1> QED BY <1>3, <1>5, <1>6

\* Only WriteEventMessage makes a message: every other step copies, moves or drops some.
LEMMA MessagesNext ==
  ASSUME TypeOK, LoopShape, [Next]_vars, ~WriteEventMessage
  PROVE  Messages' \subseteq Messages
<1>0. /\ sentEventMessages \in Seq(Message) /\ eventMessages \in Seq(Message)
      /\ processed \in Seq(Message) /\ events \in [Conn -> Seq(Message)]
      /\ current \in Conn /\ target \in Conn
  BY DEF TypeOK
<1>1. CASE UNCHANGED <<sentEventMessages, eventMessages, processed, events>>
  BY <1>1 DEF Messages
<1>2. CASE DequeueEvents
  <2>1. /\ UNCHANGED <<sentEventMessages, processed, events>>
        /\ Range(eventMessages') \subseteq Range(sentEventMessages)
    BY <1>2, RangeEmpty DEF DequeueEvents, EventMessagesToResend, connVars, clientVars
  <2> QED BY <2>1 DEF Messages
<1>3. CASE StoreEventMessage
  <2> DEFINE last == eventMessages[Len(eventMessages)]
  <2>1. last \in Range(eventMessages) /\ last \in Message
    <3>1. eventMessages # <<>>
      BY <1>3 DEF StoreEventMessage, LoopShape
    <3>2. Len(eventMessages) \in 1..Len(eventMessages)
      BY <1>0, <3>1, EmptySeq
    <3> QED BY <1>0, <3>2, RangeSeq
  <2>2. /\ sentEventMessages' = Append(sentEventMessages, last)
        /\ UNCHANGED <<eventMessages, processed, events>>
    BY <1>3 DEF StoreEventMessage, connVars, clientVars
  <2>3. Range(sentEventMessages') = Range(sentEventMessages) \cup {last}
    BY <1>0, <2>1, <2>2, RangeAppend
  <2> QED BY <2>1, <2>2, <2>3 DEF Messages
<1>4. CASE SendEventMessages
  <2>1. /\ UNCHANGED <<sentEventMessages, processed>> /\ Range(eventMessages') = {}
        /\ \/ events' = [events EXCEPT ![target] = @ \o eventMessages]
           \/ events' = events
    BY <1>4, RangeEmpty DEF SendEventMessages, hubVars, clientVars
  <2>2. ASSUME NEW c \in Conn
        PROVE  Range(events'[c]) \subseteq Range(events[c]) \cup Range(eventMessages)
    <3>1. Range(events[c] \o eventMessages) = Range(events[c]) \cup Range(eventMessages)
      BY <1>0, RangeConcat
    <3> QED BY <1>0, <2>1, <3>1
  <2> QED BY <2>1, <2>2 DEF Messages
<1>5. ASSUME NEW c \in Conn, AcknowledgeEventMessages(c) PROVE Messages' \subseteq Messages
  <2>1. PICK n \in 0..Len(sentEventMessages) :
          sentEventMessages' = SubSeq(sentEventMessages, n + 1, Len(sentEventMessages))
    BY <1>5 DEF AcknowledgeEventMessages
  <2>2. Range(sentEventMessages') \subseteq Range(sentEventMessages)
    BY <1>0, <2>1, RangeSuffix
  <2> QED BY <1>5, <2>2 DEF AcknowledgeEventMessages, Messages, loopVars, clientVars
<1>6. CASE ProcessEvents
  <2> DEFINE message == Head(events[current])
  <2>1. /\ events' = [events EXCEPT ![current] = Tail(@)]
        /\ processed' = processed \/ processed' = Append(processed, message)
        /\ events[current] # <<>> /\ events[current] \in Seq(Message)
        /\ UNCHANGED <<sentEventMessages, eventMessages>>
    BY <1>0, <1>6 DEF ProcessEvents, hubVars, loopVars
  <2>2. /\ message \in Message /\ message \in Range(events[current])
        /\ Range(Tail(events[current])) \subseteq Range(events[current])
    BY <2>1, RangeTail
  <2>3. ASSUME NEW c \in Conn PROVE Range(events'[c]) \subseteq Range(events[c])
    BY <1>0, <2>1, <2>2
  <2> HIDE DEF message
  <2>4. Range(processed') \subseteq Range(processed) \cup {message}
    <3>1. Range(Append(processed, message)) = Range(processed) \cup {message}
      BY <1>0, <2>2, RangeAppend
    <3> QED BY <2>1, <3>1
  <2> QED BY <1>0, <2>1, <2>2, <2>3, <2>4 DEF Messages
<1>7. CASE Break
  <2>1. ASSUME NEW c \in Conn PROVE Range(events'[c]) \subseteq Range(events[c])
    BY <1>0, <1>7, RangeEmpty DEF Break
  <2> QED BY <1>7, <2>1 DEF Break, Messages, hubVars, loopVars, clientVars
<1>8. ASSUME NEW c \in Conn, ProcessSubscriber(c), ~AcknowledgeEventMessages(c)
      PROVE  Messages' \subseteq Messages
  BY <1>1, <1>8 DEF ProcessSubscriber, UpdateTarget, SendUnacknowledgedEvents, loopVars,
     clientVars
<1>9. \/ EnqueueSyncEvent \/ \E value \in BOOLEAN : SetQueueEvents(value)
      \/ StartSendEvents \/ ClearUnsentSyncEvents \/ \E c \in Conn : Close(c)
      \/ SyncTasks \/ UNCHANGED vars
      => Messages' \subseteq Messages
  BY <1>1 DEF EnqueueSyncEvent, SetQueueEvents, StartSendEvents, ClearUnsentSyncEvents,
     Close, SyncTasks, vars, hubVars, loopVars, connVars, clientVars
<1> QED BY <1>2, <1>3, <1>4, <1>5, <1>6, <1>7, <1>8, <1>9 DEF Next, SendEvents

\* The steps of the send loop.
LEMMA OrderSendEvents ==
  ASSUME OrderInv, TypeOK', SendEvents
  PROVE  MessagesOrdered' /\ PendingOrdered'
<1> USE DEF OrderInv
<1>0. /\ sentEventMessages \in Seq(Message) /\ eventMessages \in Seq(Message)
      /\ processed \in Seq(Message) /\ events \in [Conn -> Seq(Message)]
      /\ syncEvents \in Seq(Nat) /\ unsentSyncEvents \in Seq(Nat) /\ published \in Nat
  BY DEF TypeOK
<1>1. [Next]_vars /\ TypeOK /\ LoopShape
  BY DEF Next
<1>2. ASSUME /\ ~WriteEventMessage /\ UNCHANGED <<eventCounter, published>>
             /\ Range(syncEvents') \cup Range(unsentSyncEvents') \subseteq Pending
             /\ Before(Range(syncEvents'), Range(unsentSyncEvents'))
      PROVE  MessagesOrdered' /\ PendingOrdered'
  <2>1. MessagesOrdered'
    BY <1>0, <1>1, <1>2, MessagesNext, MessagesKept DEF Pending
  <2> QED BY <1>2, <2>1 DEF PendingOrdered, Pending
<1>3. CASE StartSendEvents \/ StoreEventMessage \/ SendEventMessages
  BY <1>2, <1>3 DEF StartSendEvents, StoreEventMessage, SendEventMessages,
     WriteEventMessage, PendingOrdered, Pending, hubVars
<1>5. CASE ClearUnsentSyncEvents \/ DequeueEvents
  <2>1. Range(syncEvents') = {} \/ Range(unsentSyncEvents') = {}
    BY <1>5, RangeEmpty DEF ClearUnsentSyncEvents, DequeueEvents
  <2>2. Range(syncEvents') \cup Range(unsentSyncEvents') \subseteq Pending
    BY <1>5, RangeEmpty DEF ClearUnsentSyncEvents, DequeueEvents, Pending
  <2> QED BY <1>2, <1>5, <2>1, <2>2
      DEF ClearUnsentSyncEvents, DequeueEvents, WriteEventMessage, Before
<1>4. CASE WriteEventMessage
  <2> DEFINE new == [seq |-> eventCounter + 1, events |-> syncEvents]
  <2>1. /\ eventMessages' = Append(eventMessages, new) /\ eventCounter' = eventCounter + 1
        /\ syncEvents # <<>> /\ syncEvents' = <<>>
        /\ UNCHANGED <<published, sentEventMessages, processed, events, unsentSyncEvents>>
    BY <1>4 DEF WriteEventMessage, LoopShape, connVars, clientVars
  <2>2. new \in Message /\ eventCounter \in Nat
    BY DEF Message, TypeOK
  <2>3. Messages' = Messages \cup {new}
    <3>1. Range(eventMessages') = Range(eventMessages) \cup {new}
      BY <1>0, <2>1, <2>2, RangeAppend
    <3> QED BY <2>1, <3>1 DEF Messages
  <2>4. Pending' = Range(unsentSyncEvents) /\ Range(syncEvents') = {}
    BY <2>1, RangeEmpty DEF Pending
  <2>5. /\ Messages \subseteq Message /\ Pending \subseteq Nat
        /\ \A m \in Message : m.seq \in Nat /\ Range(m.events) \subseteq Nat
    BY MessagesType
  <2>6. /\ Before(Range(new.events), Pending') /\ \A e \in Range(new.events) : e <= published
        /\ new.events # <<>> /\ new.seq = eventCounter + 1
    BY <2>1, <2>4 DEF PendingOrdered, Pending
  <2> HIDE DEF new
  <2>7. MessagesOrdered'
    <3> SUFFICES ASSUME NEW m \in Messages'
                 PROVE  /\ 1 <= m.seq /\ m.seq <= eventCounter' /\ m.events # <<>>
                        /\ Before(Range(m.events), Pending')
                        /\ \A e \in Range(m.events) : e <= published'
                        /\ \A n \in Messages' :
                             /\ m.seq < n.seq => Before(Range(m.events), Range(n.events))
                             /\ m.seq = n.seq => m = n
      BY DEF MessagesOrdered, Before
    <3>1. ASSUME NEW n \in Messages
          PROVE  /\ 1 <= n.seq /\ n.seq <= eventCounter /\ n.events # <<>>
                 /\ Before(Range(n.events), Pending')
                 /\ Before(Range(n.events), Range(new.events))
                 /\ \A e \in Range(n.events) : e <= published
                 /\ n.seq \in Nat
      <4>1. Before(Range(n.events), Pending)
        BY DEF MessagesOrdered
      <4>2. Range(new.events) = Range(syncEvents)
        BY DEF new
      <4> QED BY <2>4, <2>5, <4>1, <4>2 DEF MessagesOrdered, Before, Pending
    <3>2. CASE m = new
      BY <2>1, <2>2, <2>3, <2>6, <3>1, <3>2
    <3>3. CASE m \in Messages
      <4>1. ASSUME NEW n \in Messages'
            PROVE  /\ m.seq < n.seq => Before(Range(m.events), Range(n.events))
                   /\ m.seq = n.seq => m = n
        <5>1. CASE n = new
          BY <2>2, <2>6, <3>1, <3>3, <5>1
        <5>2. CASE n \in Messages
          BY <3>3, <5>2 DEF MessagesOrdered
        <5> QED BY <2>3, <5>1, <5>2
      <4> QED BY <2>1, <2>2, <3>1, <3>3, <4>1
    <3> QED BY <2>3, <3>2, <3>3
  <2>8. PendingOrdered'
    BY <2>1, <2>4 DEF PendingOrdered, Before, Pending
  <2> QED BY <2>7, <2>8
<1> QED BY <1>3, <1>4, <1>5 DEF SendEvents

\* The remaining steps: those of the client, its requests and the network.
LEMMA OrderOthers ==
  ASSUME OrderInv, TypeOK', Next, ~SendEvents
  PROVE  MessagesOrdered' /\ PendingOrdered'
<1> USE DEF OrderInv
<1>0. /\ sentEventMessages \in Seq(Message) /\ processed \in Seq(Message)
      /\ events \in [Conn -> Seq(Message)] /\ current \in Conn
      /\ unsentSyncEvents \in Seq(Nat) /\ published \in Nat
  BY DEF TypeOK
<1>1. CASE EnqueueSyncEvent
  <2>1. /\ published' = published + 1
        /\ unsentSyncEvents' = Append(unsentSyncEvents, published + 1)
        /\ UNCHANGED <<eventCounter, syncEvents>> /\ Messages' = Messages
    <3>1. /\ published' = published + 1
          /\ unsentSyncEvents' = Append(unsentSyncEvents, published + 1)
          /\ UNCHANGED <<eventCounter, sentEventMessages, loopVars, connVars, clientVars>>
      BY <1>1 DEF EnqueueSyncEvent
    <3>2. UNCHANGED <<syncEvents, eventMessages, events, processed>>
      BY <3>1 DEF loopVars, connVars, clientVars
    <3>3. Messages' = Messages
      BY <3>1, <3>2 DEF Messages
    <3> QED BY <3>1, <3>2, <3>3
  <2>2. Range(unsentSyncEvents') = Range(unsentSyncEvents) \cup {published + 1}
    <3>1. published + 1 \in Nat /\ unsentSyncEvents \in Seq(Nat)
      BY <1>0
    <3>2. Range(Append(unsentSyncEvents, published + 1))
            = Range(unsentSyncEvents) \cup {published + 1}
      BY <3>1, RangeAppend
    <3> QED BY <2>1, <3>2
  <2>3. \A f \in Pending' : f \in Pending \/ f > published
    BY <1>0, <2>1, <2>2 DEF Pending
  <2>4. MessagesOrdered'
    BY <1>0, <2>1, <2>3, MessagesKept
  <2>5. Pending \subseteq Nat
    BY MessagesType
  <2> QED BY <1>0, <2>1, <2>2, <2>4, <2>5 DEF PendingOrdered, Before, Pending
<1>2. ASSUME UNCHANGED <<eventCounter, published, syncEvents, unsentSyncEvents>>
      PROVE  MessagesOrdered' /\ PendingOrdered'
  <2>1. Pending' = Pending /\ Messages' \subseteq Messages
    BY <1>2, MessagesNext DEF Pending, SendEvents
  <2>2. MessagesOrdered'
    BY <1>0, <1>2, <2>1, MessagesKept
  <2> QED BY <1>2, <2>1, <2>2 DEF PendingOrdered, Before
<1>3. CASE ~EnqueueSyncEvent
  BY <1>2, <1>3 DEF Next, SetQueueEvents, ProcessSubscriber, UpdateTarget,
     SendUnacknowledgedEvents, AcknowledgeEventMessages, Close, SyncTasks, ProcessEvents,
     Break, hubVars, loopVars
<1> QED BY <1>1, <1>3

\* The client's part of the invariant.
LEMMA ClientNext ==
  ASSUME OrderInv, TypeOK', [Next]_vars
  PROVE  ClientOrdered'
<1> USE DEF OrderInv
<1>0. /\ requests \in [Conn -> Seq(Nat)] /\ lastEventSeq \in Nat
      /\ handler \in [Conn -> [pc : {"idle", "unacknowledged", "ack"}, ack : Nat]]
      /\ processed \in Seq(Message) /\ current \in Conn
  BY DEF TypeOK
<1>1. ASSUME /\ UNCHANGED <<processed, lastEventSeq>>
             /\ \A c \in Conn : /\ handler'[c].ack <= lastEventSeq
                                /\ \A i \in 1..Len(requests'[c]) : requests'[c][i] <= lastEventSeq
      PROVE  ClientOrdered'
  BY <1>1 DEF ClientOrdered
<1>2. ASSUME UNCHANGED <<processed, lastEventSeq, handler, requests>>
      PROVE  ClientOrdered'
  BY <1>1, <1>2 DEF ClientOrdered
<1>3. CASE EnqueueSyncEvent
  BY <1>2, <1>3 DEF EnqueueSyncEvent, connVars, clientVars
<1>4. ASSUME NEW value \in BOOLEAN, SetQueueEvents(value) PROVE ClientOrdered'
  BY <1>2, <1>4 DEF SetQueueEvents, connVars, clientVars
<1>5. CASE SendEvents
  BY <1>2, <1>5 DEF SendEvents, StartSendEvents, ClearUnsentSyncEvents, DequeueEvents,
     WriteEventMessage, StoreEventMessage, SendEventMessages, connVars, clientVars
<1>6. ASSUME NEW c \in Conn, ProcessSubscriber(c) PROVE ClientOrdered'
  <2>1. CASE UpdateTarget(c)
    <3>1. /\ requests[c] \in Seq(Nat) /\ requests[c] # <<>>
          /\ requests' = [requests EXCEPT ![c] = Tail(@)]
          /\ handler'[c].ack = Head(requests[c])
          /\ \A d \in Conn \ {c} : handler'[d] = handler[d]
      BY <1>0, <2>1 DEF UpdateTarget
    <3>2. \A i \in 1..Len(requests[c]) : requests[c][i] <= lastEventSeq
      BY DEF ClientOrdered
    <3>3. /\ \A i \in 1..Len(Tail(requests[c])) : Tail(requests[c])[i] <= lastEventSeq
          /\ Head(requests[c]) <= lastEventSeq
      BY <3>1, <3>2, HeadTailProperties
    <3>4. \A d \in Conn : /\ handler'[d].ack <= lastEventSeq
                          /\ \A i \in 1..Len(requests'[d]) : requests'[d][i] <= lastEventSeq
      BY <1>0, <3>1, <3>3 DEF ClientOrdered
    <3> QED BY <1>1, <2>1, <3>4 DEF UpdateTarget, clientVars
  <2>2. CASE SendUnacknowledgedEvents(c)
    <3>1. \A d \in Conn : handler'[d].ack = handler[d].ack
      BY <1>0, <2>2 DEF SendUnacknowledgedEvents
    <3> QED BY <1>1, <2>2, <3>1 DEF SendUnacknowledgedEvents, ClientOrdered, clientVars
  <2>3. CASE AcknowledgeEventMessages(c)
    <3>1. \A d \in Conn : handler'[d].ack = handler[d].ack
      BY <1>0, <2>3 DEF AcknowledgeEventMessages
    <3> QED BY <1>1, <2>3, <3>1 DEF AcknowledgeEventMessages, ClientOrdered, clientVars
  <2> QED BY <1>6, <2>1, <2>2, <2>3 DEF ProcessSubscriber
<1>7. ASSUME NEW c \in Conn, Close(c) PROVE ClientOrdered'
  <2>1. \A d \in Conn : \A i \in 1..Len(requests'[d]) : requests'[d][i] <= lastEventSeq
    BY <1>0, <1>7 DEF Close, ClientOrdered
  <2> QED BY <1>1, <1>7, <2>1 DEF Close, ClientOrdered, clientVars
<1>8. CASE SyncTasks
  <2>1. PICK c \in Conn :
          \/ requests' = [requests EXCEPT ![c] = Append(@, lastEventSeq)]
          \/ requests' = [requests EXCEPT ![c] = <<lastEventSeq>>]
    <3>1. current' \in Conn
      BY DEF TypeOK
    <3> QED BY <1>0, <1>8, <3>1 DEF SyncTasks, SendRequest
  <2>2. \A i \in 1..Len(requests[c]) : requests[c][i] <= lastEventSeq
    BY DEF ClientOrdered
  <2>3. \A i \in 1..Len(Append(requests[c], lastEventSeq)) :
          Append(requests[c], lastEventSeq)[i] <= lastEventSeq
    <3>1. requests[c] \in Seq(Nat)
      BY <1>0
    <3>2. /\ Len(Append(requests[c], lastEventSeq)) = Len(requests[c]) + 1
          /\ Append(requests[c], lastEventSeq)[Len(requests[c]) + 1] = lastEventSeq
          /\ \A i \in 1..Len(requests[c]) :
               Append(requests[c], lastEventSeq)[i] = requests[c][i]
          /\ Len(requests[c]) \in Nat
      BY <1>0, <3>1, RangeAppend
    <3> QED BY <1>0, <2>2, <3>2
  <2>4. \A d \in Conn : \A i \in 1..Len(requests'[d]) : requests'[d][i] <= lastEventSeq
    <3> SUFFICES ASSUME NEW d \in Conn, NEW i \in 1..Len(requests'[d])
                 PROVE  requests'[d][i] <= lastEventSeq
      OBVIOUS
    <3>1. CASE d # c
      BY <1>0, <2>1, <3>1 DEF ClientOrdered
    <3>2. CASE d = c /\ requests'[c] = Append(requests[c], lastEventSeq)
      BY <2>3, <3>2
    <3>3. CASE d = c /\ requests'[c] = <<lastEventSeq>>
      BY <1>0, <3>3
    <3> QED BY <1>0, <2>1, <3>1, <3>2, <3>3
  <2> QED BY <1>1, <1>8, <2>4 DEF SyncTasks, ClientOrdered
<1>9. CASE ProcessEvents
  <2> DEFINE message == Head(events[current])
  <2>1. UNCHANGED <<handler, requests>>
    BY <1>9 DEF ProcessEvents
  <2>2. CASE IsNew(message)
    <3>1. /\ lastEventSeq' = message.seq /\ lastEventSeq < message.seq
          /\ processed' = Append(processed, message)
      BY <1>9, <2>2 DEF ProcessEvents, IsNew
    <3>2. message \in Message
      <4>1. events[current] \in Seq(Message) /\ events[current] # <<>>
        BY <1>9 DEF ProcessEvents, TypeOK
      <4> QED BY <4>1, RangeTail
    <3> HIDE DEF message
    <3>3. /\ Len(processed') = Len(processed) + 1 /\ processed' # <<>>
          /\ processed'[Len(processed) + 1] = message
          /\ \A i \in 1..Len(processed) : processed'[i] = processed[i]
          /\ Len(processed) \in Nat
      BY <1>0, <3>1, <3>2, RangeAppend
    <3>4. \A i \in 1..Len(processed) : processed[i].seq \in Nat /\ processed[i].seq <= lastEventSeq
      <4>1. \A i \in 1..Len(processed) : processed[i].seq \in Nat
        <5>1. \A i \in 1..Len(processed) : processed[i] \in Message
          BY <1>0, ElementOfSeq
        <5> QED BY <5>1, MessagesType DEF OrderInv
      <4>2. processed # <<>> => Len(processed) \in 1..Len(processed)
        BY <1>0, EmptySeq
      <4>3. processed # <<>> => processed[Len(processed)].seq = lastEventSeq
        BY DEF ClientOrdered
      <4>4. ASSUME NEW i \in 1..Len(processed) PROVE processed[i].seq <= lastEventSeq
        <5>1. processed # <<>> /\ Len(processed) \in Nat
          BY <1>0, EmptySeq
        <5>2. CASE i = Len(processed)
          BY <1>0, <4>3, <5>1, <5>2
        <5>3. CASE i < Len(processed)
          <6>1. processed[i].seq < processed[Len(processed)].seq
            BY <4>2, <5>1, <5>3 DEF ClientOrdered
          <6> QED BY <1>0, <4>1, <4>3, <5>1, <6>1
        <5> QED BY <5>1, <5>2, <5>3
      <4> QED BY <4>1, <4>4
    <3>6. lastEventSeq' \in Nat
      BY DEF TypeOK
    <3>5. \A i, j \in 1..Len(processed') : i < j => processed'[i].seq < processed'[j].seq
      <4> SUFFICES ASSUME NEW i \in 1..Len(processed'), NEW j \in 1..Len(processed'), i < j
                   PROVE  processed'[i].seq < processed'[j].seq
        OBVIOUS
      <4>1. CASE j = Len(processed) + 1
        <5>1. i \in 1..Len(processed)
          BY <3>3, <4>1
        <5>2. processed'[i].seq <= lastEventSeq /\ processed'[i].seq \in Nat
          BY <3>3, <3>4, <5>1
        <5>3. processed'[j].seq = lastEventSeq'
          BY <3>1, <3>3, <4>1
        <5> QED BY <1>0, <3>1, <3>6, <5>2, <5>3
      <4>2. CASE j \in 1..Len(processed)
        BY <3>3, <4>2 DEF ClientOrdered
      <4> QED BY <3>3, <4>1, <4>2
    <3>7. \A c \in Conn : /\ handler'[c].ack <= lastEventSeq'
                          /\ \A i \in 1..Len(requests'[c]) : requests'[c][i] <= lastEventSeq'
      <4> SUFFICES ASSUME NEW c \in Conn
                   PROVE  /\ handler[c].ack <= lastEventSeq'
                          /\ \A i \in 1..Len(requests[c]) : requests[c][i] <= lastEventSeq'
        BY <2>1
      <4>1. handler[c].ack \in Nat /\ \A i \in 1..Len(requests[c]) : requests[c][i] \in Nat
        BY <1>0
      <4> QED BY <1>0, <3>1, <3>6, <4>1 DEF ClientOrdered
    <3> QED BY <3>1, <3>3, <3>5, <3>7 DEF ClientOrdered
  <2>3. CASE ~IsNew(message)
    BY <1>2, <1>9, <2>1, <2>3 DEF ProcessEvents
  <2> QED BY <2>2, <2>3
<1>10. CASE Break
  BY <1>2, <1>10 DEF Break, clientVars
<1>11. CASE UNCHANGED vars
  BY <1>2, <1>11 DEF vars, connVars, clientVars
<1> QED BY <1>3, <1>4, <1>5, <1>6, <1>7, <1>8, <1>9, <1>10, <1>11 DEF Next

\* OrderInv is an inductive invariant.
THEOREM OrderCorrect == Spec => []OrderInv
<1>1. Init => OrderInv
  <2> SUFFICES ASSUME Init PROVE OrderInv
    OBVIOUS
  <2>1. TypeOK /\ LoopShape
    BY TypeInit
  <2>2. Messages = {} /\ Pending = {} /\ Range(syncEvents) = {}
    BY RangeEmpty DEF Init, Messages, Pending
  <2>3. ClientOrdered
    BY DEF Init, ClientOrdered
  <2> QED BY <2>1, <2>2, <2>3 DEF OrderInv, MessagesOrdered, PendingOrdered, Before, Pending
<1>2. OrderInv /\ [Next]_vars => OrderInv'
  <2> SUFFICES ASSUME OrderInv, [Next]_vars PROVE OrderInv'
    OBVIOUS
  <2>1. TypeOK' /\ LoopShape'
    BY TypeNext DEF OrderInv
  <2>2. ClientOrdered'
    BY <2>1, ClientNext
  <2>3. MessagesOrdered' /\ PendingOrdered'
    <3>1. CASE SendEvents
      BY <2>1, <3>1, OrderSendEvents
    <3>2. CASE Next /\ ~SendEvents
      BY <2>1, <3>2, OrderOthers
    <3>3. CASE UNCHANGED vars
      BY <3>3 DEF OrderInv, MessagesOrdered, PendingOrdered, Before, Messages, Pending,
         vars, hubVars, loopVars, connVars, clientVars
    <3> QED BY <3>1, <3>2, <3>3
  <2> QED BY <2>1, <2>2, <2>3 DEF OrderInv
<1> QED BY <1>1, <1>2, PTL DEF Spec

\* The client processes messages and their events in order and at most once,
\* however often it reconnects, messages are sent again and acknowledgements
\* are late, and whatever the send loop and the requests interleave.
THEOREM ProcessedInOrderCorrect == Spec => []ProcessedInOrder
<1>1. OrderInv => ProcessedInOrder
  <2> SUFFICES ASSUME OrderInv, NEW i \in 1..Len(processed), NEW j \in 1..Len(processed), i < j
               PROVE  /\ processed[i].seq < processed[j].seq
                      /\ \A e \in Range(processed[i].events), f \in Range(processed[j].events) :
                           e < f
    BY DEF ProcessedInOrder
  <2>1. processed[i].seq < processed[j].seq
    BY DEF OrderInv, ClientOrdered
  <2>2. processed[i] \in Messages /\ processed[j] \in Messages
    <3>1. processed \in Seq(Message)
      BY DEF OrderInv, TypeOK
    <3>2. processed[i] \in Range(processed) /\ processed[j] \in Range(processed)
      BY <3>1, RangeSeq
    <3> QED BY <3>2 DEF Messages
  <2> QED BY <2>1, <2>2 DEF OrderInv, MessagesOrdered, Before
<1> QED BY <1>1, OrderCorrect, PTL

-----------------------------------------------------------------------------
(* Retention                                                               *)

\* The inductive invariant behind RetainedUntilPassed, with OrderInv.
RetainedInv == RetainedUntilPassed /\ (queueEvents => loop # "clear")

\* What is acknowledged was processed, or the client is already beyond it.
LEMMA AcknowledgedIsPassed ==
  ASSUME OrderInv, NEW m \in Messages, m.seq <= lastEventSeq, NEW e \in Range(m.events)
  PROVE  Passed(e)
<1>0. /\ processed \in Seq(Message) /\ lastEventSeq \in Nat /\ m.seq \in Nat /\ 1 <= m.seq
      /\ e \in Nat
  BY MessagesType DEF OrderInv, TypeOK, MessagesOrdered
<1>1. processed # <<>> /\ lastEventSeq = processed[Len(processed)].seq
  BY <1>0 DEF OrderInv, ClientOrdered
<1> DEFINE last == processed[Len(processed)]
<1>2. Len(processed) \in 1..Len(processed)
  BY <1>0, <1>1, EmptySeq
<1>3. last \in Messages /\ last \in Message
  <2>1. last \in Range(processed) /\ last \in Message
    BY <1>0, <1>2, RangeSeq
  <2> QED BY <2>1 DEF Messages
<1>4. PICK f \in Range(last.events) : e <= f
  <2>1. CASE m.seq = last.seq
    <3>1. m = last
      BY <1>3, <2>1 DEF OrderInv, MessagesOrdered
    <3> QED BY <1>0, <3>1
  <2>2. CASE m.seq < last.seq
    <3>1. Before(Range(m.events), Range(last.events)) /\ last.events # <<>>
      BY <1>3, <2>2 DEF OrderInv, MessagesOrdered
    <3>2. last.events \in Seq(Nat)
      BY <1>3 DEF Message
    <3>3. PICK f \in Range(last.events) : TRUE
      <4>1. 1 \in 1..Len(last.events)
        BY <3>1, <3>2, EmptySeq
      <4>2. last.events[1] \in Range(last.events)
        BY <3>2, <4>1, RangeSeq
      <4> QED BY <4>2
    <3>4. f \in Nat /\ e < f
      BY <1>3, <3>1, <3>3, MessagesType DEF OrderInv, Before
    <3> QED BY <1>0, <3>4
  <2>3. last.seq \in Nat
    BY <1>3, MessagesType DEF OrderInv
  <2> QED BY <1>0, <1>1, <2>1, <2>2, <2>3
<1> HIDE DEF last
<1> QED BY <1>2, <1>4 DEF Passed, last

\* What the client has passed it does not forget.
LEMMA PassedKept ==
  ASSUME TypeOK, [Next]_vars, NEW e, Passed(e)
  PROVE  Passed(e)'
<1>1. PICK i \in 1..Len(processed) : \E f \in Range(processed[i].events) : e <= f
  BY DEF Passed
<1>2. CASE processed' = processed
  BY <1>1, <1>2 DEF Passed
<1>3. CASE ProcessEvents /\ processed' # processed
  <2> DEFINE message == Head(events[current])
  <2>1. processed' = Append(processed, message) /\ message \in Message
    <3>1. events[current] \in Seq(Message) /\ events[current] # <<>>
      BY <1>3 DEF ProcessEvents, TypeOK
    <3> QED BY <1>3, <3>1, RangeTail DEF ProcessEvents
  <2> HIDE DEF message
  <2>2. /\ Len(processed') = Len(processed) + 1 /\ processed'[i] = processed[i]
        /\ Len(processed) \in Nat
    BY <2>1, RangeAppend DEF TypeOK
  <2>3. i \in 1..Len(processed')
    BY <2>2
  <2> QED BY <1>1, <2>2, <2>3 DEF Passed
<1>4. [Next]_vars /\ ~ProcessEvents => processed' = processed
  BY DEF Next, vars, clientVars, hubVars, loopVars, connVars, EnqueueSyncEvent,
     SetQueueEvents, SendEvents, StartSendEvents, ClearUnsentSyncEvents, DequeueEvents,
     WriteEventMessage, StoreEventMessage, SendEventMessages, ProcessSubscriber,
     UpdateTarget, SendUnacknowledgedEvents, AcknowledgeEventMessages, Close, SyncTasks,
     Break
<1> QED BY <1>2, <1>3, <1>4

\* While the client queues its events, the send loop moves events on and drops none ...
LEMMA HeldSendEvents ==
  ASSUME OrderInv, OrderInv', queueEvents, loop # "clear", SendEvents, NEW e, Held(e)
  PROVE  Held(e)'
<1> USE DEF OrderInv
<1>0. sentEventMessages \in Seq(Message) /\ eventMessages \in Seq(Message)
  BY DEF TypeOK
<1>1. CASE StartSendEvents
  <2>1. /\ UNCHANGED <<unsentSyncEvents, syncEvents, sentEventMessages>> /\ loop = "idle"
    BY <1>1 DEF StartSendEvents, hubVars
  <2> QED BY <2>1 DEF Held
<1>2. CASE DequeueEvents
  <2>1. /\ UNCHANGED sentEventMessages /\ loop = "dequeue"
        /\ syncEvents' = unsentSyncEvents /\ syncEvents = <<>>
    BY <1>2 DEF DequeueEvents, LoopShape
  <2> QED BY <2>1, RangeEmpty DEF Held
<1>3. CASE WriteEventMessage
  <2>1. /\ UNCHANGED <<sentEventMessages, unsentSyncEvents>>
        /\ eventMessages' =
             Append(eventMessages, [seq |-> eventCounter', events |-> syncEvents])
        /\ loop = "write" /\ loop' = "store"
    BY <1>3 DEF WriteEventMessage
  <2>2. eventMessages'[Len(eventMessages')].events = syncEvents
    <3>1. [seq |-> eventCounter', events |-> syncEvents] \in Message
      BY DEF TypeOK, Message
    <3> QED BY <1>0, <2>1, <3>1, RangeAppend
  <2> QED BY <2>1, <2>2 DEF Held
<1>4. CASE StoreEventMessage
  <2> DEFINE message == eventMessages[Len(eventMessages)]
  <2>1. /\ UNCHANGED <<unsentSyncEvents, syncEvents>>
        /\ sentEventMessages' = Append(sentEventMessages, message)
        /\ loop = "store"
    BY <1>4 DEF StoreEventMessage
  <2>2. message \in Message
    BY <1>0, <2>1, EmptySeq, ElementOfSeq DEF LoopShape
  <2>3. /\ Len(sentEventMessages') = Len(sentEventMessages) + 1
        /\ sentEventMessages'[Len(sentEventMessages) + 1] = message
        /\ \A i \in 1..Len(sentEventMessages) : sentEventMessages'[i] = sentEventMessages[i]
        /\ Len(sentEventMessages) \in Nat
    <3> HIDE DEF message
    <3> QED BY <1>0, <2>1, <2>2, RangeAppend
  <2>4. CASE e \in Range(unsentSyncEvents) \cup Range(syncEvents)
    BY <2>1, <2>4 DEF Held
  <2>5. CASE e \in Range(message.events)
    <3>1. Len(sentEventMessages) + 1 \in 1..Len(sentEventMessages')
      BY <2>3
    <3> QED BY <2>3, <2>5, <3>1 DEF Held
  <2>6. ASSUME NEW i \in 1..Len(sentEventMessages),
               e \in Range(sentEventMessages[i].events)
        PROVE  Held(e)'
    <3>1. i \in 1..Len(sentEventMessages')
      BY <2>3
    <3> QED BY <2>3, <2>6, <3>1 DEF Held
  <2> QED BY <2>4, <2>5, <2>6 DEF Held
<1>5. CASE SendEventMessages
  <2>1. /\ UNCHANGED <<unsentSyncEvents, syncEvents, sentEventMessages>> /\ loop = "send"
    BY <1>5 DEF SendEventMessages, hubVars
  <2> QED BY <2>1 DEF Held
<1> QED BY <1>1, <1>2, <1>3, <1>4, <1>5 DEF SendEvents, ClearUnsentSyncEvents

\* ... and everybody else drops only what the client acknowledged.
LEMMA HeldOthers ==
  ASSUME OrderInv, Next, ~SendEvents, NEW e, Held(e)
  PROVE  Held(e)' \/ \E m \in Messages : m.seq <= lastEventSeq /\ e \in Range(m.events)
<1> USE DEF OrderInv
<1>0. sentEventMessages \in Seq(Message) /\ unsentSyncEvents \in Seq(Nat) /\ published \in Nat
  BY DEF TypeOK
<1>1. CASE EnqueueSyncEvent
  <2>1. /\ UNCHANGED <<syncEvents, sentEventMessages, loop, eventMessages>>
        /\ unsentSyncEvents' = Append(unsentSyncEvents, published + 1)
    BY <1>1 DEF EnqueueSyncEvent, loopVars
  <2>2. Range(unsentSyncEvents') = Range(unsentSyncEvents) \cup {published + 1}
    <3>1. published + 1 \in Nat
      BY <1>0
    <3> QED BY <1>0, <2>1, <3>1, RangeAppend
  <2> QED BY <2>1, <2>2 DEF Held
<1>2. CASE UNCHANGED <<unsentSyncEvents, syncEvents, sentEventMessages, loop, eventMessages>>
  BY <1>2 DEF Held
<1>3. ASSUME NEW c \in Conn, AcknowledgeEventMessages(c)
      PROVE  \/ Held(e)'
             \/ \E m \in Messages : m.seq <= lastEventSeq /\ e \in Range(m.events)
  <2>1. PICK n \in 0..Len(sentEventMessages) :
          /\ \A i \in 1..n : IsAcknowledged(sentEventMessages[i], handler[c].ack)
          /\ sentEventMessages' = SubSeq(sentEventMessages, n + 1, Len(sentEventMessages))
    BY <1>3 DEF AcknowledgeEventMessages
  <2>2. UNCHANGED <<unsentSyncEvents, syncEvents, loop, eventMessages>>
    BY <1>3 DEF AcknowledgeEventMessages, loopVars
  <2>3. CASE e \in Range(unsentSyncEvents) \cup Range(syncEvents)
    BY <2>2, <2>3 DEF Held
  <2>4. CASE loop = "store" /\ e \in Range(eventMessages[Len(eventMessages)].events)
    BY <2>2, <2>4 DEF Held
  <2>5. ASSUME NEW i \in 1..Len(sentEventMessages), e \in Range(sentEventMessages[i].events)
        PROVE  \/ Held(e)'
               \/ \E m \in Messages : m.seq <= lastEventSeq /\ e \in Range(m.events)
    <3>1. CASE i <= n
      <4>1. sentEventMessages[i].seq <= handler[c].ack /\ handler[c].ack <= lastEventSeq
        BY <2>1, <3>1 DEF IsAcknowledged, ClientOrdered
      <4>2. sentEventMessages[i] \in Messages
        BY <1>0, RangeSeq DEF Messages
      <4>3. /\ sentEventMessages[i].seq \in Nat /\ handler[c].ack \in Nat
            /\ lastEventSeq \in Nat
        BY <4>2, MessagesType DEF TypeOK
      <4>4. sentEventMessages[i].seq <= lastEventSeq
        BY <4>1, <4>3
      <4> QED BY <2>5, <4>2, <4>4
    <3>2. CASE i > n
      <4>1. sentEventMessages[i] \in Range(sentEventMessages')
        BY <1>0, <2>1, <3>2, RangeSuffix
      <4>2. sentEventMessages' \in Seq(Message)
        BY <1>0, <2>1, RangeSuffix
      <4>3. PICK j \in 1..Len(sentEventMessages') :
              sentEventMessages'[j] = sentEventMessages[i]
        BY <4>1, <4>2, RangeSeq
      <4> QED BY <2>5, <4>3 DEF Held
    <3> QED BY <1>0, <2>1, <3>1, <3>2
  <2> QED BY <2>3, <2>4, <2>5 DEF Held
<1> QED BY <1>1, <1>2, <1>3 DEF Next, SetQueueEvents, ProcessSubscriber, UpdateTarget,
    SendUnacknowledgedEvents, Close, SyncTasks, ProcessEvents, Break, hubVars, loopVars

\* What is held or just published is held until it is acknowledged.
LEMMA HeldNext ==
  ASSUME OrderInv, OrderInv', [Next]_vars, queueEvents, loop # "clear",
         NEW e \in 1..published', e \in 1..published => Held(e)
  PROVE  Held(e)' \/ \E m \in Messages : m.seq <= lastEventSeq /\ e \in Range(m.events)
<1>0. /\ unsentSyncEvents \in Seq(Nat) /\ published \in Nat /\ published' \in Nat
      /\ e \in Nat
  <2>1. unsentSyncEvents \in Seq(Nat) /\ published \in Nat /\ published' \in Nat
    BY DEF OrderInv, TypeOK
  <2> QED BY <2>1
<1>1. CASE e \in 1..published
  <2>1. CASE UNCHANGED vars
    BY <1>1, <2>1 DEF Held, vars, hubVars, loopVars
  <2> QED BY <1>1, <2>1, HeldSendEvents, HeldOthers
<1>2. CASE e \notin 1..published
  <2>1. published' = published \/ EnqueueSyncEvent
    BY DEF Next, vars, SetQueueEvents, SendEvents, StartSendEvents, ClearUnsentSyncEvents,
       DequeueEvents, WriteEventMessage, StoreEventMessage, SendEventMessages,
       ProcessSubscriber, UpdateTarget, SendUnacknowledgedEvents, AcknowledgeEventMessages,
       Close, SyncTasks, ProcessEvents, Break
  <2>2. EnqueueSyncEvent /\ e = published + 1
    <3>1. EnqueueSyncEvent => published' = published + 1
      BY DEF EnqueueSyncEvent
    <3> QED BY <1>0, <1>2, <2>1, <3>1
  <2>3. unsentSyncEvents' = Append(unsentSyncEvents, e)
    BY <2>2 DEF EnqueueSyncEvent
  <2>4. e \in Range(unsentSyncEvents')
    BY <1>0, <2>3, RangeAppend
  <2> QED BY <2>4 DEF Held
<1> QED BY <1>1, <1>2

\* Steps other than these leave queueEvents alone.
LEMMA QueueEventsKept ==
  ASSUME [Next]_vars, ~\E value \in BOOLEAN : SetQueueEvents(value)
  PROVE  UNCHANGED <<queueEvents, queuedSince, dispatching, toggles>>
BY DEF Next, vars, hubVars, EnqueueSyncEvent, SendEvents, StartSendEvents,
   ClearUnsentSyncEvents, DequeueEvents, WriteEventMessage, StoreEventMessage,
   SendEventMessages, ProcessSubscriber, UpdateTarget, SendUnacknowledgedEvents,
   AcknowledgeEventMessages, Close, SyncTasks, ProcessEvents, Break

\* The send loop clears no events of a client that queues them.
LEMMA NothingCleared ==
  ASSUME [Next]_vars, [SetApart]_vars, queueEvents => loop # "clear"
  PROVE  queueEvents' => loop' # "clear"
<1>1. CASE UNCHANGED vars
  BY <1>1 DEF vars, hubVars, loopVars
<1>2. ASSUME NEW value \in BOOLEAN, SetQueueEvents(value), SetApart
      PROVE  queueEvents' => loop' # "clear"
  BY <1>2 DEF SetQueueEvents, SetApart, loopVars
<1>3. CASE Next /\ ~\E value \in BOOLEAN : SetQueueEvents(value)
  <2>1. queueEvents' = queueEvents
    BY <1>3, QueueEventsKept
  <2>2. queueEvents => loop' # "clear"
    BY <1>3 DEF Next, loopVars, EnqueueSyncEvent, SendEvents, StartSendEvents,
       ClearUnsentSyncEvents, DequeueEvents, WriteEventMessage, StoreEventMessage,
       SendEventMessages, ProcessSubscriber, UpdateTarget, SendUnacknowledgedEvents,
       AcknowledgeEventMessages, Close, SyncTasks, ProcessEvents, Break
  <2> QED BY <2>1, <2>2
<1> QED BY <1>1, <1>2, <1>3

\* With OrderInv this is inductive, if queueEvents is set apart.
LEMMA RetainedNext ==
  OrderInv /\ OrderInv' /\ RetainedInv /\ [Next]_vars /\ [SetApart]_vars => RetainedInv'
<1> SUFFICES ASSUME OrderInv, OrderInv', RetainedInv, [Next]_vars, [SetApart]_vars
             PROVE  RetainedInv'
  OBVIOUS
<1> SUFFICES ASSUME queueEvents', NEW e \in queuedSince' + 1 .. published'
             PROVE  Held(e)' \/ Passed(e)'
  BY NothingCleared DEF RetainedInv, RetainedUntilPassed
<1>0. /\ TypeOK /\ queuedSince \in Nat /\ published \in Nat
      /\ queuedSince' \in Nat /\ published' \in Nat /\ e \in Nat /\ queuedSince' # published'
  <2>1. /\ TypeOK /\ queuedSince \in Nat /\ published \in Nat
        /\ queuedSince' \in Nat /\ published' \in Nat
    BY DEF OrderInv, TypeOK
  <2>2. \A q, p \in Nat : \A f \in q + 1 .. p : f \in Nat /\ q # p
    OBVIOUS
  <2> QED BY <2>1, <2>2
<1>1. ASSUME NEW value \in BOOLEAN, SetQueueEvents(value) PROVE FALSE
  <2>1. queueEvents' = value /\ value # queueEvents /\ published' = published
        /\ (~queueEvents => queuedSince' = published)
    BY <1>1 DEF SetQueueEvents
  <2>2. queuedSince' = published'
    BY <2>1
  <2> QED BY <1>0, <2>2
<1>2. UNCHANGED <<queueEvents, queuedSince>>
  BY <1>1, QueueEventsKept
<1>3. queueEvents /\ loop # "clear" /\ e \in 1..published' /\ e \in queuedSince + 1 .. published'
  BY <1>0, <1>2 DEF RetainedInv
<1>4. CASE Passed(e)
  BY <1>0, <1>4, PassedKept
<1>5. CASE ~Passed(e)
  <2>1. e \in 1..published => Held(e)
    BY <1>0, <1>3, <1>5 DEF RetainedInv, RetainedUntilPassed
  <2>2. CASE \E m \in Messages : m.seq <= lastEventSeq /\ e \in Range(m.events)
    BY <1>5, <2>2, AcknowledgedIsPassed
  <2> QED BY <1>3, <2>1, <2>2, HeldNext
<1> QED BY <1>4, <1>5

\* As long as a client queues its events, the hub keeps each until the client has
\* processed it or a later one, for any connections and events and every interleaving
\* of publishers, send loop and requests - if a client does not begin to queue events
\* just when the send loop clears those not yet sent.
THEOREM RetainedCorrect == Spec /\ [][SetApart]_vars => []RetainedUntilPassed
<1>1. Init => RetainedInv
  <2> SUFFICES ASSUME Init PROVE RetainedInv
    OBVIOUS
  <2>1. queuedSince + 1 .. published = {} /\ loop = "idle"
    BY DEF Init
  <2> QED BY <2>1 DEF RetainedInv, RetainedUntilPassed
<1>2. RetainedInv => RetainedUntilPassed
  BY DEF RetainedInv
<1> QED BY <1>1, <1>2, RetainedNext, OrderCorrect, PTL DEF Spec

-----------------------------------------------------------------------------
(* The log a client may read with gaps                                     *)

Increasing(s) ==
  \A i \in 1..Len(s) : 0 < s[i] /\ \A j \in 1..Len(s) : i < j => s[i] < s[j]

\* Inside of a message, and of the buffers a message is made of, events are in the
\* order they were published.
LogInv ==
  /\ Increasing(syncEvents) /\ Increasing(unsentSyncEvents)
  /\ \A m \in Messages : Increasing(m.events)

\* With OrderInv this is inductive.
LEMMA LogNext == OrderInv /\ LogInv /\ [Next]_vars => LogInv'
<1> SUFFICES ASSUME OrderInv, LogInv, [Next]_vars PROVE LogInv'
  OBVIOUS
<1> USE DEF OrderInv
<1>0. TypeOK /\ LoopShape /\ published \in Nat /\ unsentSyncEvents \in Seq(Nat)
  BY DEF TypeOK
<1>1. ASSUME ~WriteEventMessage, Increasing(syncEvents'), Increasing(unsentSyncEvents')
      PROVE  LogInv'
  BY <1>0, <1>1, MessagesNext DEF LogInv, Increasing
<1>2. CASE WriteEventMessage
  <2>1. [seq |-> eventCounter', events |-> syncEvents] \in Message
    BY <1>2 DEF WriteEventMessage, TypeOK, Message
  <2>2. Range(eventMessages') =
          Range(eventMessages) \cup {[seq |-> eventCounter', events |-> syncEvents]}
    <3>1. eventMessages' = Append(eventMessages, [seq |-> eventCounter', events |-> syncEvents])
      BY <1>2 DEF WriteEventMessage
    <3>2. eventMessages \in Seq(Message)
      BY DEF TypeOK
    <3> QED BY <2>1, <3>1, <3>2, RangeAppend
  <2>3. /\ UNCHANGED <<sentEventMessages, processed, events, unsentSyncEvents>>
        /\ syncEvents' = <<>>
    BY <1>2 DEF WriteEventMessage, connVars, clientVars
  <2>4. Messages' = Messages \cup {[seq |-> eventCounter', events |-> syncEvents]}
    BY <2>2, <2>3 DEF Messages
  <2> QED BY <2>3, <2>4 DEF LogInv, Increasing
<1>3. CASE EnqueueSyncEvent
  <2>1. /\ unsentSyncEvents' = Append(unsentSyncEvents, published + 1)
        /\ syncEvents' = syncEvents /\ loop' = loop
    BY <1>3 DEF EnqueueSyncEvent, loopVars
  <2>2. /\ Len(unsentSyncEvents') = Len(unsentSyncEvents) + 1
        /\ unsentSyncEvents'[Len(unsentSyncEvents) + 1] = published + 1
        /\ \A i \in 1..Len(unsentSyncEvents) : unsentSyncEvents'[i] = unsentSyncEvents[i]
        /\ Len(unsentSyncEvents) \in Nat
    BY <1>0, <2>1, RangeAppend
  <2>3. \A i \in 1..Len(unsentSyncEvents) :
          unsentSyncEvents[i] \in Nat /\ unsentSyncEvents[i] <= published
    BY <1>0, RangeSeq DEF PendingOrdered, Pending
  <2>4. Increasing(unsentSyncEvents')
    <3> SUFFICES ASSUME NEW i \in 1..Len(unsentSyncEvents) + 1
                 PROVE  /\ 0 < unsentSyncEvents'[i]
                        /\ \A j \in 1..Len(unsentSyncEvents) + 1 :
                             i < j => unsentSyncEvents'[i] < unsentSyncEvents'[j]
      BY <2>2 DEF Increasing
    <3>1. CASE i = Len(unsentSyncEvents) + 1
      BY <1>0, <2>2, <3>1
    <3>2. CASE i \in 1..Len(unsentSyncEvents)
      <4> DEFINE n == Len(unsentSyncEvents)
                 s == unsentSyncEvents
      <4>1. /\ n \in Nat /\ published \in Nat /\ unsentSyncEvents'[n + 1] = published + 1
            /\ \A j \in 1..n : unsentSyncEvents'[j] = s[j]
        BY <1>0, <2>2
      <4>2. 0 < s[i] /\ \A j \in 1..n : i < j => s[i] < s[j]
        BY <3>2 DEF Increasing, LogInv
      <4>3. s[i] \in Nat /\ s[i] <= published
        BY <2>3, <3>2
      <4> HIDE DEF n, s
      <4>4. i \in 1..n
        BY <3>2 DEF n
      <4>5. unsentSyncEvents'[i] = s[i]
        BY <4>1, <4>4
      <4>6. ASSUME NEW j \in 1..n + 1, i < j PROVE unsentSyncEvents'[i] < unsentSyncEvents'[j]
        <5>1. CASE j \in 1..n
          BY <4>1, <4>2, <4>5, <4>6, <5>1
        <5>2. CASE j = n + 1
          BY <4>1, <4>3, <4>5, <5>2
        <5> QED BY <4>1, <4>6, <5>1, <5>2
      <4> QED BY <4>2, <4>5, <4>6 DEF n
    <3> QED BY <2>2, <3>1, <3>2
  <2>5. ~WriteEventMessage
    BY <1>3, <1>0 DEF EnqueueSyncEvent, WriteEventMessage
  <2> QED BY <1>1, <2>1, <2>4, <2>5 DEF LogInv
<1>4. CASE ~WriteEventMessage /\ ~EnqueueSyncEvent
  <2>1. \/ UNCHANGED <<syncEvents, unsentSyncEvents>>
        \/ unsentSyncEvents' = <<>> /\ syncEvents' \in {syncEvents, unsentSyncEvents}
    BY <1>4 DEF Next, vars, hubVars, loopVars, SetQueueEvents, SendEvents, StartSendEvents,
       ClearUnsentSyncEvents, DequeueEvents, StoreEventMessage, SendEventMessages,
       ProcessSubscriber, UpdateTarget, SendUnacknowledgedEvents, AcknowledgeEventMessages,
       Close, SyncTasks, ProcessEvents, Break
  <2> QED BY <1>1, <1>4, <2>1 DEF LogInv, Increasing
<1> QED BY <1>2, <1>3, <1>4

\* The batches of processed messages.
LEMMA BatchesType ==
  ASSUME NEW s \in Seq(Message)
  PROVE  LET batches == [i \in 1..Len(s) |-> s[i].events]
         IN batches \in Seq(Seq(Nat)) /\ Len(batches) = Len(s)
<1>1. \A i \in 1..Len(s) : s[i] \in Message
  BY ElementOfSeq
<1>2. \A i \in 1..Len(s) : s[i].events \in Seq(Nat)
  BY <1>1 DEF Message
<1> QED BY <1>2

\* The event a log continues after is the last one the client processed.
LEMMA LastDeliveredIsLastProcessed ==
  ASSUME TypeOK
  PROVE  /\ processed = <<>> => LossyLog!LastDelivered = 0
         /\ processed # <<>> => LET last == processed[Len(processed)].events
                                IN LossyLog!LastDelivered = last[Len(last)]
<1>1. processed \in Seq(Message) /\ Len(processed) \in Nat
  BY DEF TypeOK
<1>2. Delivered \in Seq(Seq(Nat)) /\ Len(Delivered) = Len(processed)
  BY <1>1, BatchesType DEF Delivered
<1>3. processed = <<>> <=> Delivered = <<>>
  BY <1>1, <1>2, EmptySeq
<1>4. processed # <<>> => /\ Len(processed) \in 1..Len(processed)
                          /\ Last(Delivered) = processed[Len(processed)].events
  BY <1>1, <1>2, EmptySeq DEF Delivered, Last
<1> QED BY <1>3, <1>4 DEF LossyLog!LastDelivered, LossyLog!Last, Last

\* What a message adds to the log.
LEMMA ProcessedIsDelivered ==
  ASSUME OrderInv, OrderInv', LogInv, ProcessEvents, IsNew(Head(events[current]))
  PROVE  LET message == Head(events[current]) IN
         /\ message \in Messages /\ message.events \in Seq(Nat)
         /\ Delivered' # <<>> /\ Delivered' = Append(Delivered, Last(Delivered'))
         /\ Last(Delivered') = message.events
         /\ LossyLog!IsNextBatch(message.events)
<1> DEFINE message == Head(events[current])
<1> USE DEF OrderInv
<1>1. /\ processed \in Seq(Message) /\ published \in Nat
      /\ events[current] \in Seq(Message) /\ events[current] # <<>> /\ current \in Conn
  BY DEF ProcessEvents, TypeOK
<1>2. /\ processed' = Append(processed, message) /\ message.seq > lastEventSeq
      /\ message \in Message /\ message \in Messages
  <2>1. message \in Message /\ message \in Range(events[current])
    BY <1>1, RangeTail
  <2>2. /\ processed' = Append(processed, message) /\ lastEventSeq < message.seq
    BY DEF ProcessEvents, IsNew
  <2>3. lastEventSeq \in Nat /\ message.seq \in Nat
    BY <2>1 DEF TypeOK, Message
  <2> QED BY <1>1, <2>1, <2>2, <2>3 DEF Messages
<1> HIDE DEF message
<1>3. /\ Len(processed') = Len(processed) + 1 /\ processed'[Len(processed) + 1] = message
      /\ \A i \in 1..Len(processed) : processed'[i] = processed[i]
      /\ Len(processed) \in Nat
  BY <1>1, <1>2, RangeAppend
<1>4. /\ message.events \in Seq(Nat) /\ message.events # <<>>
      /\ Increasing(message.events) /\ \A e \in Range(message.events) : e <= published
  BY <1>2 DEF Message, LogInv, MessagesOrdered
<1>5. /\ Len(Delivered') = Len(Delivered) + 1
      /\ Delivered'[Len(Delivered) + 1] = message.events
      /\ \A i \in 1..Len(Delivered) : Delivered'[i] = Delivered[i]
      /\ Delivered \in Seq(Seq(Nat)) /\ Delivered' \in Seq(Seq(Nat))
      /\ Len(Delivered) = Len(processed)
  <2>1. Delivered \in Seq(Seq(Nat)) /\ Len(Delivered) = Len(processed)
    BY <1>1, BatchesType DEF Delivered
  <2>2. Delivered' \in Seq(Seq(Nat)) /\ Len(Delivered') = Len(processed')
    <3>1. processed' \in Seq(Message)
      BY DEF TypeOK
    <3> QED BY <3>1, BatchesType DEF Delivered
  <2> QED BY <1>3, <2>1, <2>2 DEF Delivered
<1>6. Delivered' = Append(Delivered, message.events)
  BY <1>4, <1>5, AppendProperties
<1>7. Delivered' # <<>> /\ Last(Delivered') = message.events
  <2>1. Len(Delivered') # 0 /\ Last(Delivered') = message.events
    BY <1>5 DEF Last
  <2> QED BY <1>5, <2>1, EmptySeq
<1>8. ASSUME NEW i \in 1..Len(message.events)
      PROVE  LossyLog!LastDelivered < message.events[i] /\ message.events[i] <= published
  <2>1. message.events[i] \in Range(message.events) /\ message.events[i] \in Nat
    BY <1>4, RangeSeq
  <2>2. CASE processed = <<>>
    <3>1. LossyLog!LastDelivered = 0
      BY <2>2, LastDeliveredIsLastProcessed
    <3> QED BY <1>4, <2>1, <3>1 DEF Increasing
  <2>3. CASE processed # <<>>
    <3> DEFINE last == processed[Len(processed)]
    <3>1. last \in Messages /\ last \in Message /\ lastEventSeq = last.seq
      <4>1. Len(processed) \in 1..Len(processed)
        BY <1>1, <2>3, EmptySeq
      <4>2. last \in Range(processed)
        BY <1>1, <4>1, RangeSeq
      <4> QED BY <1>1, <2>3, <4>1, <4>2 DEF Messages, ClientOrdered
    <3>2. Before(Range(last.events), Range(message.events)) /\ last.events # <<>>
      <4>1. last.seq < message.seq
        BY <1>2, <3>1 DEF TypeOK, Message
      <4> HIDE DEF last
      <4> QED BY <1>2, <3>1, <4>1 DEF MessagesOrdered
    <3>3. last.events \in Seq(Nat)
      BY <3>1 DEF Message
    <3>4. last.events[Len(last.events)] \in Range(last.events)
      <4>1. Len(last.events) \in 1..Len(last.events)
        BY <3>2, <3>3, EmptySeq
      <4> HIDE DEF last
      <4> QED BY <3>3, <4>1, RangeSeq
    <3>5. LossyLog!LastDelivered = last.events[Len(last.events)]
      BY <2>3, LastDeliveredIsLastProcessed
    <3> HIDE DEF last
    <3> QED BY <1>4, <2>1, <3>2, <3>4, <3>5 DEF Before
  <2> QED BY <2>2, <2>3
<1>9. LossyLog!IsNextBatch(message.events)
  BY <1>4, <1>8 DEF LossyLog!IsNextBatch, Increasing
<1> QED BY <1>2, <1>4, <1>6, <1>7, <1>9 DEF message

\* Every other step leaves the log alone or publishes.
LEMMA OthersKeepLog ==
  ASSUME [Next]_vars, ~(ProcessEvents /\ IsNew(Head(events[current])))
  PROVE  \/ published' = published + 1 /\ Delivered' = Delivered
         \/ UNCHANGED <<published, Delivered>>
<1>1. processed' = processed /\ published' \in {published, published + 1}
  BY DEF Next, vars, clientVars, hubVars, loopVars, connVars, EnqueueSyncEvent,
     SetQueueEvents, SendEvents, StartSendEvents, ClearUnsentSyncEvents, DequeueEvents,
     WriteEventMessage, StoreEventMessage, SendEventMessages, ProcessSubscriber,
     UpdateTarget, SendUnacknowledgedEvents, AcknowledgeEventMessages, Close, SyncTasks,
     ProcessEvents, Break
<1> QED BY <1>1 DEF Delivered

\* Every step of EventDelivery is one of the log, or none.
LEMMA LossyStepRefines ==
  OrderInv /\ OrderInv' /\ LogInv /\ [Next]_vars => [LossyLog!Next]_(LossyLog!vars)
<1> SUFFICES ASSUME OrderInv, OrderInv', LogInv, [Next]_vars
             PROVE  LossyLog!Next \/ UNCHANGED <<published, Delivered>>
  BY DEF LossyLog!vars
<1>1. CASE ProcessEvents /\ IsNew(Head(events[current]))
  <2>1. published' = published
    BY <1>1 DEF ProcessEvents
  <2>2. /\ Delivered' # <<>> /\ Delivered' = Append(Delivered, Last(Delivered'))
        /\ LossyLog!IsNextBatch(Last(Delivered'))
    BY <1>1, ProcessedIsDelivered
  <2>3. LossyLog!Deliver
    BY <2>1, <2>2 DEF LossyLog!Deliver, LossyLog!Last, Last
  <2> QED BY <2>3 DEF LossyLog!Next
<1>2. CASE ~(ProcessEvents /\ IsNew(Head(events[current])))
  BY <1>2, OthersKeepLog DEF LossyLog!Next, LossyLog!Publish
<1> QED BY <1>1, <1>2

\* However connections break, and whatever is sent again: what the client processes
\* is the log of published events, in order, each event at most once.
THEOREM DeliveryImplementsLossyLog == Spec => ImplementsLossyLog
<1>1. Init => LogInv /\ LossyLog!Init
  <2> SUFFICES ASSUME Init PROVE LogInv /\ LossyLog!Init
    OBVIOUS
  <2>1. Messages = {}
    BY RangeEmpty DEF Init, Messages
  <2> QED BY <2>1 DEF Init, LogInv, Increasing, LossyLog!Init, Delivered
<1> QED BY <1>1, LogNext, LossyStepRefines, OrderCorrect, PTL
    DEF Spec, ImplementsLossyLog, LossyLog!Spec

-----------------------------------------------------------------------------
(* No event is skipped, if reconnects are calm                             *)

\* An event of message m was published since the client queues its events.
Matters(m) == \E e \in Range(m.events) : e > queuedSince

\* The messages the client still has to process.
Due == {m \in Messages : m.seq > lastEventSeq /\ Matters(m)}

\* In s a message comes after all those of D with a lower number.
Complete(s, D) ==
  \A i \in 1..Len(s) : \A m \in D :
    m.seq < s[i].seq => \E j \in 1..Len(s) : j < i /\ s[j] = m

\* The message StoreEventMessage stores.
Made == eventMessages[Len(eventMessages)]

\* The hub has all due messages, in their order.
SentComplete ==
  /\ Complete(sentEventMessages, Due)
  /\ \A m \in Due : m \in Range(sentEventMessages) \/ (loop = "store" /\ m = Made)

\* What the client is beyond it has processed.
ProcessedComplete ==
  \A m \in Messages : m.seq <= lastEventSeq /\ Matters(m) => m \in Range(processed)

\* The messages sent, and the next to send, on the client's connection.
Queue  == events[current]
Coming == Queue \o eventMessages

\* Nothing was sent yet on the current connection, but will be.
Fresh == resendEventMessages \/ \E c \in Conn : handler[c].pc = "unacknowledged"

\* All due messages are on their way to the client, in their order.
OnTheirWay ==
  conn[current] = "open" /\ eventReceiver = current /\ ~Fresh =>
    Complete(Coming, Due) /\ Due \subseteq Range(Coming)

NoneLost == \A e \in queuedSince + 1 .. published : Held(e) \/ Processed(e)

\* The send loop has one target and, when it ends, nothing at hand.
CalmLoop ==
  /\ loop \in {"idle", "clear", "dequeue"} => eventMessages = <<>>
  /\ loop # "idle" => target = eventReceiver
  /\ resendEventMessages => loop \in {"idle", "clear", "dequeue"}
  /\ \A c \in Conn : handler[c].pc = "unacknowledged" => loop = "idle"
  /\ queueEvents => loop # "clear"

\* The receiver is the current connection or one before it, and only on an open
\* connection which is the receiver messages are on their way.
ConnectionsInOrder ==
  /\ eventReceiver <= current
  /\ \A c \in Conn : /\ conn[c] # "open" => events[c] = <<>>
                     /\ c > current => conn[c] = "none"
  /\ conn[current] = "open" /\ (eventReceiver # current \/ Fresh) => Queue = <<>>

\* The inductive invariant behind NoEventSkipped and ImplementsFifoLog.
Gapless == SentComplete /\ ProcessedComplete /\ OnTheirWay /\ NoneLost

GaplessInv ==
  /\ CalmLoop /\ ConnectionsInOrder /\ (toggles = 0 => queuedSince = 0)
  /\ queueEvents /\ dispatching = "QueueSend" => Gapless

\* Messages in a queue.
LEMMA MessageAt ==
  ASSUME NEW s \in Seq(Message), NEW i \in 1..Len(s)
  PROVE  s[i] \in Message /\ s[i].seq \in Nat /\ s[i] \in Range(s)
<1>1. s[i] \in Message
  BY ElementOfSeq
<1> QED BY <1>1, RangeSeq DEF Message

\* What is complete for some messages is so for fewer.
LEMMA CompleteSubset ==
  ASSUME NEW s, NEW D, NEW E \in SUBSET D, Complete(s, D)
  PROVE  Complete(s, E)
BY DEF Complete

\* Complete queues: one more message, ...
LEMMA CompleteAppend ==
  ASSUME NEW s \in Seq(Message), NEW m \in Message, NEW D, Complete(s, D),
         \A d \in D : d.seq < m.seq => d \in Range(s)
  PROVE  Complete(Append(s, m), D)
<1> DEFINE t == Append(s, m)
<1>1. /\ Len(t) = Len(s) + 1 /\ t[Len(s) + 1] = m /\ Len(s) \in Nat
      /\ \A i \in 1..Len(s) : t[i] = s[i]
  BY RangeAppend
<1>2. Range(s) = {s[i] : i \in 1..Len(s)}
  BY RangeSeq
<1> HIDE DEF t
<1>3. ASSUME NEW i \in 1..Len(t), NEW d \in D, d.seq < t[i].seq
      PROVE  \E j \in 1..Len(t) : j < i /\ t[j] = d
  <2>1. CASE i = Len(s) + 1
    <3>1. PICK j \in 1..Len(s) : s[j] = d
      BY <1>1, <1>2, <1>3, <2>1
    <3> QED BY <1>1, <2>1, <3>1
  <2>2. CASE i \in 1..Len(s)
    <3>1. PICK j \in 1..Len(s) : j < i /\ s[j] = d
      BY <1>1, <1>3, <2>2 DEF Complete
    <3> QED BY <1>1, <3>1
  <2> QED BY <1>1, <1>3, <2>1, <2>2
<1> QED BY <1>3 DEF Complete, t

\* ... and without the first n, if none of these is asked for.
LEMMA CompleteSuffix ==
  ASSUME NEW s \in Seq(Message), NEW t \in Seq(Message), NEW n \in 0..Len(s), NEW D,
         Complete(s, D), \A i \in 1..n : s[i] \notin D,
         Len(t) = Len(s) - n, \A i \in 1..Len(t) : t[i] = s[n + i]
  PROVE  Complete(t, D) /\ \A d \in D : d \in Range(s) => d \in Range(t)
<1>1. Len(s) \in Nat /\ Len(t) \in Nat /\ n \in Nat
  OBVIOUS
<1>2. ASSUME NEW j \in 1..Len(s), s[j] \in D
      PROVE  j - n \in 1..Len(t) /\ t[j - n] = s[j]
  <2>1. ~(j <= n)
    BY <1>1, <1>2
  <2>2. j - n \in 1..Len(t) /\ n + (j - n) = j
    BY <1>1, <2>1
  <2> QED BY <2>2
<1>3. ASSUME NEW i \in 1..Len(t), NEW d \in D, d.seq < t[i].seq
      PROVE  \E j \in 1..Len(t) : j < i /\ t[j] = d
  <2>1. n + i \in 1..Len(s) /\ d.seq < s[n + i].seq
    BY <1>1, <1>3
  <2>2. PICK j \in 1..Len(s) : j < n + i /\ s[j] = d
    BY <2>1 DEF Complete
  <2>3. j - n \in 1..Len(t) /\ t[j - n] = d
    BY <1>2, <2>2
  <2>4. j - n < i
    BY <1>1, <2>2
  <2> QED BY <2>3, <2>4
<1>4. ASSUME NEW d \in D, d \in Range(s) PROVE d \in Range(t)
  <2>1. PICK j \in 1..Len(s) : s[j] = d
    BY <1>4, RangeSeq
  <2>2. j - n \in 1..Len(t) /\ t[j - n] = d
    BY <1>2, <2>1
  <2> QED BY <2>2, RangeSeq
<1> QED BY <1>3, <1>4 DEF Complete

\* The head of a queue is the head of what comes.
LEMMA ComingTail ==
  ASSUME NEW s \in Seq(Message), NEW t \in Seq(Message), s # <<>>
  PROVE  /\ s \o t \in Seq(Message) /\ Tail(s) \o t \in Seq(Message)
         /\ 1 \in 1..Len(s \o t) /\ (s \o t)[1] = Head(s)
         /\ Len(Tail(s) \o t) = Len(s \o t) - 1
         /\ \A i \in 1..Len(Tail(s) \o t) : (Tail(s) \o t)[i] = (s \o t)[1 + i]
<1> DEFINE r == Tail(s)
<1>1. /\ r \in Seq(Message) /\ Len(r) = Len(s) - 1 /\ Head(s) = s[1]
      /\ \A i \in 1..Len(s) - 1 : r[i] = s[i + 1]
      /\ Len(s) \in Nat \ {0} /\ Len(t) \in Nat
  BY HeadTailProperties, EmptySeq
<1> HIDE DEF r
<1>2. /\ s \o t \in Seq(Message) /\ Len(s \o t) = Len(s) + Len(t)
      /\ \A i \in 1..Len(s) + Len(t) :
           (s \o t)[i] = IF i <= Len(s) THEN s[i] ELSE t[i - Len(s)]
  BY ConcatProperties
<1>3. /\ r \o t \in Seq(Message) /\ Len(r \o t) = Len(r) + Len(t)
      /\ \A i \in 1..Len(r) + Len(t) :
           (r \o t)[i] = IF i <= Len(r) THEN r[i] ELSE t[i - Len(r)]
  BY <1>1, ConcatProperties
<1>4. ASSUME NEW i \in 1..Len(r) + Len(t) PROVE (r \o t)[i] = (s \o t)[1 + i]
  <2>1. 1 + i \in 1..Len(s) + Len(t) /\ i \in Nat
    BY <1>1
  <2>2. CASE i <= Len(r)
    BY <1>1, <1>2, <1>3, <2>1, <2>2
  <2>3. CASE ~(i <= Len(r))
    <3>1. ~(1 + i <= Len(s)) /\ 1 + i - Len(s) = i - Len(r)
      BY <1>1, <2>1, <2>3
    <3> QED BY <1>2, <1>3, <2>1, <2>3, <3>1
  <2> QED BY <2>2, <2>3
<1>5. 1 \in 1..Len(s \o t) /\ (s \o t)[1] = Head(s) /\ Len(r \o t) = Len(s \o t) - 1
  BY <1>1, <1>2, <1>3
<1> QED BY <1>2, <1>3, <1>4, <1>5 DEF r

\* Sending moves messages, and making one adds it at the end.
LEMMA ComingMoves ==
  ASSUME NEW s \in Seq(Message), NEW t \in Seq(Message), NEW m \in Message
  PROVE  /\ (s \o t) \o <<>> = s \o t
         /\ s \o Append(t, m) = Append(s \o t, m)
         /\ <<>> \o t = t
<1>1. s \o t \in Seq(Message) /\ <<m>> \in Seq(Message) /\ <<>> \in Seq(Message)
  BY ConcatProperties
<1>2. Append(t, m) = t \o <<m>> /\ Append(s \o t, m) = (s \o t) \o <<m>>
  BY <1>1
<1> QED BY <1>1, <1>2, ConcatAssociative, ConcatEmptySeq

\* What the hub and the client have in common.
LEMMA SeqBounds ==
  ASSUME OrderInv
  PROVE  /\ TypeOK /\ lastEventSeq \in Nat /\ eventCounter \in Nat
         /\ lastEventSeq <= eventCounter
         /\ sentEventMessages \in Seq(Message) /\ eventMessages \in Seq(Message)
         /\ processed \in Seq(Message) /\ events \in [Conn -> Seq(Message)]
         /\ current \in Conn /\ Queue \in Seq(Message)
         /\ syncEvents \in Seq(Nat)
         /\ eventReceiver \in Conn /\ eventReceiver \in Nat /\ current \in Nat
         /\ \A m \in Message : m.seq \in Nat
<1> USE DEF OrderInv
<1>1. TypeOK /\ \A m \in Message : m.seq \in Nat
  BY DEF Message
<1>2. /\ lastEventSeq \in Nat /\ eventCounter \in Nat /\ processed \in Seq(Message)
      /\ sentEventMessages \in Seq(Message) /\ eventMessages \in Seq(Message)
      /\ events \in [Conn -> Seq(Message)] /\ current \in Conn /\ Queue \in Seq(Message)
      /\ syncEvents \in Seq(Nat) /\ eventReceiver \in Conn
  BY <1>1 DEF TypeOK, Queue
<1>3. lastEventSeq <= eventCounter
  <2>1. CASE processed = <<>>
    BY <1>2, <2>1 DEF ClientOrdered
  <2>2. CASE processed # <<>>
    <3>1. Len(processed) \in 1..Len(processed)
      BY <1>2, <2>2, EmptySeq
    <3>2. processed[Len(processed)] \in Range(processed)
      BY <1>2, <3>1, RangeSeq
    <3>3. processed[Len(processed)] \in Messages
      BY <3>2 DEF Messages
    <3> QED BY <2>2, <3>3 DEF ClientOrdered, MessagesOrdered
  <2> QED BY <2>1, <2>2
<1>4. eventReceiver \in Nat /\ current \in Nat
  BY <1>2, ConstantsAssumption DEF Conn
<1> QED BY <1>1, <1>2, <1>3, <1>4

\* The send loop under Calm.
LEMMA CalmLoopNext ==
  ASSUME OrderInv, CalmLoop, Next, Calm
  PROVE  CalmLoop'
<1>0. /\ loop \in {"idle", "clear", "dequeue"} => eventMessages = <<>>
      /\ loop # "idle" => target = eventReceiver
      /\ resendEventMessages => loop \in {"idle", "clear", "dequeue"}
      /\ \A c \in Conn : handler[c].pc = "unacknowledged" => loop = "idle"
      /\ handler \in [Conn -> [pc : {"idle", "unacknowledged", "ack"}, ack : Nat]]
  BY SeqBounds DEF CalmLoop, TypeOK
<1>1. queueEvents' => loop' # "clear"
  BY NothingCleared DEF Calm, CalmLoop
<1>2. CASE SendEvents
  <2>1. /\ eventReceiver' = eventReceiver /\ handler' = handler
        /\ loop = "idle" \/ \A c \in Conn : handler'[c].pc # "unacknowledged"
    BY <1>0, <1>2 DEF SendEvents, StartSendEvents, ClearUnsentSyncEvents, DequeueEvents,
       WriteEventMessage, StoreEventMessage, SendEventMessages, connVars, hubVars
  <2>2. CASE StartSendEvents
    <3>1. UNCHANGED <<eventMessages, resendEventMessages>>
      BY <2>2 DEF StartSendEvents, hubVars
    <3>2. /\ loop = "idle" /\ loop' \in {"idle", "clear", "dequeue"}
          /\ target' = eventReceiver
          /\ \A c \in Conn : handler[c].pc = "unacknowledged" => loop' = "idle"
      BY <2>2 DEF StartSendEvents, Calm
    <3> QED BY <1>0, <1>1, <2>1, <3>1, <3>2 DEF CalmLoop
  <2>3. CASE ClearUnsentSyncEvents
    <3>1. /\ loop = "clear" /\ loop' = "idle"
          /\ UNCHANGED <<eventMessages, resendEventMessages, target>>
      BY <2>3 DEF ClearUnsentSyncEvents
    <3> QED BY <1>0, <1>1, <2>1, <3>1 DEF CalmLoop
  <2>4. CASE DequeueEvents
    <3>1. /\ loop = "dequeue" /\ loop' \in {"write", "send", "idle"}
          /\ loop' = "idle" => eventMessages' = <<>>
          /\ target' = target /\ ~resendEventMessages'
      BY <2>4 DEF DequeueEvents
    <3> QED BY <1>0, <1>1, <2>1, <3>1 DEF CalmLoop
  <2>5. CASE WriteEventMessage \/ StoreEventMessage
    <3>1. /\ loop \in {"write", "store"} /\ loop' \in {"store", "send"}
          /\ UNCHANGED <<target, resendEventMessages>>
      BY <2>5 DEF WriteEventMessage, StoreEventMessage
    <3> QED BY <1>0, <1>1, <2>1, <3>1 DEF CalmLoop
  <2>6. CASE SendEventMessages
    <3>1. /\ loop = "send" /\ loop' = "dequeue" /\ eventMessages' = <<>>
          /\ UNCHANGED <<target, resendEventMessages>>
      BY <2>6 DEF SendEventMessages, hubVars
    <3> QED BY <1>0, <1>1, <2>1, <3>1 DEF CalmLoop
  <2> QED BY <1>2, <2>2, <2>3, <2>4, <2>5, <2>6 DEF SendEvents
<1>3. ASSUME NEW c \in Conn, UpdateTarget(c) \/ SendUnacknowledgedEvents(c)
      PROVE  CalmLoop'
  <2>1. UNCHANGED <<loop, target, eventMessages>>
    BY <1>3 DEF UpdateTarget, SendUnacknowledgedEvents, loopVars
  <2>2. eventReceiver' = eventReceiver \/ loop = "idle"
    BY <1>3 DEF Calm
  <2>3. resendEventMessages' => loop \in {"idle", "clear", "dequeue"}
    <3>1. CASE UpdateTarget(c)
      BY <1>0, <3>1 DEF UpdateTarget
    <3>2. CASE SendUnacknowledgedEvents(c)
      BY <1>0, <3>2 DEF SendUnacknowledgedEvents
    <3> QED BY <1>3, <3>1, <3>2
  <2>4. \A d \in Conn : handler'[d].pc = "unacknowledged" => loop = "idle"
    <3>1. \A d \in Conn : handler'[d].pc = "unacknowledged"
            => handler[d].pc = "unacknowledged" \/ eventReceiver' # eventReceiver
      BY <1>0, <1>3 DEF UpdateTarget, SendUnacknowledgedEvents
    <3> QED BY <1>0, <2>2, <3>1
  <2> QED BY <1>0, <1>1, <2>1, <2>2, <2>3, <2>4 DEF CalmLoop
<1>4. CASE /\ ~SendEvents
           /\ ~\E c \in Conn : UpdateTarget(c) \/ SendUnacknowledgedEvents(c)
  <2>1. /\ UNCHANGED <<loop, target, eventMessages, eventReceiver, resendEventMessages>>
        /\ \A d \in Conn : handler'[d].pc = "unacknowledged"
                             => handler[d].pc = "unacknowledged"
    <3>1. ASSUME NEW c \in Conn, AcknowledgeEventMessages(c)
          PROVE  \A d \in Conn : handler'[d].pc = "unacknowledged"
                                   => handler[d].pc = "unacknowledged"
      <4>1. handler' = [handler EXCEPT ![c].pc = "idle"]
        BY <3>1 DEF AcknowledgeEventMessages
      <4> QED BY <1>0, <4>1
    <3>2. \/ \E c \in Conn : AcknowledgeEventMessages(c)
          \/ handler' = handler
      BY <1>4 DEF Next, connVars, EnqueueSyncEvent, SetQueueEvents, ProcessSubscriber,
         Close, SyncTasks, ProcessEvents, Break
    <3>3. UNCHANGED <<loop, target, eventMessages, eventReceiver, resendEventMessages>>
      BY <1>4 DEF Next, hubVars, loopVars, EnqueueSyncEvent, SetQueueEvents,
         ProcessSubscriber, AcknowledgeEventMessages, Close, SyncTasks, ProcessEvents, Break
    <3> QED BY <3>1, <3>2, <3>3
  <2> QED BY <1>0, <1>1, <2>1 DEF CalmLoop
<1> QED BY <1>2, <1>3, <1>4

\* The connections under Calm.
LEMMA ConnectionsNext ==
  ASSUME OrderInv, OrderInv', CalmLoop, ConnectionsInOrder, Next, Calm
  PROVE  ConnectionsInOrder'
<1>0. /\ eventReceiver <= current /\ eventReceiver \in Nat /\ current \in Nat
      /\ current \in Conn /\ events \in [Conn -> Seq(Message)]
      /\ conn \in [Conn -> {"none", "open", "broken", "closed"}]
      /\ \A c \in Conn : /\ c \in Nat /\ (conn[c] # "open" => events[c] = <<>>)
                         /\ (c > current => conn[c] = "none")
      /\ conn[current] = "open" /\ (eventReceiver # current \/ Fresh) => Queue = <<>>
      /\ handler \in [Conn -> [pc : {"idle", "unacknowledged", "ack"}, ack : Nat]]
  <2>1. \A c \in Conn : c \in Nat
    BY ConstantsAssumption DEF Conn
  <2>2. /\ conn \in [Conn -> {"none", "open", "broken", "closed"}]
        /\ handler \in [Conn -> [pc : {"idle", "unacknowledged", "ack"}, ack : Nat]]
    BY SeqBounds DEF TypeOK
  <2> QED BY <2>1, <2>2, SeqBounds DEF ConnectionsInOrder
<1>1. CASE SendEventMessages
  <2>1. UNCHANGED <<conn, current, eventReceiver, resendEventMessages, handler>>
    BY <1>1 DEF SendEventMessages, hubVars
  <2>2. \A c \in Conn : conn[c] # "open" => events'[c] = <<>>
    BY <1>0, <1>1 DEF SendEventMessages
  <2>3. ~Fresh /\ ~Fresh' /\ target = eventReceiver
    BY <1>1, <2>1 DEF SendEventMessages, CalmLoop, Fresh
  <2>4. eventReceiver # current => Queue' = Queue
    BY <1>0, <1>1, <2>1, <2>3 DEF SendEventMessages, Queue
  <2> QED BY <1>0, <2>1, <2>2, <2>3, <2>4 DEF ConnectionsInOrder
<1>2. ASSUME NEW c \in Conn, UpdateTarget(c) PROVE ConnectionsInOrder'
  <2>1. /\ UNCHANGED <<conn, events, current, resendEventMessages>>
        /\ eventReceiver' \in {eventReceiver, current}
    BY <1>2 DEF UpdateTarget, Calm
  <2>2. Queue' = Queue
    BY <2>1 DEF Queue
  <2>3. CASE eventReceiver' = eventReceiver
    <3>1. \A d \in Conn : handler'[d].pc = "unacknowledged"
                            => handler[d].pc = "unacknowledged"
      BY <1>0, <1>2, <2>3 DEF UpdateTarget
    <3>2. Fresh' => Fresh
      BY <2>1, <3>1 DEF Fresh
    <3> QED BY <1>0, <2>1, <2>2, <2>3, <3>2 DEF ConnectionsInOrder
  <2>4. CASE eventReceiver' # eventReceiver
    <3>1. eventReceiver # current
      BY <2>1, <2>4
    <3> QED BY <1>0, <2>1, <2>2, <3>1 DEF ConnectionsInOrder
  <2> QED BY <2>3, <2>4
<1>3. ASSUME NEW c \in Conn, Close(c) PROVE ConnectionsInOrder'
  <2>1. /\ conn' = [conn EXCEPT ![c] = "closed"] /\ conn[c] = "broken"
        /\ UNCHANGED <<events, current, eventReceiver, Queue, Fresh>>
    BY <1>3 DEF Close, hubVars, Queue, Fresh
  <2> QED BY <1>0, <2>1 DEF ConnectionsInOrder
<1>4. CASE SyncTasks
  <2>1. UNCHANGED <<events, eventReceiver, Fresh>>
    BY <1>4 DEF SyncTasks, hubVars, Fresh
  <2>2. CASE UNCHANGED <<conn, current>>
    <3>1. Queue' = Queue
      BY <2>1, <2>2 DEF Queue
    <3> QED BY <1>0, <2>1, <2>2, <3>1 DEF ConnectionsInOrder
  <2>3. CASE current' = current + 1 /\ conn' = [conn EXCEPT ![current'] = "open"]
    <3>1. current' \in Conn
      BY DEF OrderInv, TypeOK
    <3>2. conn[current'] = "none" /\ Queue' = <<>>
      BY <1>0, <2>1, <2>3, <3>1 DEF Queue
    <3> QED BY <1>0, <2>1, <2>3, <3>2 DEF ConnectionsInOrder
  <2> QED BY <1>4, <2>2, <2>3 DEF SyncTasks, SendRequest
<1>5. CASE ProcessEvents
  <2>1. /\ events' = [events EXCEPT ![current] = Tail(@)] /\ Queue # <<>>
        /\ UNCHANGED <<conn, current, eventReceiver, Fresh>> /\ conn[current] = "open"
    BY <1>0, <1>5 DEF ProcessEvents, hubVars, Fresh, Queue
  <2>2. ~(eventReceiver # current \/ Fresh)
    BY <1>0, <2>1
  <2> QED BY <1>0, <2>1, <2>2 DEF ConnectionsInOrder
<1>6. CASE Break
  <2>1. /\ events' = [events EXCEPT ![current] = <<>>]
        /\ conn' = [conn EXCEPT ![current] = "broken"]
        /\ UNCHANGED <<current, eventReceiver, Fresh>>
    BY <1>6 DEF Break, hubVars, Fresh
  <2> QED BY <1>0, <2>1 DEF ConnectionsInOrder
<1>7. ASSUME NEW c \in Conn, SendUnacknowledgedEvents(c) PROVE ConnectionsInOrder'
  <2>1. UNCHANGED <<conn, events, current, eventReceiver, Queue>> /\ Fresh
    BY <1>7 DEF SendUnacknowledgedEvents, Queue, Fresh
  <2> QED BY <1>0, <2>1 DEF ConnectionsInOrder
<1>8. ASSUME UNCHANGED <<conn, events, current, eventReceiver>>, Fresh' => Fresh
      PROVE  ConnectionsInOrder'
  <2>1. Queue' = Queue
    BY <1>8 DEF Queue
  <2> QED BY <1>0, <1>8, <2>1 DEF ConnectionsInOrder
<1>9. ASSUME NEW c \in Conn, AcknowledgeEventMessages(c) PROVE ConnectionsInOrder'
  <2>1. /\ UNCHANGED <<conn, events, current, eventReceiver, resendEventMessages>>
        /\ handler' = [handler EXCEPT ![c].pc = "idle"]
    BY <1>9 DEF AcknowledgeEventMessages
  <2>2. Fresh' => Fresh
    BY <1>0, <2>1 DEF Fresh
  <2> QED BY <1>8, <2>1, <2>2
<1>10. CASE \/ EnqueueSyncEvent \/ \E value \in BOOLEAN : SetQueueEvents(value)
            \/ StartSendEvents \/ ClearUnsentSyncEvents \/ DequeueEvents
            \/ WriteEventMessage \/ StoreEventMessage
  <2>1. /\ UNCHANGED <<conn, events, current, eventReceiver, handler>>
        /\ resendEventMessages' => resendEventMessages
    BY <1>10 DEF hubVars, connVars, EnqueueSyncEvent, SetQueueEvents, StartSendEvents,
       ClearUnsentSyncEvents, DequeueEvents, WriteEventMessage, StoreEventMessage
  <2>2. Fresh' => Fresh
    BY <2>1 DEF Fresh
  <2> QED BY <1>8, <2>1, <2>2
<1> QED BY <1>1, <1>2, <1>3, <1>4, <1>5, <1>6, <1>7, <1>9, <1>10 DEF Next, SendEvents,
    ProcessSubscriber

\* A message is due when it is made, until the client is beyond it.
LEMMA DueNext ==
  ASSUME OrderInv, OrderInv', Next, ~\E value \in BOOLEAN : SetQueueEvents(value)
  PROVE  /\ lastEventSeq <= lastEventSeq'
         /\ ~WriteEventMessage => Due' \subseteq Due /\ Messages' \subseteq Messages
         /\ WriteEventMessage =>
              /\ Made' \in Message /\ Made'.seq = eventCounter + 1
              /\ eventMessages' = Append(eventMessages, Made')
              /\ Messages' = Messages \cup {Made'}
              /\ Due' \subseteq Due \cup {Made'}
<1>0. /\ lastEventSeq \in Nat /\ eventCounter \in Nat /\ lastEventSeq' \in Nat
      /\ eventMessages \in Seq(Message) /\ Messages \subseteq Message
      /\ \A m \in Message : m.seq \in Nat
      /\ TypeOK /\ LoopShape /\ [Next]_vars /\ queuedSince' = queuedSince
  BY SeqBounds, MessagesType, QueueEventsKept DEF OrderInv, TypeOK
<1>1. lastEventSeq <= lastEventSeq'
  <2>1. CASE ProcessEvents
    <3> DEFINE message == Head(events[current])
    <3>1. message \in Message /\ message.seq \in Nat
      <4>1. events[current] # <<>> /\ events[current] \in Seq(Message)
        BY <2>1 DEF ProcessEvents, OrderInv, TypeOK
      <4> QED BY <1>0, <4>1, RangeTail
    <3> QED BY <1>0, <2>1, <3>1 DEF ProcessEvents, IsNew
  <2>2. CASE ~ProcessEvents
    <3>1. lastEventSeq' = lastEventSeq
      BY <2>2 DEF Next, clientVars, EnqueueSyncEvent, SetQueueEvents, SendEvents,
         StartSendEvents, ClearUnsentSyncEvents, DequeueEvents, WriteEventMessage,
         StoreEventMessage, SendEventMessages, ProcessSubscriber, UpdateTarget,
         SendUnacknowledgedEvents, AcknowledgeEventMessages, Close, SyncTasks, Break
    <3> QED BY <1>0, <3>1
  <2> QED BY <2>1, <2>2
<1>2. ASSUME NEW m \in Messages, m \in Due' PROVE m \in Due
  <2>1. m.seq > lastEventSeq' /\ m.seq \in Nat /\ Matters(m)
    BY <1>0, <1>2 DEF Due, Matters
  <2>2. m.seq > lastEventSeq
    BY <1>0, <1>1, <2>1
  <2> QED BY <2>1, <2>2 DEF Due
<1>3. Due' \subseteq Messages'
  BY DEF Due
<1>4. ~WriteEventMessage => Messages' \subseteq Messages
  BY <1>0, MessagesNext
<1>5. ASSUME WriteEventMessage
      PROVE  /\ Made' \in Message /\ Made'.seq = eventCounter + 1
             /\ eventMessages' = Append(eventMessages, Made')
             /\ Messages' = Messages \cup {Made'}
  <2> DEFINE new == [seq |-> eventCounter', events |-> syncEvents]
  <2>1. /\ eventMessages' = Append(eventMessages, new) /\ eventCounter' = eventCounter + 1
        /\ UNCHANGED <<sentEventMessages, processed, events>>
    BY <1>5 DEF WriteEventMessage, connVars, clientVars
  <2>2. new \in Message /\ new.seq = eventCounter + 1
    <3>1. syncEvents \in Seq(Nat) /\ eventCounter' \in Nat
      BY DEF OrderInv, TypeOK
    <3> QED BY <2>1, <3>1 DEF Message
  <2> HIDE DEF new
  <2>3. Made' = new /\ Range(eventMessages') = Range(eventMessages) \cup {new}
    BY <1>0, <2>1, <2>2, RangeAppend DEF Made
  <2>4. Messages' = Messages \cup {new}
    BY <2>1, <2>3 DEF Messages
  <2> QED BY <2>1, <2>2, <2>3, <2>4
<1> QED BY <1>1, <1>2, <1>3, <1>4, <1>5

\* The hub keeps what is due.
LEMMA SentCompleteNext ==
  ASSUME OrderInv, OrderInv', CalmLoop, SentComplete, Next, queueEvents,
         ~\E value \in BOOLEAN : SetQueueEvents(value)
  PROVE  SentComplete'
<1>0. /\ Complete(sentEventMessages, Due)
      /\ \A m \in Due : m \in Range(sentEventMessages) \/ (loop = "store" /\ m = Made)
      /\ sentEventMessages \in Seq(Message) /\ eventMessages \in Seq(Message)
      /\ Due \subseteq Messages /\ eventCounter \in Nat /\ Messages \subseteq Message
      /\ \A m \in Message : m.seq \in Nat
  BY SeqBounds, MessagesType DEF SentComplete, Due
<1>1. CASE WriteEventMessage
  <2>1. /\ sentEventMessages' = sentEventMessages /\ loop = "write" /\ loop' = "store"
    BY <1>1 DEF WriteEventMessage
  <2>2. Made'.seq = eventCounter + 1 /\ Due' \subseteq Due \cup {Made'}
    BY <1>1, DueNext
  <2>3. \A i \in 1..Len(sentEventMessages) : ~(Made'.seq < sentEventMessages[i].seq)
    <3> SUFFICES ASSUME NEW i \in 1..Len(sentEventMessages)
                 PROVE  ~(Made'.seq < sentEventMessages[i].seq)
      OBVIOUS
    <3>1. sentEventMessages[i] \in Messages
      BY <1>0, MessageAt DEF Messages
    <3>2. sentEventMessages[i].seq <= eventCounter /\ sentEventMessages[i].seq \in Nat
      BY <1>0, <3>1 DEF OrderInv, MessagesOrdered
    <3> QED BY <1>0, <2>2, <3>2
  <2>4. Complete(sentEventMessages, Due')
    BY <1>0, <2>2, <2>3 DEF Complete
  <2>5. Complete(sentEventMessages', Due')
    BY <2>1, <2>4 DEF Complete
  <2>6. \A m \in Due' : m \in Range(sentEventMessages') \/ m = Made'
    BY <1>0, <2>1, <2>2
  <2> QED BY <2>1, <2>5, <2>6 DEF SentComplete
<1>2. CASE ~WriteEventMessage
  <2>0. Due' \subseteq Due
    BY <1>2, DueNext
  <2>1. CASE StoreEventMessage
    <3>1. sentEventMessages' = Append(sentEventMessages, Made) /\ loop = "store"
      BY <2>1 DEF StoreEventMessage, Made
    <3>2. Made \in Message
      BY <1>0, <3>1, EmptySeq, ElementOfSeq DEF OrderInv, LoopShape, Made
    <3>3. \A d \in Due : d.seq < Made.seq => d \in Range(sentEventMessages)
      <4>1. Made.seq \in Nat
        BY <1>0, <3>2
      <4> QED BY <1>0, <4>1
    <3>4. Complete(Append(sentEventMessages, Made), Due)
      BY <1>0, <3>2, <3>3, CompleteAppend
    <3>5. Range(sentEventMessages') = Range(sentEventMessages) \cup {Made}
      BY <1>0, <3>1, <3>2, RangeAppend
    <3>6. Complete(sentEventMessages', Due')
      BY <2>0, <3>1, <3>4, CompleteSubset
    <3>7. \A m \in Due' : m \in Range(sentEventMessages')
      BY <1>0, <2>0, <3>5
    <3> QED BY <3>6, <3>7 DEF SentComplete
  <2>2. ASSUME NEW c \in Conn, AcknowledgeEventMessages(c) PROVE SentComplete'
    <3>1. PICK n \in 0..Len(sentEventMessages) :
            /\ \A i \in 1..n : IsAcknowledged(sentEventMessages[i], handler[c].ack)
            /\ sentEventMessages' = SubSeq(sentEventMessages, n + 1, Len(sentEventMessages))
      BY <2>2 DEF AcknowledgeEventMessages
    <3>2. UNCHANGED <<loop, Made, lastEventSeq>>
      BY <2>2 DEF AcknowledgeEventMessages, loopVars, clientVars, Made
    <3>3. ASSUME NEW i \in 1..n PROVE sentEventMessages[i] \notin Due
      <4>1. i \in 1..Len(sentEventMessages)
        BY <1>0
      <4>2. sentEventMessages[i].seq <= handler[c].ack /\ handler[c].ack <= lastEventSeq
        BY <3>1 DEF IsAcknowledged, OrderInv, ClientOrdered
      <4>3. /\ sentEventMessages[i].seq \in Nat /\ handler[c].ack \in Nat
            /\ lastEventSeq \in Nat
        BY <1>0, <4>1, MessageAt, SeqBounds DEF TypeOK
      <4> QED BY <4>2, <4>3 DEF Due
    <3> DEFINE t == SubSeq(sentEventMessages, n + 1, Len(sentEventMessages))
    <3>4. /\ t \in Seq(Message) /\ Len(t) = Len(sentEventMessages) - n
          /\ \A i \in 1..Len(t) : t[i] = sentEventMessages[n + i]
      <4>1. /\ Len(sentEventMessages) \in Nat /\ n \in Nat /\ n <= Len(sentEventMessages)
            /\ \A i \in n + 1 .. Len(sentEventMessages) : sentEventMessages[i] \in Message
        BY <1>0
      <4>2. /\ t \in Seq(Message)
            /\ Len(t) = IF n + 1 <= Len(sentEventMessages)
                          THEN Len(sentEventMessages) - (n + 1) + 1 ELSE 0
            /\ \A i \in 1 .. Len(sentEventMessages) - (n + 1) + 1 :
                 t[i] = sentEventMessages[n + 1 + i - 1]
        BY <4>1, SubSeqProperties
      <4> HIDE DEF t
      <4> QED BY <4>1, <4>2
    <3> HIDE DEF t
    <3>5. Complete(t, Due) /\ \A d \in Due : d \in Range(sentEventMessages) => d \in Range(t)
      BY <1>0, <3>3, <3>4, CompleteSuffix
    <3>6. sentEventMessages' = t
      BY <3>1 DEF t
    <3>7. Complete(sentEventMessages', Due')
      BY <2>0, <3>5, <3>6, CompleteSubset
    <3> QED BY <1>0, <2>0, <3>2, <3>5, <3>6, <3>7 DEF SentComplete
  <2>3. CASE ~StoreEventMessage /\ ~\E c \in Conn : AcknowledgeEventMessages(c)
    <3>1. /\ sentEventMessages' = sentEventMessages
          /\ loop = "store" => loop' = "store" /\ Made' = Made
      BY <1>2, <2>3 DEF Next, hubVars, loopVars, EnqueueSyncEvent, SetQueueEvents,
         SendEvents, StartSendEvents, ClearUnsentSyncEvents, DequeueEvents,
         WriteEventMessage, SendEventMessages, ProcessSubscriber, UpdateTarget,
         SendUnacknowledgedEvents, Close, SyncTasks, ProcessEvents, Break, Made
    <3>2. Complete(sentEventMessages', Due')
      BY <1>0, <2>0, <3>1, CompleteSubset
    <3>3. \A m \in Due' : m \in Range(sentEventMessages')
                             \/ (loop' = "store" /\ m = Made')
      BY <1>0, <2>0, <3>1
    <3> QED BY <3>2, <3>3 DEF SentComplete
  <2> QED BY <2>1, <2>2, <2>3
<1> QED BY <1>1, <1>2

\* What the client processed it does not forget.
LEMMA ProcessedKept ==
  ASSUME TypeOK, [Next]_vars
  PROVE  /\ Range(processed) \subseteq Range(processed')
         /\ \A e : Processed(e) => Processed(e)'
<1>0. processed \in Seq(Message) /\ Len(processed) \in Nat
  BY DEF TypeOK
<1>1. CASE processed' = processed
  BY <1>1 DEF Processed
<1>2. CASE processed' # processed
  <2> DEFINE message == Head(events[current])
  <2>1. ProcessEvents /\ processed' = Append(processed, message)
    BY <1>2 DEF Next, vars, clientVars, EnqueueSyncEvent, SetQueueEvents, SendEvents,
       StartSendEvents, ClearUnsentSyncEvents, DequeueEvents, WriteEventMessage,
       StoreEventMessage, SendEventMessages, ProcessSubscriber, UpdateTarget,
       SendUnacknowledgedEvents, AcknowledgeEventMessages, Close, SyncTasks,
       ProcessEvents, Break
  <2>2. message \in Message
    <3>1. events[current] \in Seq(Message) /\ events[current] # <<>>
      BY <2>1 DEF ProcessEvents, TypeOK
    <3> QED BY <3>1, RangeTail
  <2> HIDE DEF message
  <2>3. /\ Len(processed') = Len(processed) + 1
        /\ \A i \in 1..Len(processed) : processed'[i] = processed[i]
        /\ Range(processed') = Range(processed) \cup {message}
    BY <1>0, <2>1, <2>2, RangeAppend
  <2> QED BY <1>0, <2>3 DEF Processed
<1> QED BY <1>1, <1>2

\* Messages are identified by their numbers.
LEMMA SameSeq ==
  ASSUME OrderInv, NEW m \in Messages, NEW n \in Messages, m.seq = n.seq
  PROVE  m = n
BY DEF OrderInv, MessagesOrdered

\* The message the client processes next.
LEMMA NextMessage ==
  ASSUME OrderInv, ConnectionsInOrder, ProcessEvents
  PROVE  /\ Queue # <<>> /\ Head(Queue) \in Message /\ Head(Queue) \in Messages
         /\ Queue \in Seq(Message) /\ Queue' = Tail(Queue)
         /\ conn[current] = "open" /\ eventReceiver = current /\ ~Fresh
<1>1. Queue # <<>> /\ Queue \in Seq(Message) /\ current \in Conn
      /\ events \in [Conn -> Seq(Message)]
  BY SeqBounds DEF ProcessEvents, Queue
<1>2. conn[current] = "open" /\ eventReceiver = current /\ ~Fresh
  BY <1>1 DEF ConnectionsInOrder, Queue
<1>3. Head(Queue) \in Message /\ Head(Queue) \in Range(Queue)
  BY <1>1, RangeTail
<1>4. Head(Queue) \in Messages
  BY <1>1, <1>3 DEF Messages, Queue
<1>5. Queue' = Tail(Queue)
  BY <1>1 DEF ProcessEvents, Queue
<1> QED BY <1>1, <1>2, <1>3, <1>4, <1>5

\* The client gets beyond no due message without processing it.
LEMMA ProcessedCompleteNext ==
  ASSUME OrderInv, OrderInv', ConnectionsInOrder, ProcessedComplete, OnTheirWay, Next,
         ~\E value \in BOOLEAN : SetQueueEvents(value)
  PROVE  ProcessedComplete'
<1> SUFFICES ASSUME NEW m \in Messages', m.seq <= lastEventSeq', Matters(m)'
             PROVE  m \in Range(processed')
  BY DEF ProcessedComplete
<1>0. /\ lastEventSeq \in Nat /\ lastEventSeq <= eventCounter /\ eventCounter \in Nat
      /\ Messages \subseteq Message /\ \A n \in Message : n.seq \in Nat
      /\ TypeOK /\ [Next]_vars
  BY SeqBounds, MessagesType DEF OrderInv
<1>1. Matters(m)
  <2>1. queuedSince' = queuedSince
    BY QueueEventsKept
  <2> QED BY <2>1 DEF Matters
<1>2. Range(processed) \subseteq Range(processed')
  BY <1>0, ProcessedKept
<1>3. CASE m \in Messages /\ m.seq <= lastEventSeq
  BY <1>1, <1>2, <1>3 DEF ProcessedComplete
<1>4. CASE WriteEventMessage /\ m \notin Messages
  <2>1. m.seq = eventCounter + 1 /\ lastEventSeq' = lastEventSeq
    BY <1>4, DueNext DEF WriteEventMessage, clientVars
  <2> QED BY <1>0, <2>1
<1>5. CASE m \in Messages /\ ~(m.seq <= lastEventSeq)
  <2>1. lastEventSeq' # lastEventSeq
    BY <1>5
  <2>2. ProcessEvents
    BY <2>1 DEF Next, clientVars, EnqueueSyncEvent, SetQueueEvents, SendEvents,
       StartSendEvents, ClearUnsentSyncEvents, DequeueEvents, WriteEventMessage,
       StoreEventMessage, SendEventMessages, ProcessSubscriber, UpdateTarget,
       SendUnacknowledgedEvents, AcknowledgeEventMessages, Close, SyncTasks, Break
  <2> DEFINE message == Head(Queue)
  <2>3. /\ Queue # <<>> /\ message \in Message /\ message \in Messages
        /\ Queue \in Seq(Message)
        /\ conn[current] = "open" /\ eventReceiver = current /\ ~Fresh
    BY <2>2, NextMessage
  <2>4. lastEventSeq' = message.seq /\ processed' = Append(processed, message)
    BY <2>1, <2>2 DEF ProcessEvents, Queue
  <2>5. 1 \in 1..Len(Coming) /\ Coming[1] = message
    BY <2>3, ComingTail, SeqBounds DEF Coming
  <2> HIDE DEF message
  <2>6. m.seq \in Nat /\ message.seq \in Nat /\ m.seq <= message.seq
    BY <1>0, <1>5, <2>3, <2>4
  <2>7. m \in Due
    BY <1>0, <1>1, <1>5, <2>6 DEF Due
  <2>8. ~(m.seq < message.seq)
    <3>1. ASSUME m.seq < message.seq PROVE FALSE
      <4>1. PICK j \in 1..Len(Coming) : j < 1 /\ Coming[j] = m
        BY <2>3, <2>5, <2>7, <3>1 DEF OnTheirWay, Complete
      <4> QED BY <4>1
    <3> QED BY <3>1
  <2>9. m = message
    BY <1>5, <2>3, <2>6, <2>8, SameSeq
  <2>10. Range(processed') = Range(processed) \cup {message}
    BY <2>3, <2>4, SeqBounds, RangeAppend
  <2> QED BY <2>9, <2>10
<1>6. m \in Messages \/ WriteEventMessage
  BY DueNext
<1> QED BY <1>3, <1>4, <1>5, <1>6

\* A step after which the same messages come, and no others are due.
LEMMA ComingKept ==
  ASSUME OnTheirWay, Due' \subseteq Due, Coming' = Coming,
         (conn[current] = "open" /\ eventReceiver = current /\ ~Fresh)'
           => conn[current] = "open" /\ eventReceiver = current /\ ~Fresh
  PROVE  OnTheirWay'
<1> SUFFICES ASSUME (conn[current] = "open" /\ eventReceiver = current /\ ~Fresh)'
             PROVE  Complete(Coming', Due') /\ Due' \subseteq Range(Coming')
  BY DEF OnTheirWay
<1>1. Complete(Coming, Due) /\ Due \subseteq Range(Coming)
  BY DEF OnTheirWay
<1>2. Complete(Coming, Due')
  BY <1>1, CompleteSubset
<1>3. Complete(Coming', Due')
  BY <1>2 DEF Complete
<1> QED BY <1>1, <1>3

\* The steps of the send loop.
LEMMA OnTheirWaySendEvents ==
  ASSUME OrderInv, OrderInv', CalmLoop, ConnectionsInOrder, SentComplete, OnTheirWay,
         SendEvents
  PROVE  OnTheirWay'
<1>0. /\ Next /\ ~\E value \in BOOLEAN : SetQueueEvents(value)
      /\ UNCHANGED <<conn, current, eventReceiver, handler>>
      /\ Queue \in Seq(Message) /\ eventMessages \in Seq(Message)
      /\ sentEventMessages \in Seq(Message)
  <2>1. ASSUME NEW value \in BOOLEAN, SetQueueEvents(value) PROVE FALSE
    <3>1. queueEvents' # queueEvents
      BY <2>1 DEF SetQueueEvents
    <3> QED BY <3>1 DEF SendEvents, StartSendEvents, ClearUnsentSyncEvents, DequeueEvents,
         WriteEventMessage, StoreEventMessage, SendEventMessages, hubVars
  <2>2. UNCHANGED <<conn, current, eventReceiver, handler>>
    BY DEF SendEvents, StartSendEvents, ClearUnsentSyncEvents, DequeueEvents,
       WriteEventMessage, StoreEventMessage, SendEventMessages, hubVars, connVars
  <2> QED BY <2>1, <2>2, SeqBounds DEF Next
<1>1. CASE StartSendEvents \/ ClearUnsentSyncEvents \/ StoreEventMessage
  <2>1. UNCHANGED <<events, eventMessages, resendEventMessages>> /\ ~WriteEventMessage
    BY <1>1 DEF StartSendEvents, ClearUnsentSyncEvents, StoreEventMessage, hubVars, connVars,
       WriteEventMessage
  <2>2. Fresh' = Fresh /\ Coming' = Coming /\ Due' \subseteq Due
    BY <1>0, <2>1, DueNext DEF Fresh, Coming, Queue
  <2> QED BY <1>0, <2>2, ComingKept
<1>2. CASE DequeueEvents
  <2>1. /\ loop = "dequeue" /\ eventMessages' = EventMessagesToResend
        /\ events' = events /\ ~resendEventMessages' /\ ~WriteEventMessage
    BY <1>2 DEF DequeueEvents, connVars, WriteEventMessage
  <2>2. Due' \subseteq Due /\ Queue' = Queue
    BY <1>0, <2>1, DueNext DEF Queue
  <2>3. CASE ~resendEventMessages
    <3>1. Fresh' = Fresh
      BY <1>0, <2>1, <2>3 DEF Fresh
    <3>2. eventMessages = <<>> /\ eventMessages' = <<>>
      BY <2>1, <2>3 DEF CalmLoop, EventMessagesToResend
    <3>3. Coming' = Coming
      BY <2>2, <3>2 DEF Coming
    <3> QED BY <1>0, <2>2, <3>1, <3>3, ComingKept
  <2>4. CASE resendEventMessages
    <3> SUFFICES ASSUME (conn[current] = "open" /\ eventReceiver = current /\ ~Fresh)'
                 PROVE  Complete(Coming', Due') /\ Due' \subseteq Range(Coming')
      BY DEF OnTheirWay
    <3>1. Queue = <<>> /\ eventMessages' = sentEventMessages
      BY <1>0, <2>1, <2>4 DEF ConnectionsInOrder, Fresh, EventMessagesToResend
    <3>2. Coming' = sentEventMessages
      <4>1. <<>> \o sentEventMessages = sentEventMessages
        BY <1>0, ConcatEmptySeq
      <4> QED BY <2>2, <3>1, <4>1 DEF Coming
    <3>3. Complete(sentEventMessages, Due) /\ Due \subseteq Range(sentEventMessages)
      BY <2>1 DEF SentComplete
    <3>4. Complete(sentEventMessages, Due')
      BY <2>2, <3>3, CompleteSubset
    <3>5. Complete(Coming', Due')
      BY <3>2, <3>4 DEF Complete
    <3> QED BY <2>2, <3>2, <3>3, <3>5
  <2> QED BY <2>3, <2>4
<1>3. CASE WriteEventMessage
  <2>1. /\ UNCHANGED <<events, resendEventMessages>>
    BY <1>3 DEF WriteEventMessage, connVars
  <2>2. /\ Made' \in Message /\ Made'.seq = eventCounter + 1
        /\ eventMessages' = Append(eventMessages, Made') /\ Due' \subseteq Due \cup {Made'}
    BY <1>0, <1>3, DueNext
  <2>3. Fresh' = Fresh /\ Queue' = Queue
    BY <1>0, <2>1 DEF Fresh, Queue
  <2> SUFFICES ASSUME conn[current] = "open", eventReceiver = current, ~Fresh
               PROVE  Complete(Coming', Due') /\ Due' \subseteq Range(Coming')
    BY <1>0, <2>3 DEF OnTheirWay
  <2>4. Complete(Coming, Due) /\ Due \subseteq Range(Coming)
    BY DEF OnTheirWay
  <2>5. Coming \in Seq(Message) /\ Coming' = Append(Coming, Made')
    <3>1. Queue \o Append(eventMessages, Made') = Append(Queue \o eventMessages, Made')
      BY <1>0, <2>2, ComingMoves
    <3>2. Queue \o eventMessages \in Seq(Message)
      BY <1>0, ConcatProperties
    <3> QED BY <2>2, <2>3, <3>1, <3>2 DEF Coming
  <2>6. \A i \in 1..Len(Coming) : Coming[i] \in Messages
    <3>1. Range(Coming) = Range(Queue) \cup Range(eventMessages)
      BY <1>0, RangeConcat DEF Coming
    <3>2. Range(Coming) \subseteq Messages
      BY <3>1, SeqBounds DEF Messages, Queue
    <3> QED BY <2>5, <3>2, MessageAt
  <2>7. Complete(Coming, Due')
    <3>1. ASSUME NEW i \in 1..Len(Coming) PROVE ~(Made'.seq < Coming[i].seq)
      <4>1. Coming[i].seq <= eventCounter
        BY <2>6 DEF OrderInv, MessagesOrdered
      <4>2. Coming[i].seq \in Nat /\ eventCounter \in Nat
        BY <2>5, MessageAt, SeqBounds
      <4> QED BY <2>2, <4>1, <4>2
    <3> QED BY <2>2, <2>4, <3>1 DEF Complete
  <2>8. \A d \in Due' : d.seq < Made'.seq => d \in Range(Coming)
    <3>1. Made'.seq \in Nat
      BY <2>2, SeqBounds
    <3> QED BY <2>2, <2>4, <3>1
  <2>9. Complete(Append(Coming, Made'), Due')
    BY <2>2, <2>5, <2>7, <2>8, CompleteAppend
  <2>10. Range(Append(Coming, Made')) = Range(Coming) \cup {Made'}
    BY <2>2, <2>5, RangeAppend
  <2>11. Complete(Coming', Due')
    BY <2>5, <2>9 DEF Complete
  <2> QED BY <2>2, <2>4, <2>5, <2>10, <2>11
<1>4. CASE SendEventMessages
  <2>1. /\ loop = "send" /\ eventMessages' = <<>>
        /\ events' = IF conn[target] = "open"
                       THEN [events EXCEPT ![target] = @ \o eventMessages] ELSE events
        /\ UNCHANGED resendEventMessages /\ ~WriteEventMessage /\ target = eventReceiver
    BY <1>4 DEF SendEventMessages, hubVars, CalmLoop, WriteEventMessage
  <2>2. Fresh' = Fresh /\ Due' \subseteq Due
    BY <1>0, <2>1, DueNext DEF Fresh
  <2>3. CASE conn[current] = "open" /\ eventReceiver = current
    <3>1. Queue' = Queue \o eventMessages
      BY <1>0, <2>1, <2>3, SeqBounds DEF Queue
    <3>2. Queue \o eventMessages \in Seq(Message)
      BY <1>0, ConcatProperties
    <3>3. (Queue \o eventMessages) \o <<>> = Queue \o eventMessages
      BY <3>2, ConcatEmptySeq
    <3>4. Coming' = Coming
      BY <2>1, <3>1, <3>3 DEF Coming
    <3> QED BY <1>0, <2>2, <3>4, ComingKept
  <2>4. CASE ~(conn[current] = "open" /\ eventReceiver = current)
    BY <1>0, <2>4 DEF OnTheirWay
  <2> QED BY <2>3, <2>4
<1> QED BY <1>1, <1>2, <1>3, <1>4 DEF SendEvents

\* The steps of requests, client and network.
LEMMA OnTheirWayOthers ==
  ASSUME OrderInv, OrderInv', CalmLoop, ConnectionsInOrder, SentComplete, OnTheirWay,
         Next, ~SendEvents, dispatching = "QueueSend",
         ~\E value \in BOOLEAN : SetQueueEvents(value)
  PROVE  OnTheirWay'
<1>0. /\ handler \in [Conn -> [pc : {"idle", "unacknowledged", "ack"}, ack : Nat]]
      /\ conn \in [Conn -> {"none", "open", "broken", "closed"}]
      /\ current \in Conn /\ current \in Nat /\ eventReceiver \in Nat
      /\ eventReceiver <= current
      /\ Queue \in Seq(Message) /\ eventMessages \in Seq(Message)
      /\ Due' \subseteq Due /\ lastEventSeq \in Nat
  BY SeqBounds, DueNext DEF TypeOK, ConnectionsInOrder, SendEvents
<1>1. ASSUME NEW c \in Conn, UpdateTarget(c) PROVE OnTheirWay'
  <2>1. UNCHANGED <<conn, current, eventMessages, resendEventMessages, Queue>>
    BY <1>1 DEF UpdateTarget, loopVars, Queue
  <2>2. CASE eventReceiver = c
    <3>1. eventReceiver' = eventReceiver
          /\ \A d \in Conn : handler'[d].pc = "unacknowledged"
                               <=> handler[d].pc = "unacknowledged"
      BY <1>0, <1>1, <2>2 DEF UpdateTarget
    <3>2. Fresh' = Fresh /\ Coming' = Coming
      BY <2>1, <3>1 DEF Fresh, Coming
    <3> QED BY <1>0, <2>1, <3>1, <3>2, ComingKept
  <2>3. CASE eventReceiver # c
    <3>1. handler'[c].pc = "unacknowledged"
      BY <1>0, <1>1, <2>3 DEF UpdateTarget
    <3>2. Fresh'
      BY <3>1 DEF Fresh
    <3> QED BY <3>2 DEF OnTheirWay
  <2> QED BY <2>2, <2>3
<1>2. ASSUME NEW c \in Conn, SendUnacknowledgedEvents(c) PROVE OnTheirWay'
  <2>1. handler[c].pc = "unacknowledged" /\ UNCHANGED sentEventMessages
    BY <1>2 DEF SendUnacknowledgedEvents
  <2>2. CASE MustResend
    <3>1. Fresh'
      BY <1>2, <2>2 DEF SendUnacknowledgedEvents, Fresh
    <3> QED BY <3>1 DEF OnTheirWay
  <2>3. CASE ~MustResend
    <3>1. sentEventMessages = <<>> /\ loop = "idle"
      BY <2>1, <2>3 DEF MustResend, CalmLoop
    <3>2. Due = {}
      BY <3>1, RangeEmpty DEF SentComplete
    <3>3. Due' = {}
      BY <1>0, <3>2
    <3> QED BY <3>3 DEF OnTheirWay, Complete
  <2> QED BY <2>2, <2>3
<1>3. ASSUME NEW c \in Conn, AcknowledgeEventMessages(c) PROVE OnTheirWay'
  <2>1. /\ UNCHANGED <<conn, current, eventReceiver, eventMessages, Queue,
                       resendEventMessages>>
        /\ \A d \in Conn : handler'[d].pc = "unacknowledged"
                             <=> handler[d].pc = "unacknowledged"
    BY <1>0, <1>3 DEF AcknowledgeEventMessages, loopVars, Queue
  <2>2. Fresh' = Fresh /\ Coming' = Coming
    BY <2>1 DEF Fresh, Coming
  <2> QED BY <1>0, <2>1, <2>2, ComingKept
<1>4. ASSUME /\ UNCHANGED <<current, eventReceiver, eventMessages, events,
                            resendEventMessages, handler>>
             /\ (conn[current] = "open")' => conn[current] = "open"
      PROVE  OnTheirWay'
  <2>1. Fresh' = Fresh /\ Coming' = Coming
    BY <1>4 DEF Fresh, Coming, Queue
  <2> QED BY <1>0, <1>4, <2>1, ComingKept
<1>5. ASSUME EnqueueSyncEvent \/ \E c \in Conn : Close(c) PROVE OnTheirWay'
  BY <1>0, <1>4, <1>5 DEF EnqueueSyncEvent, Close, hubVars, loopVars, connVars
<1>6. CASE SyncTasks
  <2>1. UNCHANGED <<eventReceiver, eventMessages, events, resendEventMessages, handler>>
    BY <1>6 DEF SyncTasks, hubVars, loopVars
  <2>2. CASE UNCHANGED <<conn, current>>
    BY <1>4, <2>1, <2>2
  <2>3. CASE current' = current + 1
    BY <1>0, <2>1, <2>3 DEF OnTheirWay
  <2> QED BY <1>6, <2>2, <2>3 DEF SyncTasks, SendRequest
<1>7. CASE ProcessEvents
  <2> DEFINE message == Head(Queue)
  <2>1. /\ Queue # <<>> /\ message \in Message /\ Queue' = Tail(Queue)
        /\ conn[current] = "open" /\ eventReceiver = current /\ ~Fresh
    BY <1>7, NextMessage
  <2>2. eventMessages' = eventMessages
        /\ lastEventSeq' = IF IsNew(message) THEN message.seq ELSE lastEventSeq
    BY <1>7 DEF ProcessEvents, loopVars, Queue
  <2>3. message \notin Due'
    <3>1. message.seq \in Nat
      BY <2>1 DEF Message
    <3> HIDE DEF message
    <3> QED BY <1>0, <2>2, <3>1 DEF IsNew, Due
  <2>4. Complete(Coming, Due) /\ Due \subseteq Range(Coming)
    BY <2>1 DEF OnTheirWay
  <2> DEFINE t == Tail(Queue) \o eventMessages
  <2>5. /\ Coming \in Seq(Message) /\ t \in Seq(Message)
        /\ 1 \in 1..Len(Coming) /\ Coming[1] = message
        /\ Len(t) = Len(Coming) - 1 /\ \A i \in 1..Len(t) : t[i] = Coming[1 + i]
    BY <1>0, <2>1, ComingTail DEF Coming
  <2>6. Coming' = t
    BY <2>1, <2>2 DEF Coming
  <2> HIDE DEF t, message
  <2>7. Complete(Coming, Due')
    BY <1>0, <2>4, CompleteSubset
  <2>8. 1 \in 0..Len(Coming) /\ \A i \in 1..1 : Coming[i] \notin Due'
    BY <2>3, <2>5
  <2>9. Complete(t, Due') /\ \A d \in Due' : d \in Range(Coming) => d \in Range(t)
    BY <2>5, <2>7, <2>8, CompleteSuffix
  <2>10. Complete(Coming', Due')
    BY <2>6, <2>9 DEF Complete
  <2> QED BY <1>0, <2>4, <2>6, <2>9, <2>10 DEF OnTheirWay
<1>8. CASE Break
  <2>1. conn'[current'] # "open"
    BY <1>0, <1>8 DEF Break
  <2> QED BY <2>1 DEF OnTheirWay
<1> QED BY <1>1, <1>2, <1>3, <1>5, <1>6, <1>7, <1>8 DEF Next, ProcessSubscriber

\* What the client acknowledged it processed; the rest the hub has.
LEMMA NoneLostNext ==
  ASSUME OrderInv, OrderInv', CalmLoop, ProcessedComplete, NoneLost, Next, queueEvents,
         ~\E value \in BOOLEAN : SetQueueEvents(value)
  PROVE  NoneLost'
<1> SUFFICES ASSUME NEW e \in queuedSince' + 1 .. published'
             PROVE  Held(e)' \/ Processed(e)'
  BY DEF NoneLost
<1>1. TypeOK /\ [Next]_vars /\ queuedSince' = queuedSince /\ loop # "clear"
  BY QueueEventsKept DEF OrderInv, CalmLoop
<1>2. /\ e \in Nat /\ e > queuedSince /\ e \in 1..published'
      /\ e \in 1..published => e \in queuedSince + 1 .. published
  <2>1. /\ queuedSince \in Nat /\ published \in Nat /\ published' \in Nat
        /\ queuedSince' = queuedSince
    BY <1>1 DEF OrderInv, TypeOK
  <2>2. e \in queuedSince + 1 .. published'
    BY <2>1
  <2> QED BY <2>1, <2>2
<1>3. CASE Processed(e)
  BY <1>1, <1>3, ProcessedKept
<1>4. ASSUME NEW m \in Messages, m.seq <= lastEventSeq, e \in Range(m.events)
      PROVE  Processed(e)'
  <2>1. m \in Range(processed)
    BY <1>2, <1>4 DEF ProcessedComplete, Matters
  <2>2. PICK i \in 1..Len(processed) : processed[i] = m
    BY <2>1, SeqBounds, RangeSeq
  <2>3. Processed(e)
    BY <1>4, <2>2 DEF Processed
  <2> QED BY <1>1, <2>3, ProcessedKept
<1>5. CASE ~Processed(e)
  <2>1. e \in 1..published => Held(e)
    BY <1>2, <1>5 DEF NoneLost
  <2> QED BY <1>1, <1>2, <1>4, <2>1, HeldNext
<1> QED BY <1>3, <1>5

\* When a client asks to queue its events, none has been published since.
LEMMA GaplessFromNow ==
  ASSUME OrderInv', queuedSince' = published', NEW value \in BOOLEAN, SetQueueEvents(value)
  PROVE  Gapless'
<1>1. Messages' \subseteq Message /\ \A m \in Message : Range(m.events) \subseteq Nat
      /\ published' \in Nat /\ TypeOK'
  <2>1. TypeOK' /\ published' \in Nat
    BY DEF OrderInv, TypeOK
  <2>2. (TypeOK => /\ Messages \subseteq Message /\ Pending \subseteq Nat
                   /\ \A m \in Message : m.seq \in Nat /\ Range(m.events) \subseteq Nat)'
    BY MessagesType, PTL
  <2> QED BY <2>1, <2>2
<1>2. ASSUME NEW m \in Messages' PROVE ~Matters(m)'
  <2>1. \A e \in Range(m.events) : e <= published' /\ e \in Nat
    BY <1>1, <1>2 DEF OrderInv, MessagesOrdered
  <2>2. \A e \in Range(m.events) : ~(e > queuedSince')
    BY <1>1, <2>1
  <2> QED BY <2>2 DEF Matters
<1>3. Due' = {}
  BY <1>2 DEF Due
<1>4. SentComplete' /\ OnTheirWay'
  BY <1>3 DEF SentComplete, OnTheirWay, Complete
<1>5. ProcessedComplete'
  BY <1>2 DEF ProcessedComplete
<1>6. queuedSince' + 1 .. published' = {}
  <2>1. \A q, n \in Nat : q = n => q + 1 .. n = {}
    OBVIOUS
  <2>2. published' \in Nat /\ queuedSince' \in Nat
    BY DEF OrderInv, TypeOK
  <2> QED BY <2>1, <2>2
<1>7. NoneLost'
  BY <1>6 DEF NoneLost
<1> QED BY <1>4, <1>5, <1>7 DEF Gapless

\* With OrderInv this is inductive under Calm.
LEMMA GaplessNext ==
  OrderInv /\ OrderInv' /\ GaplessInv /\ [Next /\ Calm]_vars => GaplessInv'
<1> SUFFICES ASSUME OrderInv, OrderInv', GaplessInv, [Next /\ Calm]_vars PROVE GaplessInv'
  OBVIOUS
<1>0. /\ CalmLoop /\ ConnectionsInOrder /\ (toggles = 0 => queuedSince = 0)
      /\ queueEvents /\ dispatching = "QueueSend" => Gapless
  BY DEF GaplessInv
<1>1. CASE UNCHANGED vars
  <2>1. UNCHANGED <<hubVars, loopVars, connVars, clientVars, published>>
    BY <1>1 DEF vars
  <2>2. UNCHANGED <<Messages, Queue, Made, Fresh>>
    BY <2>1 DEF hubVars, loopVars, connVars, clientVars, Messages, Queue, Made, Fresh
  <2>3. UNCHANGED <<Due, Coming>>
    BY <2>1, <2>2 DEF hubVars, loopVars, clientVars, Due, Matters, Coming
  <2>4. CalmLoop' /\ ConnectionsInOrder'
    BY <1>0, <2>1, <2>2 DEF CalmLoop, ConnectionsInOrder, hubVars, loopVars, connVars
  <2>5. SentComplete => SentComplete'
    BY <2>1, <2>2, <2>3 DEF SentComplete, Complete, hubVars, loopVars
  <2>6. ProcessedComplete => ProcessedComplete'
    BY <2>1, <2>2 DEF ProcessedComplete, Matters, hubVars, clientVars
  <2>7. OnTheirWay => OnTheirWay'
    BY <2>1, <2>2, <2>3 DEF OnTheirWay, Complete, hubVars, connVars
  <2>8. NoneLost => NoneLost'
    BY <2>1 DEF NoneLost, Held, Processed, hubVars, loopVars, clientVars
  <2> QED BY <1>0, <2>1, <2>4, <2>5, <2>6, <2>7, <2>8 DEF GaplessInv, Gapless, hubVars
<1>2. ASSUME Next, Calm PROVE CalmLoop' /\ ConnectionsInOrder'
  BY <1>0, <1>2, CalmLoopNext, ConnectionsNext
<1>3. ASSUME Next, Calm, NEW value \in BOOLEAN, SetQueueEvents(value) PROVE GaplessInv'
  <2>1. /\ toggles' = toggles + 1 /\ queueEvents' = value /\ value # queueEvents
        /\ published' = published
        /\ ~queueEvents => queuedSince' = published
    BY <1>3 DEF SetQueueEvents
  <2>2. toggles' # 0
    BY <2>1 DEF OrderInv, TypeOK
  <2>3. CASE queueEvents'
    BY <1>2, <1>3, <2>1, <2>2, <2>3, GaplessFromNow DEF GaplessInv
  <2> QED BY <1>2, <1>3, <2>2, <2>3 DEF GaplessInv
<1>4. ASSUME Next, Calm, ~\E value \in BOOLEAN : SetQueueEvents(value) PROVE GaplessInv'
  <2>1. UNCHANGED <<queueEvents, queuedSince, dispatching, toggles>>
    BY <1>4, QueueEventsKept
  <2>2. ASSUME queueEvents, dispatching = "QueueSend" PROVE Gapless'
    <3>1. SentComplete /\ ProcessedComplete /\ OnTheirWay /\ NoneLost
      BY <1>0, <2>2 DEF Gapless
    <3>2. SentComplete'
      BY <1>0, <1>4, <2>2, <3>1, SentCompleteNext
    <3>3. ProcessedComplete'
      BY <1>0, <1>4, <3>1, ProcessedCompleteNext
    <3>4. OnTheirWay'
      BY <1>0, <1>4, <2>2, <3>1, OnTheirWaySendEvents, OnTheirWayOthers
    <3>5. NoneLost'
      BY <1>0, <1>4, <2>2, <3>1, NoneLostNext
    <3> QED BY <3>2, <3>3, <3>4, <3>5 DEF Gapless
  <2> QED BY <1>0, <1>2, <1>4, <2>1, <2>2 DEF GaplessInv
<1> QED BY <1>1, <1>3, <1>4

\* Initially nothing is on its way.
LEMMA GaplessInit == Init => GaplessInv
<1> SUFFICES ASSUME Init PROVE GaplessInv
  OBVIOUS
<1> USE DEF Init
<1>1. Messages = {} /\ 1 \in Conn /\ 1 \in Nat
  BY RangeEmpty, ConstantsAssumption DEF Messages, Conn
<1>2. Due = {} /\ Queue = <<>> /\ ~Fresh
  BY <1>1 DEF Due, Queue, Fresh
<1>3. CalmLoop /\ ConnectionsInOrder
  BY <1>1, <1>2 DEF CalmLoop, ConnectionsInOrder
<1>4. SentComplete /\ ProcessedComplete /\ OnTheirWay
  BY <1>1, <1>2 DEF SentComplete, ProcessedComplete, OnTheirWay, Complete
<1>5. NoneLost
  BY DEF NoneLost
<1> QED BY <1>3, <1>4, <1>5 DEF GaplessInv, Gapless

\* A client that is beyond an event it queued processed it.
LEMMA GaplessSkipsNone == OrderInv /\ GaplessInv => NoEventSkipped
<1> SUFFICES ASSUME OrderInv, GaplessInv, queueEvents, dispatching = "QueueSend",
                    NEW e \in queuedSince + 1 .. published, Passed(e)
             PROVE  Processed(e)
  BY DEF NoEventSkipped
<1>0. ProcessedComplete /\ NoneLost
  BY DEF GaplessInv, Gapless
<1>1. /\ queuedSince \in Nat /\ published \in Nat /\ e \in Nat /\ e > queuedSince
      /\ processed \in Seq(Message) /\ sentEventMessages \in Seq(Message)
      /\ eventMessages \in Seq(Message) /\ lastEventSeq \in Nat
      /\ Messages \subseteq Message /\ \A m \in Message : m.seq \in Nat
      /\ \A m \in Message : Range(m.events) \subseteq Nat
  <2>1. /\ queuedSince \in Nat /\ published \in Nat /\ TypeOK
    BY DEF OrderInv, TypeOK
  <2> QED BY <2>1, SeqBounds, MessagesType
<1>2. PICK i \in 1..Len(processed) : \E f \in Range(processed[i].events) : e <= f
  BY DEF Passed
<1>3. PICK f \in Range(processed[i].events) : e <= f
  BY <1>2
<1>4. /\ processed[i] \in Messages /\ processed[i].seq \in Nat /\ f \in Nat
      /\ processed[i].seq <= lastEventSeq
  <2>1. processed[i] \in Messages
    BY <1>1, MessageAt DEF Messages
  <2>2. Len(processed) \in 1..Len(processed) /\ processed # <<>>
    BY <1>1, EmptySeq
  <2>3. i < Len(processed) \/ i = Len(processed)
    BY <1>1
  <2>4. lastEventSeq = processed[Len(processed)].seq
    BY <2>2 DEF OrderInv, ClientOrdered
  <2>5. processed[i].seq <= lastEventSeq
    BY <1>1, <2>1, <2>2, <2>3, <2>4 DEF OrderInv, ClientOrdered
  <2> QED BY <1>1, <1>3, <2>1, <2>5
<1>5. ASSUME NEW m \in Messages, e \in Range(m.events) PROVE Processed(e)
  <2>1. m.seq \in Nat
    BY <1>1
  <2>2. CASE m.seq <= processed[i].seq
    <3>1. m.seq <= lastEventSeq /\ Matters(m)
      BY <1>1, <1>4, <1>5, <2>1, <2>2 DEF Matters
    <3>2. m \in Range(processed)
      BY <1>0, <3>1 DEF ProcessedComplete
    <3>3. PICK j \in 1..Len(processed) : processed[j] = m
      BY <1>1, <3>2, RangeSeq
    <3> QED BY <1>5, <3>3 DEF Processed
  <2>3. CASE processed[i].seq < m.seq
    <3>1. f < e
      BY <1>3, <1>4, <1>5, <2>3 DEF OrderInv, MessagesOrdered, Before
    <3> QED BY <1>1, <1>3, <1>4, <3>1
  <2> QED BY <1>4, <2>1, <2>2, <2>3
<1>6. CASE e \in Pending
  <2>1. f < e
    BY <1>3, <1>4, <1>6 DEF OrderInv, MessagesOrdered, Before
  <2> QED BY <1>1, <1>3, <1>4, <2>1
<1>7. CASE Held(e) /\ e \notin Pending
  <2>1. CASE loop = "store" /\ e \in Range(eventMessages[Len(eventMessages)].events)
    <3>1. Len(eventMessages) \in 1..Len(eventMessages)
      BY <1>1, <2>1, EmptySeq DEF OrderInv, LoopShape
    <3>2. eventMessages[Len(eventMessages)] \in Messages
      BY <1>1, <3>1, MessageAt DEF Messages
    <3> QED BY <1>5, <2>1, <3>2
  <2>2. ASSUME NEW j \in 1..Len(sentEventMessages),
               e \in Range(sentEventMessages[j].events)
        PROVE  Processed(e)
    <3>1. sentEventMessages[j] \in Messages
      BY <1>1, MessageAt DEF Messages
    <3> QED BY <1>5, <2>2, <3>1
  <2> QED BY <1>7, <2>1, <2>2 DEF Held, Pending
<1> QED BY <1>0, <1>6, <1>7 DEF NoneLost

\* A client that queues its events misses none published since it does, whatever is
\* lost, sent again or acknowledged late and however often it reconnects, if reconnects
\* are calm: this is what the doc of ClientParam.queueEvents promises.
THEOREM NoEventSkippedCorrect == CalmSpec => []NoEventSkipped
<1>1. [Next /\ Calm]_vars => [Next]_vars
  OBVIOUS
<1>2. CalmSpec => Spec
  BY <1>1, PTL DEF CalmSpec, Spec
<1> QED BY <1>2, GaplessInit, GaplessNext, GaplessSkipsNone, OrderCorrect, PTL
    DEF CalmSpec

-----------------------------------------------------------------------------
(* The log a client reads without gaps                                     *)

\* The log ends with the latest event the client processed.
LEMMA LastDeliveredIsLatest ==
  ASSUME OrderInv, LogInv, NEW i \in 1..Len(processed), NEW e \in Range(processed[i].events)
  PROVE  e <= LossyLog!LastDelivered
<1>0. /\ processed \in Seq(Message) /\ Messages \subseteq Message
      /\ \A m \in Message : m.events \in Seq(Nat) /\ m.seq \in Nat
  BY MessagesType, SeqBounds DEF Message
<1>1. processed # <<>> /\ Len(processed) \in 1..Len(processed)
  BY <1>0, EmptySeq
<1> DEFINE last == processed[Len(processed)]
           n    == Len(last.events)
<1>2. processed[i] \in Messages /\ last \in Messages
  BY <1>0, <1>1, MessageAt DEF Messages
<1>3. LossyLog!LastDelivered = last.events[n]
  BY <1>1, LastDeliveredIsLastProcessed DEF OrderInv
<1>4. last.events \in Seq(Nat) /\ last.events # <<>> /\ Increasing(last.events)
  BY <1>0, <1>2 DEF OrderInv, MessagesOrdered, LogInv
<1>5. i < Len(processed) => processed[i].seq < last.seq
  BY <1>1 DEF OrderInv, ClientOrdered
<1> HIDE DEF last
<1>6. n \in 1..n /\ last.events[n] \in Range(last.events) /\ last.events[n] \in Nat
  <2>1. n \in 1..n
    BY <1>4, EmptySeq
  <2> QED BY <1>4, <2>1, RangeSeq
<1>7. CASE i < Len(processed)
  <2>1. Before(Range(processed[i].events), Range(last.events))
    BY <1>2, <1>5, <1>7 DEF OrderInv, MessagesOrdered
  <2>2. e < last.events[n] /\ e \in Nat
    BY <1>0, <1>2, <1>6, <2>1, RangeSeq DEF Before
  <2> QED BY <1>3, <1>6, <2>2
<1>8. CASE i = Len(processed)
  <2>1. PICK k \in 1..n : e = last.events[k]
    BY <1>4, <1>8, RangeSeq DEF last
  <2>2. k < n => last.events[k] < last.events[n]
    BY <1>4, <1>6 DEF Increasing
  <2>3. last.events[k] \in Nat /\ k \in Nat /\ n \in Nat /\ k <= n
    BY <1>4, <1>6
  <2> QED BY <1>3, <1>6, <2>1, <2>2, <2>3
<1> QED BY <1>0, <1>7, <1>8

\* What a message adds to the log continues it without a gap.
LEMMA ProcessedContinues ==
  ASSUME OrderInv, OrderInv', LogInv, NoEventSkipped', queuedSince' = 0, ~Skips',
         ProcessEvents, IsNew(Head(events[current]))
  PROVE  LET batch == Head(events[current]).events IN
         /\ batch[1] = LossyLog!LastDelivered + 1
         /\ \A i \in 2..Len(batch) : batch[i] = batch[i - 1] + 1
<1> DEFINE message == Head(events[current])
           batch   == message.events
           last    == LossyLog!LastDelivered
<1>1. /\ message \in Messages /\ batch \in Seq(Nat) /\ LossyLog!IsNextBatch(batch)
      /\ processed' = Append(processed, message) /\ processed \in Seq(Message)
      /\ published \in Nat /\ published' = published /\ message \in Message
  <2>1. processed' = Append(processed, message) /\ published' = published
    BY DEF ProcessEvents
  <2>2. published \in Nat
    BY DEF OrderInv, TypeOK
  <2>3. message \in Messages /\ batch \in Seq(Nat) /\ LossyLog!IsNextBatch(batch)
    BY ProcessedIsDelivered
  <2>4. message \in Message
    BY <2>3, MessagesType DEF OrderInv
  <2> QED BY <2>1, <2>2, <2>3, <2>4, SeqBounds
<1> HIDE DEF message
<1>2. /\ batch # <<>> /\ Len(batch) \in Nat /\ 1 \in 1..Len(batch)
      /\ \A i \in 1..Len(batch) : /\ batch[i] \in Nat /\ batch[i] \in Range(batch)
                                  /\ last < batch[i] /\ batch[i] <= published
      /\ \A i, j \in 1..Len(batch) : i < j => batch[i] < batch[j]
  <2>1. /\ batch # <<>>
        /\ \A i \in 1..Len(batch) : last < batch[i] /\ batch[i] <= published
        /\ \A i, j \in 1..Len(batch) : i < j => batch[i] < batch[j]
    BY <1>1 DEF LossyLog!IsNextBatch
  <2>2. Len(batch) \in Nat /\ 1 \in 1..Len(batch)
    BY <1>1, <2>1, EmptySeq
  <2>3. \A i \in 1..Len(batch) : batch[i] \in Nat /\ batch[i] \in Range(batch)
    BY <1>1, RangeSeq
  <2> QED BY <2>1, <2>2, <2>3
<1>r. \A e \in Range(batch) : \E k \in 1..Len(batch) : e = batch[k]
  <2>1. Range(batch) = {batch[i] : i \in 1..Len(batch)}
    BY <1>1, RangeSeq
  <2> QED BY <2>1
<1>3. last \in Nat
  <2>1. processed = <<>> => last = 0
    BY LastDeliveredIsLastProcessed DEF OrderInv
  <2>2. ASSUME processed # <<>> PROVE last \in Nat
    <3>1. Len(processed) \in 1..Len(processed)
      BY <1>1, <2>2, EmptySeq
    <3>2. processed[Len(processed)] \in Messages /\ processed[Len(processed)] \in Message
      BY <1>1, <3>1, MessageAt DEF Messages
    <3>3. processed[Len(processed)].events # <<>>
      BY <3>2 DEF OrderInv, MessagesOrdered
    <3>4. processed[Len(processed)].events \in Seq(Nat)
      BY <3>2 DEF Message
    <3>5. last = processed[Len(processed)].events[Len(processed[Len(processed)].events)]
      BY <2>2, LastDeliveredIsLastProcessed DEF OrderInv
    <3>6. \A s \in Seq(Nat) : s # <<>> => s[Len(s)] \in Nat
      <4> SUFFICES ASSUME NEW s \in Seq(Nat), s # <<>> PROVE s[Len(s)] \in Nat
        OBVIOUS
      <4>1. Len(s) \in 1..Len(s)
        BY EmptySeq
      <4> QED BY <4>1, ElementOfSeq
    <3> QED BY <3>3, <3>4, <3>5, <3>6
  <2> QED BY <2>1, <2>2
<1> HIDE DEF batch, last
<1>4. /\ Len(processed') = Len(processed) + 1 /\ processed'[Len(processed) + 1] = message
      /\ \A i \in 1..Len(processed) : processed'[i] = processed[i]
      /\ Len(processed) \in Nat
  BY <1>1, RangeAppend
\* An event between the log and one of the message is in the message.
<1>5. ASSUME NEW e \in Nat, last < e, NEW k \in 1..Len(batch), e <= batch[k]
      PROVE  e \in Range(batch)
  <2>1. e \in queuedSince' + 1 .. published'
    BY <1>1, <1>2, <1>3, <1>5
  <2>2. Passed(e)'
    <3>1. Len(processed) + 1 \in 1..Len(processed')
      BY <1>4
    <3>2. batch[k] \in Range(processed'[Len(processed) + 1].events)
      BY <1>2, <1>4 DEF batch
    <3> QED BY <1>5, <3>1, <3>2 DEF Passed
  <2>3. Processed(e)'
    <3>1. dispatching' \in Dispatchings
      BY DEF OrderInv, TypeOK
    <3>2. queueEvents' /\ dispatching' = "QueueSend"
      BY <3>1, ConstantsAssumption DEF Skips
    <3> QED BY <2>1, <2>2, <3>2 DEF NoEventSkipped
  <2>4. PICK i \in 1..Len(processed') : e \in Range(processed'[i].events)
    BY <2>3 DEF Processed
  <2>5. CASE i = Len(processed) + 1
    BY <1>4, <2>4, <2>5 DEF batch
  <2>6. CASE i \in 1..Len(processed)
    <3>1. e <= last
      BY <1>4, <2>4, <2>6, LastDeliveredIsLatest DEF last
    <3> QED BY <1>3, <1>5, <3>1
  <2> QED BY <1>4, <2>5, <2>6
<1>6. batch[1] = last + 1
  <2>1. CASE last + 1 < batch[1]
    <3>1. last + 1 \in Range(batch)
      BY <1>2, <1>3, <1>5, <2>1
    <3>2. PICK k \in 1..Len(batch) : last + 1 = batch[k]
      BY <1>r, <3>1
    <3>3. k # 1 /\ batch[1] < batch[k]
      BY <1>2, <1>3, <2>1, <3>2
    <3> QED BY <1>2, <1>3, <2>1, <3>2, <3>3
  <2> QED BY <1>2, <1>3, <2>1
<1>7. ASSUME NEW i \in 2..Len(batch) PROVE batch[i] = batch[i - 1] + 1
  <2>1. i - 1 \in 1..Len(batch) /\ i \in 1..Len(batch) /\ i \in Nat
    BY <1>2
  <2>2. batch[i - 1] < batch[i] /\ batch[i - 1] \in Nat /\ batch[i] \in Nat
        /\ last < batch[i - 1]
    BY <1>2, <2>1
  <2>3. CASE batch[i - 1] + 1 < batch[i]
    <3>1. batch[i - 1] + 1 \in Range(batch)
      <4>1. batch[i - 1] + 1 \in Nat /\ last < batch[i - 1] + 1
            /\ batch[i - 1] + 1 <= batch[i]
        BY <1>3, <2>2, <2>3
      <4> QED BY <1>5, <2>1, <4>1
    <3>2. PICK k \in 1..Len(batch) : batch[i - 1] + 1 = batch[k]
      BY <1>r, <3>1
    <3>3. CASE k <= i - 1
      <4>1. batch[k] <= batch[i - 1]
        <5>1. CASE k = i - 1
          BY <2>2, <5>1
        <5>2. CASE k < i - 1
          BY <1>2, <2>1, <2>2, <5>2
        <5> QED BY <2>1, <3>3, <5>1, <5>2
      <4> QED BY <2>2, <3>2, <4>1
    <3>4. CASE k >= i
      <4>1. batch[i] <= batch[k]
        <5>1. CASE k = i
          BY <2>2, <5>1
        <5>2. CASE k > i
          BY <1>2, <2>1, <2>2, <5>2
        <5> QED BY <2>1, <3>4, <5>1, <5>2
      <4> QED BY <2>2, <2>3, <3>2, <4>1
    <3> QED BY <2>1, <3>3, <3>4
  <2> QED BY <2>2, <2>3
<1> QED BY <1>6, <1>7 DEF batch, last, message

\* Every step is one of the log, which is gapless if the client skips nothing.
LEMMA FifoStepRefines ==
  OrderInv /\ OrderInv' /\ LogInv /\ GaplessInv' /\ NoEventSkipped' /\ [Next]_vars
    => [FifoLog!Next]_(FifoLog!vars)
<1> SUFFICES ASSUME OrderInv, OrderInv', LogInv, GaplessInv', NoEventSkipped', [Next]_vars
             PROVE  FifoLog!Next \/ UNCHANGED <<published, Delivered>>
  BY DEF FifoLog!vars
<1>1. CASE ProcessEvents /\ IsNew(Head(events[current]))
  <2> DEFINE batch == Head(events[current]).events
  <2>1. /\ published' = published /\ Delivered' # <<>>
        /\ Delivered' = Append(Delivered, Last(Delivered')) /\ Last(Delivered') = batch
        /\ LossyLog!IsNextBatch(batch)
    BY <1>1, ProcessedIsDelivered DEF ProcessEvents
  <2>2. FifoLog!LastDelivered = LossyLog!LastDelivered
    BY DEF FifoLog!LastDelivered, LossyLog!LastDelivered, FifoLog!Last, LossyLog!Last
  <2>3. ~Skips => /\ batch[1] = FifoLog!LastDelivered + 1
                  /\ \A i \in 2..Len(batch) : batch[i] = batch[i - 1] + 1
    <3> SUFFICES ASSUME ~Skips
                 PROVE  /\ batch[1] = LossyLog!LastDelivered + 1
                        /\ \A i \in 2..Len(batch) : batch[i] = batch[i - 1] + 1
      BY <2>2
    <3>1. ~Skips' /\ toggles' = toggles
      BY <1>1 DEF ProcessEvents, hubVars, Skips
    <3>2. toggles' = 0
      BY <3>1 DEF Skips, OrderInv, TypeOK
    <3>3. queuedSince' = 0
      BY <3>2 DEF GaplessInv
    <3> QED BY <1>1, <3>1, <3>3, ProcessedContinues
  <2> HIDE DEF batch
  <2>4. FifoLog!IsNextBatch(batch)
    BY <2>1, <2>2, <2>3 DEF FifoLog!IsNextBatch, LossyLog!IsNextBatch
  <2>5. FifoLog!Deliver
    BY <2>1, <2>4 DEF FifoLog!Deliver, FifoLog!Last, Last
  <2> QED BY <2>5 DEF FifoLog!Next
<1>2. CASE ~(ProcessEvents /\ IsNew(Head(events[current])))
  BY <1>2, OthersKeepLog DEF FifoLog!Next, FifoLog!Publish
<1> QED BY <1>1, <1>2

\* A client that queues its events all the time reads all of the log, in order, whatever
\* is lost, sent again or acknowledged late, and however often it reconnects - if
\* reconnects are calm.
THEOREM DeliveryImplementsFifoLog == CalmSpec => ImplementsFifoLog
<1>1. Init => LogInv /\ FifoLog!Init
  <2> SUFFICES ASSUME Init PROVE LogInv /\ FifoLog!Init
    OBVIOUS
  <2>1. Messages = {}
    BY RangeEmpty DEF Init, Messages
  <2> QED BY <2>1 DEF Init, LogInv, Increasing, FifoLog!Init, Delivered
<1>2. [Next /\ Calm]_vars => [Next]_vars
  OBVIOUS
<1>3. CalmSpec => Spec
  BY <1>2, PTL DEF CalmSpec, Spec
<1> QED BY <1>1, <1>2, <1>3, GaplessInit, GaplessNext, LogNext, FifoStepRefines,
    OrderCorrect, NoEventSkippedCorrect, PTL
    DEF CalmSpec, ImplementsFifoLog, FifoLog!Spec
=============================================================================

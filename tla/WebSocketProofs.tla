-------------------------- MODULE WebSocketProofs --------------------------
(***************************************************************************)
(* A client hub and its host, for every number of requests, connections    *)
(* and faults: no message is left in the send queue of the host with       *)
(* nobody to wake the send loop, and as long as the connections are calm   *)
(* a request that waits is answered exactly once.                          *)
(***************************************************************************)
EXTENDS WebSocket, FiniteSetTheorems, SequenceTheorems, TLAPS

-----------------------------------------------------------------------------
(* The inductive invariant                                                 *)

\* The send loop sends what it has dequeued before it waits again; the queue is closed
\* when the connection is, and only then the loop ends.
SendLoops ==
  \A c \in Conns :
    /\ sendLoop[c] = "send" => batch[c] # <<>>
    /\ sendLoop[c] \in {"wait", "woken"} => batch[c] = <<>>
    /\ closed[c] => state[c] \in {"closed", "broken"}
    /\ isLast[c] => closed[c]
    /\ sendLoop[c] = "ended" => state[c] \in {"closed", "broken"}
    /\ state[c] = "none" => queue[c] = <<>> /\ sendLoop[c] # "send"

\* Connections are created one after the other, and each is opened once, by the
\* request that created it.
Connects ==
  /\ wsConnection <= created /\ connectTask <= created
  /\ \A c \in Conns : c > created => state[c] = "none"
  /\ \A r \in Requests :
       /\ conn[r] <= created
       /\ pc[r] \notin {"start", "connect"} => conn[r] # 0
       /\ pc[r] = "connecting" => state[conn[r]] = "none"
       /\ pc[r] = "wait" => state[conn[r]] # "none"
  /\ \A r, q \in Requests : pc[r] = "connecting" /\ pc[q] = "connecting" /\ conn[r] = conn[q] => r = q

\* The responses to r on the way from its execution to the client.
AtHost(r, c) == Occurrences(r, queue[c]) + Occurrences(r, batch[c]) + Occurrences(r, toClient[c])

\* A request is sent once, on its connection, and executed there: it is on its way to
\* the host, or it has a job, or neither.
SentOnce ==
  /\ \A r \in Requests, c \in Conns :
       /\ Occurrences(r, toHost[c]) <= 1
       /\ Occurrences(r, toHost[c]) = 1 => c = conn[r] /\ pc[r] = "wait" /\ job[r].pc = "none"
       /\ AtHost(r, c) # 0 => c = conn[r] /\ job[r].pc # "none"
  /\ \A r \in Requests : job[r].pc # "none" => job[r].conn = conn[r] /\ pc[r] = "wait"

\* NoLostWakeup while the send loop sends, too: when it is done with that it waits.
SomeoneWakes ==
  \A c \in Conns :
    sendLoop[c] \in {"wait", "send"} /\ available[c] = 0 /\ queue[c] # <<>>
      => \E s \in Requests : job[s].conn = c /\ job[s].pc \in {"added", "release"}

Inv == TypeOK /\ SendLoops /\ Connects /\ SentOnce /\ SomeoneWakes

\* A request whose answer is expected is in the map of its connection, and only there.
Expecting ==
  /\ \A r \in Requests : pc[r] \in {"lock", "send", "wait"} /\ response[r] = "none"
                           => r \in requestMap[conn[r]]
  /\ \A c \in Conns, r \in Requests : r \in requestMap[c] \cup toCancel[c] =>
       conn[r] = c /\ pc[r] \in {"lock", "send", "wait", "done"}
  /\ \A r \in Requests : response[r] = "response" => pc[r] = "wait"
  /\ \A r \in Requests : response[r] # "none" => pc[r] \in {"lock", "send", "wait", "done"}

\* While nothing races, no response is written twice and none is without reqId,
\* and only what broke is cancelled.
CalmConnections ==
  calm =>
    /\ \A r \in Requests : job[r].attempt <= 1
    /\ \A c \in Conns : AtHost(None, c) = 0
    /\ \A c \in Conns : clientLoop[c] = "cancel" => state[c] = "broken"
    /\ CanceledIfBroken

\* Where an answer to r comes from when c is its connection.
AnswersOn(r, c) ==
  Occurrences(r, toHost[c]) + (IF job[r].pc = "send" THEN 1 ELSE 0) + AtHost(r, c)

\* OneAnswer, connection by connection.
AnsweredOnce ==
  calm => \A r \in Requests, c \in Conns :
    pc[r] = "wait" /\ conn[r] = c /\ state[c] = "open" =>
      AnswersOn(r, c) = IF response[r] = "none" THEN 1 ELSE 0

CalmInv == Expecting /\ CalmConnections /\ AnsweredOnce

-----------------------------------------------------------------------------
(* How often a request occurs in a queue                                   *)

\* The indexes at which x occurs.
Indexes(x, s) == {i \in 1 .. Len(s) : s[i] = x}

\* They are as many as the occurrences.
LEMMA OccurrencesByIndex ==
  ASSUME NEW S, NEW s \in Seq(S), NEW x
  PROVE  /\ Occurrences(x, s) = Cardinality(Indexes(x, s))
         /\ IsFiniteSet(Indexes(x, s))
         /\ Occurrences(x, s) \in Nat
<1>1. DOMAIN s = 1 .. Len(s) /\ Len(s) \in Nat
  OBVIOUS
<1>2. IsFiniteSet(1 .. Len(s)) /\ Indexes(x, s) \subseteq 1 .. Len(s)
  BY <1>1, FS_Interval DEF Indexes
<1>3. IsFiniteSet(Indexes(x, s))
  BY <1>2, FS_Subset
<1>4. {i \in DOMAIN s : s[i] = x} = Indexes(x, s)
  BY <1>1 DEF Indexes
<1> QED BY <1>3, <1>4, FS_CardinalityType DEF Occurrences

\* An empty queue has none.
LEMMA OccurrencesEmpty == \A x : Occurrences(x, <<>>) = 0
<1>1. \A x : {i \in DOMAIN <<>> : <<>>[i] = x} = {}
  OBVIOUS
<1> QED BY <1>1, FS_EmptySet DEF Occurrences

\* Appending an element adds one to its own.
LEMMA OccurrencesAppend ==
  ASSUME NEW S, NEW s \in Seq(S), NEW e \in S, NEW x
  PROVE  Occurrences(x, Append(s, e)) = Occurrences(x, s) + (IF e = x THEN 1 ELSE 0)
<1> DEFINE t == Append(s, e)
           n == Len(s)
<1>1. /\ t \in Seq(S) /\ n \in Nat /\ Len(t) = n + 1
      /\ \A i \in 1 .. n : t[i] = s[i]
      /\ t[n + 1] = e
  BY AppendProperties
<1> HIDE DEF t
<1>2. Indexes(x, t) = IF e = x THEN Indexes(x, s) \cup {n + 1} ELSE Indexes(x, s)
  <2>1. 1 .. Len(t) = (1 .. n) \cup {n + 1}
    BY <1>1
  <2>2. Indexes(x, t) = {i \in (1 .. n) \cup {n + 1} : t[i] = x}
    BY <2>1 DEF Indexes
  <2> QED BY <1>1, <2>2 DEF Indexes
<1>3. n + 1 \notin Indexes(x, s)
  BY <1>1 DEF Indexes
<1>4. /\ Occurrences(x, s) = Cardinality(Indexes(x, s)) /\ IsFiniteSet(Indexes(x, s))
      /\ Occurrences(x, t) = Cardinality(Indexes(x, t)) /\ Occurrences(x, s) \in Nat
  BY <1>1, OccurrencesByIndex
<1>5. CASE e = x
  <2>1. Cardinality(Indexes(x, s) \cup {n + 1}) = Cardinality(Indexes(x, s)) + 1
    BY <1>3, <1>4, FS_AddElement
  <2> QED BY <1>2, <1>4, <1>5, <2>1 DEF t
<1>6. CASE e # x
  BY <1>2, <1>4, <1>6 DEF t
<1> QED BY <1>5, <1>6

\* Taking the head takes one of its own.
LEMMA OccurrencesTail ==
  ASSUME NEW S, NEW s \in Seq(S), s # <<>>, NEW x
  PROVE  Occurrences(x, s) = Occurrences(x, Tail(s)) + (IF Head(s) = x THEN 1 ELSE 0)
<1> DEFINE t == Tail(s)
           rest == Indexes(x, s) \ {1}
           f == [i \in Indexes(x, t) |-> i + 1]
<1>1. /\ t \in Seq(S) /\ Len(s) \in Nat \ {0} /\ Len(t) = Len(s) - 1
      /\ \A i \in 1 .. Len(t) : t[i] = s[i + 1]
      /\ Head(s) = s[1]
  BY HeadTailProperties
<1> HIDE DEF t
<1>2. /\ Occurrences(x, s) = Cardinality(Indexes(x, s)) /\ IsFiniteSet(Indexes(x, s))
      /\ Occurrences(x, t) = Cardinality(Indexes(x, t)) /\ IsFiniteSet(Indexes(x, t))
      /\ Occurrences(x, s) \in Nat /\ Occurrences(x, t) \in Nat
  BY <1>1, OccurrencesByIndex
<1>3. f \in Bijection(Indexes(x, t), rest)
  <2>1. \A i \in Indexes(x, t) : i \in Nat /\ i + 1 \in rest
    BY <1>1 DEF Indexes
  <2>2. f \in [Indexes(x, t) -> rest]
    BY <2>1
  <2>3. \A i, j \in Indexes(x, t) : f[i] = f[j] => i = j
    BY <2>1
  <2>4. ASSUME NEW k \in rest PROVE \E i \in Indexes(x, t) : f[i] = k
    <3>1. k \in 1 .. Len(s) /\ k # 1 /\ s[k] = x
      BY DEF Indexes
    <3>2. k - 1 \in 1 .. Len(t) /\ t[k - 1] = s[(k - 1) + 1] /\ (k - 1) + 1 = k
      BY <1>1, <3>1
    <3>3. k - 1 \in Indexes(x, t)
      BY <3>1, <3>2 DEF Indexes
    <3> QED BY <3>2, <3>3
  <2> QED BY <2>2, <2>3, <2>4 DEF Bijection, Injection, Surjection, IsInjective
<1>4. Cardinality(rest) = Cardinality(Indexes(x, t))
  <2>1. ExistsBijection(Indexes(x, t), rest)
    BY <1>3 DEF ExistsBijection
  <2> HIDE DEF rest
  <2> QED BY <1>2, <2>1, FS_Bijection
<1>5. 1 \in Indexes(x, s) <=> Head(s) = x
  BY <1>1 DEF Indexes
<1>6. Cardinality(rest) =
        IF 1 \in Indexes(x, s) THEN Cardinality(Indexes(x, s)) - 1 ELSE Cardinality(Indexes(x, s))
  BY <1>2, FS_RemoveElement
<1> QED BY <1>2, <1>4, <1>5, <1>6 DEF t

-----------------------------------------------------------------------------
(* Types                                                                   *)

\* What is in transit has a type of its own.
ChannelTypeOK ==
  /\ state \in [Conns -> {"none", "open", "closing", "closed", "broken"}]
  /\ toHost \in [Conns -> Seq(Requests \cup {CloseFrame})]
  /\ toClient \in [Conns -> Seq(Requests \cup {None})]
  /\ calm \in BOOLEAN

LEMMA TypeParts == TypeOK <=> ChannelTypeOK /\ HostTypeOK /\ ClientTypeOK
BY DEF TypeOK, ChannelTypeOK

\* Every variable has its type at the start.
LEMMA TypeInit == Init => TypeOK
<1> SUFFICES ASSUME Init PROVE TypeOK
  OBVIOUS
<1>1. NoJob \in Job
  BY MaxConnsAssumption DEF NoJob, Job
<1>2. ChannelTypeOK
  BY DEF Init, ChannelInit, ChannelTypeOK
<1>3. HostTypeOK
  <2> HIDE DEF NoJob, Job
  <2> QED BY <1>1 DEF Init, HostInit, HostTypeOK
<1>4. ClientTypeOK
  BY MaxConnsAssumption DEF Init, ClientInit, ClientTypeOK
<1> QED BY <1>2, <1>3, <1>4, TypeParts

\* The jobs that the steps of a job make of it.
LEMMA JobTypes ==
  ASSUME NEW j \in Job, NEW where \in {"none", "send", "added", "release", "done"}
  PROVE  /\ [j EXCEPT !.pc = where] \in Job
         /\ \A n \in 0 .. 3 : [j EXCEPT !.pc = where, !.attempt = n] \in Job
<1>2. \A n \in 0 .. 3 : [j EXCEPT !.pc = where, !.attempt = n] \in Job
  BY DEF Job
<1>3. [j EXCEPT !.pc = where] \in Job
  BY DEF Job
<1> QED BY <1>2, <1>3

\* The end of an execution.
LEMMA FinishType ==
  ASSUME HostTypeOK, NEW s \in Requests, Finish(s) \/ Fail(s)
  PROVE  /\ job' \in [Requests -> Job]
         /\ recvLoop' \in [Conns -> {"read", "busy", "ended"}]
<1>1. job \in [Requests -> Job] /\ job[s] \in Job
  BY DEF HostTypeOK
<1>2. /\ [job[s] EXCEPT !.pc = "done"] \in Job
      /\ \A n \in 0 .. 3 : [job[s] EXCEPT !.pc = "send", !.attempt = n] \in Job
  BY <1>1, JobTypes
<1>3. \/ job' = [job EXCEPT ![s] = [job[s] EXCEPT !.pc = "done"]]
      \/ job' = [job EXCEPT ![s] = [job[s] EXCEPT !.pc = "send", !.attempt = 2]]
      \/ job' = [job EXCEPT ![s] = [job[s] EXCEPT !.pc = "send", !.attempt = 3]]
  BY <1>1 DEF Finish, Fail, OnReceiveFails
<1>4. job' \in [Requests -> Job]
  <2> HIDE DEF Job
  <2> QED BY <1>1, <1>2, <1>3
<1>5. recvLoop' \in [Conns -> {"read", "busy", "ended"}]
  BY DEF HostTypeOK, Finish, Fail, OnReceiveFails
<1> QED BY <1>4, <1>5

\* Every step of the host keeps the types.
LEMMA TypeHost ==
  ASSUME TypeOK, SendLoops, HostNext, UNCHANGED clientVars
  PROVE  ChannelTypeOK' /\ HostTypeOK' /\ ClientTypeOK'
<1>1. ChannelTypeOK /\ HostTypeOK /\ ClientTypeOK
  BY TypeParts
<1>2. ClientTypeOK'
  BY <1>1 DEF ClientTypeOK, clientVars
<1>3. ASSUME NEW c \in Conns, SendLoop(c)
      PROVE  ChannelTypeOK' /\ HostTypeOK'
  <2>1. /\ batch[c] \in Seq(Requests \cup {None}) /\ queue[c] \in Seq(Requests \cup {None})
        /\ toClient[c] \in Seq(Requests \cup {None})
    BY <1>1 DEF HostTypeOK, ChannelTypeOK
  <2>2. CASE Wait(c)
    BY <1>1, <2>2 DEF Wait, HostTypeOK, ChannelTypeOK, channelVars
  <2>3. CASE Dequeue(c)
    BY <1>1, <2>1, <2>3 DEF Dequeue, Loop, HostTypeOK, ChannelTypeOK, channelVars
  <2>4. CASE Send(c)
    <3>1. batch[c] # <<>>
      BY <2>4 DEF Send, SendLoops
    <3>2. /\ Tail(batch[c]) \in Seq(Requests \cup {None}) /\ Head(batch[c]) \in Requests \cup {None}
          /\ Append(toClient[c], Head(batch[c])) \in Seq(Requests \cup {None})
      BY <2>1, <3>1, HeadTailProperties, AppendProperties
    <3>3. Loop(Rest(c), isLast[c]) \in {"wait", "send", "ended"}
      BY DEF Loop
    <3>4. /\ batch' = [batch EXCEPT ![c] = Tail(batch[c])]
          /\ \/ toClient' = [toClient EXCEPT ![c] = Append(toClient[c], Head(batch[c]))]
             \/ toClient' = toClient
          /\ sendLoop' = [sendLoop EXCEPT ![c] = Loop(Rest(c), isLast[c])]
          /\ UNCHANGED <<queue, closed, available, recvLoop, isLast, job, state, toHost, calm>>
      BY <2>4 DEF Send, Rest
    <3>5. ChannelTypeOK'
      BY <1>1, <3>2, <3>4 DEF ChannelTypeOK
    <3>6. HostTypeOK'
      BY <1>1, <3>2, <3>3, <3>4 DEF HostTypeOK
    <3> QED BY <3>5, <3>6
  <2>5. CASE SendFails(c)
    BY <1>1, <2>5 DEF SendFails, HostTypeOK, ChannelTypeOK, channelVars
  <2> QED BY <1>3, <2>2, <2>3, <2>4, <2>5 DEF SendLoop
<1>4. ASSUME NEW c \in Conns, ReceiveLoop(c)
      PROVE  ChannelTypeOK' /\ HostTypeOK'
  <2>1. toHost[c] \in Seq(Requests \cup {CloseFrame})
    BY <1>1 DEF ChannelTypeOK
  <2>2. CASE ReadRequest(c)
    <3> DEFINE r == Head(toHost[c])
               j == [pc |-> "send", conn |-> c, sync |-> r \in SyncRequests, attempt |-> 1]
    <3>1. r \in Requests /\ Tail(toHost[c]) \in Seq(Requests \cup {CloseFrame})
      BY <2>1, <2>2, HeadTailProperties DEF ReadRequest
    <3>2. j \in Job
      BY MaxConnsAssumption DEF Job, Conns
    <3>3. /\ job' = [job EXCEPT ![r] = j]
          /\ toHost' = [toHost EXCEPT ![c] = Tail(toHost[c])]
          /\ recvLoop' = [recvLoop EXCEPT ![c] = IF r \in SyncRequests THEN "busy" ELSE "read"]
          /\ UNCHANGED <<queue, closed, available, sendLoop, batch, isLast, state, toClient, calm>>
      BY <2>2 DEF ReadRequest
    <3> HIDE DEF r, j
    <3> QED BY <1>1, <3>1, <3>2, <3>3 DEF HostTypeOK, ChannelTypeOK
  <2>3. CASE ReadClose(c)
    BY <1>1, <2>3 DEF ReadClose, CloseQueue, CloseSemaphore, HostTypeOK, ChannelTypeOK
  <2>4. CASE ReadFails(c)
    <3>1. /\ recvLoop' = [recvLoop EXCEPT ![c] = "ended"]
          /\ closed' = closed \/ closed' = [closed EXCEPT ![c] = TRUE]
          /\ available' = available \/ available' = [available EXCEPT ![c] = 1]
          /\ UNCHANGED <<queue, sendLoop, batch, isLast, job>> /\ UNCHANGED channelVars
      BY <2>4 DEF ReadFails, CloseQueue, CloseSemaphore
    <3>2. ChannelTypeOK'
      BY <1>1, <3>1 DEF ChannelTypeOK, channelVars
    <3>3. closed' \in [Conns -> BOOLEAN] /\ available' \in [Conns -> 0 .. 1]
      <4>1. closed \in [Conns -> BOOLEAN] /\ available \in [Conns -> 0 .. 1]
        BY <1>1 DEF HostTypeOK
      <4>2. [closed EXCEPT ![c] = TRUE] \in [Conns -> BOOLEAN]
        BY <4>1
      <4>3. [available EXCEPT ![c] = 1] \in [Conns -> 0 .. 1]
        BY <4>1
      <4> QED BY <3>1, <4>1, <4>2, <4>3
    <3>4. HostTypeOK'
      BY <1>1, <3>1, <3>3 DEF HostTypeOK
    <3> QED BY <3>2, <3>4
  <2> QED BY <1>4, <2>2, <2>3, <2>4 DEF ReceiveLoop
<1>5. ASSUME NEW s \in Requests, SendMessage(s)
      PROVE  ChannelTypeOK' /\ HostTypeOK'
  <2>1. job \in [Requests -> Job] /\ job[s] \in Job
    BY <1>1 DEF HostTypeOK
  <2>2. \A where \in {"added", "release"} : [job[s] EXCEPT !.pc = where] \in Job
    BY <2>1, JobTypes
  <2>3. CASE AddTail(s)
    <3>1. CASE closed[job[s].conn]
      <4>1. Finish(s) /\ UNCHANGED <<queue, closed, available, sendLoop, batch, isLast, channelVars>>
        BY <2>3, <3>1 DEF AddTail
      <4> QED BY <1>1, <4>1, FinishType DEF HostTypeOK, ChannelTypeOK, channelVars
    <3>2. CASE ~closed[job[s].conn]
      <4>1. /\ queue' = [queue EXCEPT ![job[s].conn] = Append(@, Message(s))]
            /\ job' = [job EXCEPT ![s] = [job[s] EXCEPT !.pc = "added"]]
            /\ UNCHANGED <<recvLoop, closed, available, sendLoop, batch, isLast, channelVars>>
        BY <2>1, <2>3, <3>2 DEF AddTail
      <4>2. Message(s) \in Requests \cup {None}
        BY DEF Message
      <4>3. queue' \in [Conns -> Seq(Requests \cup {None})]
        <5>1. queue \in [Conns -> Seq(Requests \cup {None})]
          BY <1>1 DEF HostTypeOK
        <5>2. \A q \in Seq(Requests \cup {None}) : Append(q, Message(s)) \in Seq(Requests \cup {None})
          BY <4>2, AppendProperties
        <5> QED BY <4>1, <5>1, <5>2
      <4> QED BY <1>1, <2>1, <2>2, <4>1, <4>3 DEF HostTypeOK, ChannelTypeOK, channelVars
    <3> QED BY <3>1, <3>2
  <2>4. CASE TestAvailable(s)
    <3>1. UNCHANGED <<queue, closed, available, sendLoop, batch, isLast, channelVars>>
      BY <2>4 DEF TestAvailable
    <3>2. /\ job' \in [Requests -> Job] /\ recvLoop' \in [Conns -> {"read", "busy", "ended"}]
      <4>1. \/ Finish(s)
            \/ /\ job' = [job EXCEPT ![s] = [job[s] EXCEPT !.pc = "release"]]
               /\ recvLoop' = recvLoop
        BY <2>1, <2>4 DEF TestAvailable
      <4>2. CASE Finish(s)
        BY <1>1, <4>2, FinishType
      <4>3. CASE ~Finish(s)
        BY <1>1, <2>1, <2>2, <4>1, <4>3 DEF HostTypeOK
      <4> QED BY <4>2, <4>3
    <3> QED BY <1>1, <3>1, <3>2 DEF HostTypeOK, ChannelTypeOK, channelVars
  <2>5. CASE Release(s)
    <3>1. Finish(s) \/ Fail(s)
      BY <2>5 DEF Release
    <3>2. /\ available' = [available EXCEPT ![job[s].conn] = 1]
          /\ calm' \in BOOLEAN
          /\ UNCHANGED <<queue, closed, sendLoop, batch, isLast, state, toHost, toClient>>
      BY <2>5 DEF Release
    <3>3. /\ job' \in [Requests -> Job] /\ recvLoop' \in [Conns -> {"read", "busy", "ended"}]
      BY <1>1, <3>1, FinishType
    <3>4. available' \in [Conns -> 0 .. 1]
      <4>1. available \in [Conns -> 0 .. 1] /\ 1 \in 0 .. 1
        BY <1>1 DEF HostTypeOK
      <4> QED BY <3>2, <4>1
    <3>5. HostTypeOK'
      BY <1>1, <3>2, <3>3, <3>4 DEF HostTypeOK
    <3>6. ChannelTypeOK'
      BY <1>1, <3>2 DEF ChannelTypeOK
    <3> QED BY <3>5, <3>6
  <2> QED BY <1>5, <2>3, <2>4, <2>5 DEF SendMessage
<1> QED BY <1>2, <1>3, <1>4, <1>5 DEF HostNext

\* The connection of a request that has one.
LEMMA ConnOf ==
  ASSUME TypeOK, Connects, NEW r \in Requests, pc[r] \notin {"start", "connect"}
  PROVE  conn[r] \in Conns
<1>1. conn[r] \in 0 .. MaxConns /\ conn[r] # 0
  BY DEF TypeOK, ClientTypeOK, Connects
<1> QED BY <1>1, MaxConnsAssumption DEF Conns

\* Cancelling what is pending.
LEMMA StartCancelType ==
  ASSUME ClientTypeOK, NEW c \in Conns, NEW pending \in SUBSET Requests, StartCancel(c, pending)
  PROVE  /\ clientLoop' \in [Conns -> {"none", "check", "receive", "cancel", "ended"}]
         /\ toCancel' \in [Conns -> SUBSET Requests]
         /\ mapChanged' \in [Conns -> BOOLEAN]
BY DEF StartCancel, ClientTypeOK

\* Every step of a request keeps the types.
LEMMA TypeRequest ==
  ASSUME TypeOK, Connects, NEW r \in Requests, ExecuteRequest(r), UNCHANGED hostVars
  PROVE  ChannelTypeOK' /\ HostTypeOK' /\ ClientTypeOK'
<1>1. ChannelTypeOK /\ HostTypeOK /\ ClientTypeOK
  BY TypeParts
<1>2. HostTypeOK'
  BY <1>1 DEF HostTypeOK, hostVars
<1>3. CASE GetConnection(r)
  BY <1>1, <1>2, <1>3 DEF GetConnection, Goto, ChannelTypeOK, ClientTypeOK, channelVars, connectVars, loopVars
<1>4. CASE JoinConnects(r)
  <2>1. created' \in 0 .. MaxConns /\ wsConnection' \in 0 .. MaxConns /\ connectTask' \in 0 .. MaxConns
    BY <1>1, <1>4, MaxConnsAssumption DEF JoinConnects, ClientTypeOK, connectVars
  <2>2. conn' \in [Requests -> 0 .. MaxConns]
    BY <1>1, <1>4, <2>1 DEF JoinConnects, ClientTypeOK
  <2>3. /\ pc' = [pc EXCEPT ![r] = "join"] \/ pc' = [pc EXCEPT ![r] = "connecting"]
        /\ UNCHANGED <<response, requestMap, sendLock, clientLoop, toCancel, mapChanged>>
        /\ UNCHANGED <<state, toHost, toClient, calm>>
    BY <1>4 DEF JoinConnects, Goto, loopVars, channelVars
  <2>4. ClientTypeOK'
    BY <1>1, <2>1, <2>2, <2>3 DEF ClientTypeOK
  <2> QED BY <1>1, <1>2, <2>3, <2>4 DEF ChannelTypeOK
<1>5. CASE OpenSocket(r)
  BY <1>1, <1>2, <1>5 DEF OpenSocket, Goto, ChannelTypeOK, ClientTypeOK, connectVars, loopVars
<1>6. CASE ConnectFails(r)
  <2>1. 0 \in 0 .. MaxConns
    BY MaxConnsAssumption
  <2> QED BY <1>1, <1>2, <1>6, <2>1
          DEF ConnectFails, ChannelTypeOK, ClientTypeOK, channelVars, loopVars
<1>7. CASE EndConnect(r)
  <2>1. 0 \in 0 .. MaxConns
    BY MaxConnsAssumption
  <2> QED BY <1>1, <1>2, <1>7, <2>1 DEF EndConnect, ChannelTypeOK, ClientTypeOK, channelVars
<1>8. CASE AddRequest(r)
  BY <1>1, <1>2, <1>8 DEF AddRequest, Goto, ChannelTypeOK, ClientTypeOK, channelVars, connectVars
<1>9. CASE AwaitSendLock(r)
  BY <1>1, <1>2, <1>9 DEF AwaitSendLock, Goto, ChannelTypeOK, ClientTypeOK, channelVars, connectVars, loopVars
<1>10. CASE SendRequest(r)
  <2>1. conn[r] \in Conns
    BY <1>10, ConnOf DEF SendRequest
  <2>2. Append(toHost[conn[r]], r) \in Seq(Requests \cup {CloseFrame})
    BY <1>1, <2>1, AppendProperties DEF ChannelTypeOK
  <2>3. toHost' = [toHost EXCEPT ![conn[r]] = Append(toHost[conn[r]], r)]
    BY <1>10 DEF SendRequest
  <2>4. ChannelTypeOK'
    BY <1>1, <1>10, <2>1, <2>2, <2>3 DEF SendRequest, ChannelTypeOK
  <2>5. ClientTypeOK'
    BY <1>1, <1>10 DEF SendRequest, ReleaseSendLock, Goto, ClientTypeOK, connectVars, loopVars
  <2> QED BY <1>2, <2>4, <2>5
<1>11. CASE SendRequestFails(r)
  BY <1>1, <1>2, <1>11
     DEF SendRequestFails, Goto, ChannelTypeOK, ClientTypeOK, channelVars, connectVars, loopVars
<1> QED BY <1>3, <1>4, <1>5, <1>6, <1>7, <1>8, <1>9, <1>10, <1>11 DEF ExecuteRequest

\* So does every step of the receive loop of the client, and every fault.
LEMMA TypeConnection ==
  ASSUME TypeOK, NEW c \in Conns, UNCHANGED hostVars,
         ClientReceiveLoop(c) \/ CloseClient(c) \/ Break(c)
  PROVE  ChannelTypeOK' /\ HostTypeOK' /\ ClientTypeOK'
<1>1. ChannelTypeOK /\ HostTypeOK /\ ClientTypeOK
  BY TypeParts
<1>2. HostTypeOK'
  BY <1>1 DEF HostTypeOK, hostVars
<1>3. /\ toHost[c] \in Seq(Requests \cup {CloseFrame}) /\ toClient[c] \in Seq(Requests \cup {None})
      /\ requestMap[c] \in SUBSET Requests /\ toCancel[c] \in SUBSET Requests
  BY <1>1 DEF ChannelTypeOK, ClientTypeOK
<1>4. CASE CheckSocket(c)
  BY <1>1, <1>2, <1>4 DEF CheckSocket, ChannelTypeOK, ClientTypeOK, channelVars, connectVars
<1>5. CASE OnReceive(c)
  <2> DEFINE m == Head(toClient[c])
  <2>1. Tail(toClient[c]) \in Seq(Requests \cup {None})
    BY <1>3, <1>5, HeadTailProperties DEF OnReceive
  <2>2. /\ toClient' = [toClient EXCEPT ![c] = Tail(toClient[c])]
        /\ requestMap' = [requestMap EXCEPT ![c] = requestMap[c] \ {m}]
        /\ \/ /\ response' = [response EXCEPT ![m] = "response"] 
              /\ clientLoop' = [clientLoop EXCEPT ![c] = "check"] /\ UNCHANGED <<toCancel, mapChanged>>
           \/ StartCancel(c, requestMap[c] \ {m}) /\ UNCHANGED response
        /\ UNCHANGED <<wsConnection, connectTask, created, pc, conn, sendLock, state, toHost, calm>>
    BY <1>5 DEF OnReceive, connectVars
  <2> HIDE DEF m
  <2>3. ChannelTypeOK'
    BY <1>1, <2>1, <2>2 DEF ChannelTypeOK
  <2>4. /\ clientLoop' \in [Conns -> {"none", "check", "receive", "cancel", "ended"}]
        /\ toCancel' \in [Conns -> SUBSET Requests]
        /\ mapChanged' \in [Conns -> BOOLEAN]
        /\ response' \in [Requests -> {"none", "response", "canceled"}]
    <3>1. CASE StartCancel(c, requestMap[c] \ {m}) /\ UNCHANGED response
      BY <1>1, <1>3, <3>1, StartCancelType DEF ClientTypeOK
    <3>2. CASE /\ response' = [response EXCEPT ![m] = "response"]
               /\ clientLoop' = [clientLoop EXCEPT ![c] = "check"]
               /\ UNCHANGED <<toCancel, mapChanged>>
      <4>1. response' \in [Requests -> {"none", "response", "canceled"}]
        BY <1>1, <3>2 DEF ClientTypeOK
      <4> QED BY <1>1, <3>2, <4>1 DEF ClientTypeOK
    <3> QED BY <2>2, <3>1, <3>2
  <2>5. requestMap' \in [Conns -> SUBSET Requests]
    BY <1>1, <1>3, <2>2 DEF ClientTypeOK
  <2>6. ClientTypeOK'
    BY <1>1, <2>2, <2>4, <2>5 DEF ClientTypeOK
  <2> QED BY <1>2, <2>3, <2>6
<1>6. CASE ReceiveFails(c)
  <2>1. /\ clientLoop' \in [Conns -> {"none", "check", "receive", "cancel", "ended"}]
        /\ toCancel' \in [Conns -> SUBSET Requests]
        /\ mapChanged' \in [Conns -> BOOLEAN]
    BY <1>1, <1>3, <1>6, StartCancelType DEF ReceiveFails
  <2> QED BY <1>1, <1>2, <1>6, <2>1 DEF ReceiveFails, ChannelTypeOK, ClientTypeOK, channelVars, connectVars
<1>7. CASE ReceiveClosed(c)
  BY <1>1, <1>2, <1>7 DEF ReceiveClosed, ChannelTypeOK, ClientTypeOK, channelVars, connectVars
<1>8. CASE CancelRequests(c)
  <2>1. /\ clientLoop' \in [Conns -> {"none", "check", "receive", "cancel", "ended"}]
        /\ toCancel' \in [Conns -> SUBSET Requests]
        /\ response' \in [Requests -> {"none", "response", "canceled"}]
    BY <1>1, <1>8 DEF CancelRequests, ClientTypeOK
  <2> QED BY <1>1, <1>2, <1>8, <2>1 DEF CancelRequests, ChannelTypeOK, ClientTypeOK, channelVars, connectVars
<1>9. CASE CloseClient(c)
  <2>1. Append(toHost[c], CloseFrame) \in Seq(Requests \cup {CloseFrame})
    BY <1>3, AppendProperties
  <2>2. /\ wsConnection' = 0
        /\ UNCHANGED <<connectTask, created, pc, conn, response, requestMap, sendLock, clientLoop,
                       toCancel, mapChanged>>
    BY <1>9 DEF CloseClient, loopVars
  <2>3. ChannelTypeOK'
    <3>1. \/ /\ toHost' = [toHost EXCEPT ![c] = Append(toHost[c], CloseFrame)] /\ calm' \in BOOLEAN
             /\ state' = [state EXCEPT ![c] = "closing"] /\ toClient' = toClient
          \/ UNCHANGED channelVars
      BY <1>9 DEF CloseClient
    <3> QED BY <1>1, <2>1, <3>1 DEF ChannelTypeOK, channelVars
  <2>4. ClientTypeOK'
    BY <1>1, <2>2, MaxConnsAssumption DEF ClientTypeOK
  <2> QED BY <1>2, <2>3, <2>4
<1>10. CASE Break(c)
  <2>1. /\ toHost' = [toHost EXCEPT ![c] = <<>>] /\ toClient' = [toClient EXCEPT ![c] = <<>>]
        /\ state' = [state EXCEPT ![c] = "broken"] /\ calm' \in BOOLEAN
    BY <1>10 DEF Break
  <2>2. ChannelTypeOK'
    BY <1>1, <2>1 DEF ChannelTypeOK
  <2>3. ClientTypeOK'
    BY <1>1, <1>10 DEF Break, ClientTypeOK, clientVars, connectVars
  <2> QED BY <1>2, <2>2, <2>3
<1> QED BY <1>4, <1>5, <1>6, <1>7, <1>8, <1>9, <1>10 DEF ClientReceiveLoop

-----------------------------------------------------------------------------
(* Where requests and responses are                                        *)

\* Occurrences are numbers.
LEMMA OccurrencesTypes ==
  ASSUME TypeOK, NEW x, NEW c \in Conns
  PROVE  /\ Occurrences(x, toHost[c]) \in Nat /\ Occurrences(x, queue[c]) \in Nat
         /\ Occurrences(x, batch[c]) \in Nat /\ Occurrences(x, toClient[c]) \in Nat
         /\ AtHost(x, c) \in Nat
<1>1. /\ toHost[c] \in Seq(Requests \cup {CloseFrame}) /\ queue[c] \in Seq(Requests \cup {None})
      /\ batch[c] \in Seq(Requests \cup {None}) /\ toClient[c] \in Seq(Requests \cup {None})
  BY DEF TypeOK, HostTypeOK
<1>2. /\ Occurrences(x, toHost[c]) \in Nat /\ Occurrences(x, queue[c]) \in Nat
      /\ Occurrences(x, batch[c]) \in Nat /\ Occurrences(x, toClient[c]) \in Nat
  BY <1>1, OccurrencesByIndex
<1> QED BY <1>2 DEF AtHost

\* The same in the next state.
LEMMA OccurrencesTypesNext ==
  ASSUME TypeOK', NEW x, NEW c \in Conns
  PROVE  /\ Occurrences(x, toHost'[c]) \in Nat /\ Occurrences(x, queue'[c]) \in Nat
         /\ Occurrences(x, batch'[c]) \in Nat /\ Occurrences(x, toClient'[c]) \in Nat
<1>1. /\ toHost'[c] \in Seq(Requests \cup {CloseFrame}) /\ queue'[c] \in Seq(Requests \cup {None})
      /\ batch'[c] \in Seq(Requests \cup {None}) /\ toClient'[c] \in Seq(Requests \cup {None})
  BY DEF TypeOK, HostTypeOK
<1> QED BY <1>1, OccurrencesByIndex

\* Where the responses to r are in the next state.
LEMMA AtHostNext ==
  ASSUME NEW x, NEW c
  PROVE  AtHost(x, c)' = Occurrences(x, queue'[c]) + Occurrences(x, batch'[c])
                           + Occurrences(x, toClient'[c])
BY DEF AtHost, Occurrences

\* Most steps send no request and start no job.
LEMMA SentOnceKept ==
  ASSUME TypeOK, SentOnce,
         \A r \in Requests : pc[r] = "wait" => pc'[r] = "wait" /\ conn'[r] = conn[r],
         \A r \in Requests, c \in Conns :
           Occurrences(r, toHost'[c]) \in {0, Occurrences(r, toHost[c])},
         \A r \in Requests, c \in Conns :
           AtHost(r, c)' # 0 => AtHost(r, c) # 0 \/ (job[r].pc # "none" /\ job[r].conn = c),
         \A r \in Requests : job[r].pc # "none" <=> job'[r].pc # "none",
         \A r \in Requests : job[r].pc # "none" => job'[r].conn = job[r].conn
  PROVE  SentOnce'
<1>1. ASSUME NEW r \in Requests, NEW c \in Conns
      PROVE  /\ Occurrences(r, toHost'[c]) <= 1
             /\ Occurrences(r, toHost'[c]) = 1 => c = conn'[r] /\ pc'[r] = "wait" /\ job'[r].pc = "none"
             /\ AtHost(r, c)' # 0 => c = conn'[r] /\ job'[r].pc # "none"
  <2>1. Occurrences(r, toHost[c]) \in Nat
    BY OccurrencesTypes
  <2>2. /\ Occurrences(r, toHost[c]) <= 1
        /\ Occurrences(r, toHost[c]) = 1 => c = conn[r] /\ pc[r] = "wait" /\ job[r].pc = "none"
        /\ AtHost(r, c) # 0 => c = conn[r] /\ job[r].pc # "none"
        /\ job[r].pc # "none" => job[r].conn = conn[r] /\ pc[r] = "wait"
    BY DEF SentOnce
  <2>3. Occurrences(r, toHost'[c]) <= 1
    BY <2>1, <2>2
  <2>4. Occurrences(r, toHost'[c]) = 1 => c = conn'[r] /\ pc'[r] = "wait" /\ job'[r].pc = "none"
    BY <2>1, <2>2
  <2>5. AtHost(r, c)' # 0 => c = conn'[r] /\ job'[r].pc # "none"
    BY <2>2
  <2> QED BY <2>3, <2>4, <2>5
<1>2. \A r \in Requests : job'[r].pc # "none" => job'[r].conn = conn'[r] /\ pc'[r] = "wait"
  BY DEF SentOnce
<1> QED BY <1>1, <1>2 DEF SentOnce

\* Nothing is sent or executed at the start.
LEMMA SentOnceInit == Init => SentOnce
<1> SUFFICES ASSUME Init PROVE SentOnce
  OBVIOUS
<1>1. \A c \in Conns : toHost[c] = <<>> /\ toClient[c] = <<>> /\ queue[c] = <<>> /\ batch[c] = <<>>
  BY DEF Init, ChannelInit, HostInit
<1>2. \A x : \A c \in Conns : AtHost(x, c) = 0 /\ Occurrences(x, toHost[c]) = 0
  <2> SUFFICES ASSUME NEW x, NEW c \in Conns
               PROVE  AtHost(x, c) = 0 /\ Occurrences(x, toHost[c]) = 0
    OBVIOUS
  <2> QED BY <1>1, OccurrencesEmpty DEF AtHost
<1>3. \A r \in Requests : job[r].pc = "none"
  BY DEF Init, HostInit, NoJob
<1> QED BY <1>2, <1>3 DEF SentOnce

-----------------------------------------------------------------------------
(* The host                                                                *)

\* The host closes a connection at most, and only one that was open.
LEMMA HostState ==
  ASSUME TypeOK, HostNext
  PROVE  \/ state' = state
         \/ \E c \in Conns : Connected(c) /\ state' = [state EXCEPT ![c] = "closed"]
BY DEF HostNext, SendLoop, ReceiveLoop, SendMessage, Wait, Dequeue, Send, SendFails, ReadRequest,
       ReadClose, ReadFails, AddTail, TestAvailable, Release, channelVars

\* So connections are created and opened as before.
LEMMA ConnectsHost ==
  ASSUME TypeOK, Connects, HostNext, UNCHANGED clientVars
  PROVE  Connects'
<1>1. /\ UNCHANGED <<wsConnection, connectTask, created, pc, conn>>
      /\ state \in [Conns -> {"none", "open", "closing", "closed", "broken"}]
      /\ conn \in [Requests -> 0 .. MaxConns]
  BY DEF clientVars, TypeOK, ClientTypeOK
<1>2. CASE state' = state
  BY <1>1, <1>2 DEF Connects
<1>3. CASE \E c \in Conns : Connected(c) /\ state' = [state EXCEPT ![c] = "closed"]
  <2>1. PICK c \in Conns : Connected(c) /\ state' = [state EXCEPT ![c] = "closed"]
    BY <1>3
  <2>2. state[c] # "none"
    BY <2>1 DEF Connected
  <2>3. \A d : d \in Conns => (state'[d] = "none" <=> state[d] = "none")
    BY <1>1, <2>1, <2>2
  <2>4. \A r \in Requests : pc[r] \notin {"start", "connect"} => conn[r] \in Conns
    BY ConnOf
  <2> QED BY <1>1, <2>3, <2>4 DEF Connects
<1> QED BY <1>2, <1>3, HostState

\* Every step of the host keeps what is known of the send loops.
LEMMA SendLoopsHost ==
  ASSUME TypeOK, SendLoops, Connects, SentOnce, HostNext
  PROVE  SendLoops'
<1>1. /\ state \in [Conns -> {"none", "open", "closing", "closed", "broken"}]
      /\ queue \in [Conns -> Seq(Requests \cup {None})]
      /\ batch \in [Conns -> Seq(Requests \cup {None})]
      /\ closed \in [Conns -> BOOLEAN] /\ isLast \in [Conns -> BOOLEAN]
      /\ sendLoop \in [Conns -> {"wait", "woken", "send", "ended"}]
  BY DEF TypeOK, HostTypeOK
<1>2. ASSUME NEW c \in Conns, SendLoop(c)
      PROVE  SendLoops'
  <2>1. CASE Wait(c)
    BY <1>1, <2>1 DEF Wait, SendLoops, channelVars
  <2>2. CASE Dequeue(c)
    BY <1>1, <2>2 DEF Dequeue, Loop, SendLoops, channelVars
  <2>3. CASE Send(c)
    <3>1. /\ batch' = [batch EXCEPT ![c] = Tail(batch[c])]
          /\ sendLoop' = [sendLoop EXCEPT ![c] = Loop(Tail(batch[c]), isLast[c])]
          /\ UNCHANGED <<queue, closed, isLast, state>> /\ sendLoop[c] = "send"
      BY <2>3 DEF Send, Rest
    <3>2. /\ Loop(Tail(batch[c]), isLast[c]) = "send" => Tail(batch[c]) # <<>>
          /\ Loop(Tail(batch[c]), isLast[c]) \in {"wait", "woken"} => Tail(batch[c]) = <<>>
          /\ Loop(Tail(batch[c]), isLast[c]) = "ended" => isLast[c]
      BY DEF Loop
    <3> HIDE DEF Loop
    <3>3. \A d \in Conns : d # c => batch'[d] = batch[d] /\ sendLoop'[d] = sendLoop[d]
      BY <1>1, <3>1
    <3>4. batch'[c] = Tail(batch[c]) /\ sendLoop'[c] = Loop(Tail(batch[c]), isLast[c])
      BY <1>1, <3>1
    <3> QED BY <3>1, <3>2, <3>3, <3>4 DEF SendLoops
  <2>4. CASE SendFails(c)
    BY <1>1, <2>4 DEF SendFails, SendLoops, Connected, channelVars
  <2> QED BY <1>2, <2>1, <2>2, <2>3, <2>4 DEF SendLoop
<1>3. ASSUME NEW c \in Conns, ReceiveLoop(c)
      PROVE  SendLoops'
  <2>1. CASE ReadRequest(c)
    BY <2>1 DEF ReadRequest, SendLoops
  <2>2. CASE ReadClose(c)
    BY <1>1, <2>2 DEF ReadClose, CloseQueue, SendLoops
  <2>3. CASE ReadFails(c)
    BY <1>1, <2>3 DEF ReadFails, CloseQueue, SendLoops, channelVars
  <2> QED BY <1>3, <2>1, <2>2, <2>3 DEF ReceiveLoop
<1>4. ASSUME NEW s \in Requests, SendMessage(s)
      PROVE  SendLoops'
  <2>1. UNCHANGED <<closed, sendLoop, batch, isLast, state>>
    BY <1>4 DEF SendMessage, AddTail, TestAvailable, Release, channelVars
  <2>2. ASSUME NEW c \in Conns, state[c] = "none" PROVE queue'[c] = queue[c]
    <3>1. CASE job[s].pc # "none"
      <4>1. job[s].conn = conn[s] /\ state[conn[s]] # "none"
        BY <3>1 DEF SentOnce, Connects
      <4> QED BY <1>1, <1>4, <2>2, <4>1 DEF SendMessage, AddTail, TestAvailable, Release
    <3>2. CASE job[s].pc = "none"
      BY <1>4, <3>2 DEF SendMessage, AddTail, TestAvailable, Release
    <3> QED BY <3>1, <3>2
  <2> QED BY <2>1, <2>2 DEF SendLoops
<1> QED BY <1>2, <1>3, <1>4 DEF HostNext

\* The send loop moves responses, and loses some only if the connection is not open.
LEMMA SendLoopKeeps ==
  ASSUME TypeOK, TypeOK', SendLoops, NEW c \in Conns, SendLoop(c), NEW x, NEW d \in Conns
  PROVE  /\ AtHost(x, d)' \in Nat /\ AtHost(x, d)' <= AtHost(x, d)
         /\ state[d] = "open" => AtHost(x, d)' = AtHost(x, d)
<1>1. /\ queue \in [Conns -> Seq(Requests \cup {None})] /\ batch \in [Conns -> Seq(Requests \cup {None})]
      /\ toClient \in [Conns -> Seq(Requests \cup {None})]
  BY DEF TypeOK, HostTypeOK
<1>2. /\ Occurrences(x, queue[d]) \in Nat /\ Occurrences(x, batch[d]) \in Nat
      /\ Occurrences(x, toClient[d]) \in Nat /\ AtHost(x, d) \in Nat
  BY OccurrencesTypes
<1>3. CASE queue'[d] = queue[d] /\ batch'[d] = batch[d] /\ toClient'[d] = toClient[d]
  <2>1. AtHost(x, d)' = AtHost(x, d)
    BY <1>3, AtHostNext DEF AtHost
  <2> QED BY <1>2, <2>1
<1>4. CASE Dequeue(c) /\ d = c
  <2>1. batch'[d] = queue[d] /\ queue'[d] = <<>> /\ toClient'[d] = toClient[d] /\ batch[d] = <<>>
    BY <1>1, <1>4 DEF Dequeue, SendLoops, channelVars
  <2>2. AtHost(x, d)' = 0 + Occurrences(x, queue[d]) + Occurrences(x, toClient[d])
    BY <2>1, AtHostNext, OccurrencesEmpty
  <2>3. AtHost(x, d) = Occurrences(x, queue[d]) + 0 + Occurrences(x, toClient[d])
    BY <2>1, OccurrencesEmpty DEF AtHost
  <2> QED BY <1>2, <2>2, <2>3
<1>5. CASE Send(c) /\ d = c
  <2> DEFINE one == IF Head(batch[d]) = x THEN 1 ELSE 0
  <2>1. /\ batch[d] # <<>> /\ queue'[d] = queue[d] /\ batch'[d] = Tail(batch[d])
        /\ IF Connected(d) THEN toClient'[d] = Append(toClient[d], Head(batch[d]))
                           ELSE toClient'[d] = toClient[d]
    BY <1>1, <1>5 DEF Send, Rest, SendLoops
  <2>2. Occurrences(x, batch[d]) = Occurrences(x, batch'[d]) + one
    BY <1>1, <2>1, OccurrencesTail
  <2>3. Head(batch[d]) \in Requests \cup {None}
    BY <1>1, <2>1
  <2>4. Occurrences(x, Append(toClient[d], Head(batch[d]))) = Occurrences(x, toClient[d]) + one
    BY <1>1, <2>3, OccurrencesAppend
  <2>5. one \in Nat
    OBVIOUS
  <2> HIDE DEF one
  <2>6. Occurrences(x, toClient'[d])
          = IF Connected(d) THEN Occurrences(x, toClient[d]) + one ELSE Occurrences(x, toClient[d])
    <3> HIDE DEF Connected
    <3> QED BY <2>1, <2>4
  <2>7. /\ AtHost(x, d)' = Occurrences(x, queue[d]) + Occurrences(x, batch'[d]) + Occurrences(x, toClient'[d])
        /\ AtHost(x, d) = Occurrences(x, queue[d]) + Occurrences(x, batch[d]) + Occurrences(x, toClient[d])
    BY <2>1, AtHostNext DEF AtHost
  <2>8. Occurrences(x, batch'[d]) \in Nat
    BY OccurrencesTypesNext
  <2>9. state[d] = "open" => Connected(d)
    BY DEF Connected
  <2>10. CASE Connected(d)
    BY <1>2, <2>2, <2>5, <2>6, <2>7, <2>8, <2>10
  <2>11. CASE ~Connected(d)
    BY <1>2, <2>2, <2>5, <2>6, <2>7, <2>8, <2>9, <2>11
  <2> QED BY <2>10, <2>11
<1>6. \/ queue'[d] = queue[d] /\ batch'[d] = batch[d] /\ toClient'[d] = toClient[d]
      \/ Dequeue(c) /\ d = c
      \/ Send(c) /\ d = c
  BY <1>1 DEF SendLoop, Wait, Dequeue, Send, SendFails, channelVars
<1> QED BY <1>3, <1>4, <1>5, <1>6

\* The request that is read is no longer on its way to the host.
LEMMA ReadTakes ==
  ASSUME TypeOK, NEW c \in Conns, ReadRequest(c), NEW r \in Requests, NEW d \in Conns
  PROVE  Occurrences(r, toHost[d])
           = Occurrences(r, toHost'[d]) + (IF d = c /\ Head(toHost[c]) = r THEN 1 ELSE 0)
<1>1. /\ toHost \in [Conns -> Seq(Requests \cup {CloseFrame})] /\ toHost[c] # <<>>
      /\ toHost' = [toHost EXCEPT ![c] = Tail(toHost[c])]
  BY DEF TypeOK, ReadRequest
<1>2. CASE d = c
  <2>1. toHost'[d] = Tail(toHost[d])
    BY <1>1, <1>2
  <2> QED BY <1>1, <1>2, <2>1, OccurrencesTail
<1>3. CASE d # c
  <2>1. toHost'[d] = toHost[d] /\ Occurrences(r, toHost[d]) \in Nat
    BY <1>1, <1>3, OccurrencesTypes
  <2> QED BY <1>3, <2>1
<1> QED BY <1>2, <1>3

\* A step of the host that reads no request sends none, and starts no job.
LEMMA SentOnceHost ==
  ASSUME TypeOK, SendLoops, Connects, SentOnce, HostNext, UNCHANGED clientVars, TypeOK'
  PROVE  SentOnce'
<1>1. pc' = pc /\ conn' = conn
  BY DEF clientVars
<1>2. /\ toHost \in [Conns -> Seq(Requests \cup {CloseFrame})]
      /\ queue \in [Conns -> Seq(Requests \cup {None})]
      /\ batch \in [Conns -> Seq(Requests \cup {None})]
      /\ toClient \in [Conns -> Seq(Requests \cup {None})]
      /\ job \in [Requests -> Job]
  BY DEF TypeOK, HostTypeOK
<1>3. \A r \in Requests, c \in Conns : AtHost(r, c) \in Nat
  BY OccurrencesTypes
<1>4. ASSUME NEW c \in Conns, SendLoop(c)
      PROVE  SentOnce'
  <2>1. job' = job /\ toHost' = toHost
    BY <1>4 DEF SendLoop, Wait, Dequeue, Send, SendFails, channelVars
  <2>2. ASSUME NEW r \in Requests, NEW d \in Conns PROVE AtHost(r, d)' # 0 => AtHost(r, d) # 0
    BY <1>3, <1>4, SendLoopKeeps
  <2>3. \A r \in Requests, d \in Conns : Occurrences(r, toHost'[d]) \in {0, Occurrences(r, toHost[d])}
    BY <2>1
  <2> QED BY <1>1, <2>1, <2>2, <2>3, SentOnceKept
<1>5. ASSUME NEW c \in Conns, ReceiveLoop(c)
      PROVE  SentOnce'
  <2>1. UNCHANGED <<queue, batch, toClient>>
    BY <1>5 DEF ReceiveLoop, ReadRequest, ReadClose, ReadFails, channelVars
  <2>2. \A r \in Requests, d \in Conns : AtHost(r, d)' = AtHost(r, d)
    BY <2>1 DEF AtHost
  <2>3. CASE ReadRequest(c)
    <3> DEFINE m == Head(toHost[c])
    <3>1. /\ toHost[c] # <<>> /\ m \in Requests
          /\ toHost' = [toHost EXCEPT ![c] = Tail(toHost[c])]
          /\ job' = [job EXCEPT ![m] = [pc |-> "send", conn |-> c, sync |-> m \in SyncRequests, attempt |-> 1]]
      BY <1>2, <2>3, HeadTailProperties DEF ReadRequest
    <3> HIDE DEF m
    <3>2. \A r \in Requests, d \in Conns :
            Occurrences(r, toHost[d]) = Occurrences(r, toHost'[d]) + (IF d = c /\ m = r THEN 1 ELSE 0)
      BY <2>3, ReadTakes DEF m
    <3>3. \A r \in Requests, d \in Conns : Occurrences(r, toHost[d]) \in Nat /\ Occurrences(r, toHost'[d]) \in Nat
      BY OccurrencesTypes, OccurrencesTypesNext
    <3>4. Occurrences(m, toHost[c]) = 1 /\ Occurrences(m, toHost'[c]) = 0
      <4>1. Occurrences(m, toHost[c]) = Occurrences(m, toHost'[c]) + 1
        BY <3>1, <3>2
      <4>2. Occurrences(m, toHost[c]) <= 1
        BY <3>1 DEF SentOnce
      <4> QED BY <3>1, <3>3, <4>1, <4>2
    <3>5. c = conn[m] /\ pc[m] = "wait" /\ job[m].pc = "none"
      BY <3>1, <3>4 DEF SentOnce
    <3>6. /\ job'[m].pc = "send" /\ job'[m].conn = c
          /\ \A r \in Requests : r # m => job'[r] = job[r]
      BY <1>2, <3>1
    <3>7. ASSUME NEW r \in Requests, NEW d \in Conns
          PROVE  /\ Occurrences(r, toHost'[d]) <= 1
                 /\ Occurrences(r, toHost'[d]) = 1 => d = conn[r] /\ pc[r] = "wait" /\ job'[r].pc = "none"
                 /\ AtHost(r, d)' # 0 => d = conn[r] /\ job'[r].pc # "none"
      <4>1. /\ Occurrences(r, toHost[d]) <= 1
            /\ Occurrences(r, toHost[d]) = 1 => d = conn[r] /\ pc[r] = "wait" /\ job[r].pc = "none"
            /\ AtHost(r, d) # 0 => d = conn[r] /\ job[r].pc # "none"
        BY DEF SentOnce
      <4>2. CASE r = m
        <5>1. Occurrences(r, toHost'[d]) = 0
          <6>1. CASE d = c
            BY <3>4, <4>2, <6>1
          <6>2. CASE d # c
            <7>1. Occurrences(r, toHost[d]) # 1
              BY <3>5, <4>1, <4>2, <6>2
            <7> QED BY <3>2, <3>3, <4>1, <6>2, <7>1
          <6> QED BY <6>1, <6>2
        <5>2. AtHost(r, d)' = 0
          BY <2>2, <3>5, <4>1, <4>2
        <5> QED BY <5>1, <5>2
      <4>3. CASE r # m
        <5>1. Occurrences(r, toHost'[d]) = Occurrences(r, toHost[d])
          BY <3>2, <3>3, <4>3
        <5> QED BY <2>2, <3>6, <4>1, <4>3, <5>1
      <4> QED BY <4>2, <4>3
    <3>8. \A r \in Requests : job'[r].pc # "none" => job'[r].conn = conn[r] /\ pc[r] = "wait"
      BY <3>5, <3>6 DEF SentOnce
    <3> QED BY <1>1, <3>7, <3>8 DEF SentOnce
  <2>4. CASE ~ReadRequest(c)
    <3>1. job' = job /\ (toHost' = toHost \/ toHost' = [toHost EXCEPT ![c] = <<>>])
      BY <1>5, <2>4 DEF ReceiveLoop, ReadClose, ReadFails, channelVars
    <3>2. ASSUME NEW r \in Requests, NEW d \in Conns
          PROVE  Occurrences(r, toHost'[d]) \in {0, Occurrences(r, toHost[d])}
      <4>1. toHost'[d] = toHost[d] \/ toHost'[d] = <<>>
        BY <1>2, <3>1
      <4> QED BY <4>1, OccurrencesEmpty
    <3> QED BY <1>1, <2>2, <3>1, <3>2, SentOnceKept
  <2> QED BY <2>3, <2>4
<1>6. ASSUME NEW s \in Requests, SendMessage(s)
      PROVE  SentOnce'
  <2>1. /\ UNCHANGED <<batch, toHost, toClient>>
        /\ \/ queue' = queue
           \/ queue' = [queue EXCEPT ![job[s].conn] = Append(queue[job[s].conn], Message(s))]
        /\ job[s].pc \in {"send", "added", "release"}
    BY <1>6 DEF SendMessage, AddTail, TestAvailable, Release, channelVars
  <2>2. /\ \A r \in Requests : r # s => job'[r] = job[r]
        /\ job'[s].pc # "none" /\ job'[s].conn = job[s].conn
    BY <1>2, <1>6 DEF SendMessage, AddTail, TestAvailable, Release, Finish, Fail, OnReceiveFails, Job
  <2>3. ASSUME NEW r \in Requests, NEW d \in Conns, AtHost(r, d)' # 0
        PROVE  AtHost(r, d) # 0 \/ (job[r].pc # "none" /\ job[r].conn = d)
    <3>1. CASE queue'[d] = queue[d]
      BY <2>1, <2>3, <3>1, AtHostNext DEF AtHost
    <3>2. CASE queue'[d] # queue[d]
      <4>1. d = job[s].conn /\ queue'[d] = Append(queue[d], Message(s))
        BY <1>2, <2>1, <3>2
      <4>2. Message(s) \in Requests \cup {None} /\ (r # s => Message(s) # r)
        BY RequestsAssumption DEF Message
      <4>3. CASE r = s
        BY <2>1, <4>1, <4>3
      <4>4. CASE r # s
        <5>1. Occurrences(r, queue'[d]) = Occurrences(r, queue[d]) + 0
          <6>1. queue[d] \in Seq(Requests \cup {None})
            BY <1>2
          <6>2. Occurrences(r, Append(queue[d], Message(s)))
                  = Occurrences(r, queue[d]) + (IF Message(s) = r THEN 1 ELSE 0)
            BY <4>2, <6>1, OccurrencesAppend
          <6> QED BY <4>1, <4>2, <4>4, <6>2
        <5>2. Occurrences(r, queue[d]) \in Nat
          BY OccurrencesTypes
        <5> QED BY <2>1, <2>3, <5>1, <5>2, AtHostNext DEF AtHost
      <4> QED BY <4>3, <4>4
    <3> QED BY <3>1, <3>2
  <2>4. \A r \in Requests, d \in Conns : Occurrences(r, toHost'[d]) \in {0, Occurrences(r, toHost[d])}
    BY <2>1
  <2>5. /\ \A r \in Requests : job[r].pc # "none" <=> job'[r].pc # "none"
        /\ \A r \in Requests : job[r].pc # "none" => job'[r].conn = job[r].conn
    BY <2>1, <2>2
  <2> QED BY <1>1, <2>3, <2>4, <2>5, SentOnceKept
<1> QED BY <1>4, <1>5, <1>6 DEF HostNext

\* A request the host reads has no job yet.
LEMMA ReadsNew ==
  ASSUME TypeOK, SentOnce, NEW c \in Conns, ReadRequest(c)
  PROVE  LET m == Head(toHost[c])
         IN  /\ m \in Requests /\ Occurrences(m, toHost[c]) = 1
             /\ c = conn[m] /\ pc[m] = "wait" /\ job[m].pc = "none"
<1> DEFINE m == Head(toHost[c])
<1>1. toHost[c] \in Seq(Requests \cup {CloseFrame}) /\ toHost[c] # <<>> /\ m # CloseFrame
  BY DEF TypeOK, ReadRequest
<1>2. m \in Requests /\ Tail(toHost[c]) \in Seq(Requests \cup {CloseFrame})
  BY <1>1, HeadTailProperties
<1>3. Occurrences(m, toHost[c]) = Occurrences(m, Tail(toHost[c])) + 1
  BY <1>1, OccurrencesTail
<1>4. Occurrences(m, toHost[c]) \in Nat /\ Occurrences(m, Tail(toHost[c])) \in Nat
  BY <1>1, <1>2, OccurrencesByIndex
<1>5. Occurrences(m, toHost[c]) <= 1
  BY <1>2 DEF SentOnce
<1>6. Occurrences(m, toHost[c]) = 1
  BY <1>3, <1>4, <1>5
<1> QED BY <1>2, <1>6 DEF SentOnce

\* Where a job runs.
LEMMA JobConn ==
  ASSUME TypeOK, Connects, SentOnce, NEW s \in Requests, job[s].pc # "none"
  PROVE  job[s].conn \in Conns /\ job[s].conn = conn[s] /\ pc[s] = "wait"
BY ConnOf DEF SentOnce

\* No step of the host leaves messages to a send loop that nobody wakes.
LEMMA SomeoneWakesHost ==
  ASSUME TypeOK, SendLoops, Connects, SentOnce, SomeoneWakes, HostNext
  PROVE  SomeoneWakes'
<1>1. /\ queue \in [Conns -> Seq(Requests \cup {None})] /\ available \in [Conns -> 0 .. 1]
      /\ sendLoop \in [Conns -> {"wait", "woken", "send", "ended"}]
      /\ job \in [Requests -> Job]
  BY DEF TypeOK, HostTypeOK
<1> SUFFICES ASSUME NEW d \in Conns, sendLoop'[d] \in {"wait", "send"}, available'[d] = 0,
                    queue'[d] # <<>>
             PROVE  \E s \in Requests : job'[s].conn = d /\ job'[s].pc \in {"added", "release"}
  BY DEF SomeoneWakes
<1>2. ASSUME NEW s \in Requests, job[s].conn = d, job[s].pc \in {"added", "release"}, job'[s] = job[s]
      PROVE  \E q \in Requests : job'[q].conn = d /\ job'[q].pc \in {"added", "release"}
  BY <1>2
<1>3. ASSUME sendLoop[d] \in {"wait", "send"}, available[d] = 0, queue[d] # <<>>
      PROVE  \E s \in Requests : job[s].conn = d /\ job[s].pc \in {"added", "release"}
  BY <1>3 DEF SomeoneWakes
<1>4. ASSUME NEW c \in Conns, SendLoop(c)
      PROVE  \E s \in Requests : job'[s].conn = d /\ job'[s].pc \in {"added", "release"}
  <2>1. job' = job
    BY <1>4 DEF SendLoop, Wait, Dequeue, Send, SendFails
  <2>2. sendLoop[d] \in {"wait", "send"} /\ available[d] = 0 /\ queue[d] # <<>>
    <3>1. CASE Wait(c)
      BY <1>1, <3>1 DEF Wait
    <3>2. CASE Dequeue(c)
      BY <1>1, <3>2 DEF Dequeue
    <3>3. CASE Send(c)
      BY <1>1, <3>3 DEF Send
    <3>4. CASE SendFails(c)
      BY <1>1, <3>4 DEF SendFails
    <3> QED BY <1>4, <3>1, <3>2, <3>3, <3>4 DEF SendLoop
  <2> QED BY <1>3, <2>1, <2>2
<1>5. ASSUME NEW c \in Conns, ReceiveLoop(c)
      PROVE  \E s \in Requests : job'[s].conn = d /\ job'[s].pc \in {"added", "release"}
  <2>1. sendLoop[d] \in {"wait", "send"} /\ available[d] = 0 /\ queue[d] # <<>>
    BY <1>1, <1>5 DEF ReceiveLoop, ReadRequest, ReadClose, ReadFails, CloseQueue, CloseSemaphore
  <2>2. PICK s \in Requests : job[s].conn = d /\ job[s].pc \in {"added", "release"}
    BY <1>3, <2>1
  <2>3. job'[s] = job[s]
    <3>1. CASE ReadRequest(c)
      <4>1. Head(toHost[c]) # s
        BY <2>2, <3>1, ReadsNew
      <4> QED BY <1>1, <3>1, <4>1 DEF ReadRequest
    <3>2. CASE ~ReadRequest(c)
      BY <1>5, <3>2 DEF ReceiveLoop, ReadClose, ReadFails
    <3> QED BY <3>1, <3>2
  <2> QED BY <1>2, <2>2, <2>3
<1>6. ASSUME NEW s \in Requests, SendMessage(s)
      PROVE  \E q \in Requests : job'[q].conn = d /\ job'[q].pc \in {"added", "release"}
  <2>1. /\ job[s].pc \in {"send", "added", "release"} /\ sendLoop' = sendLoop
        /\ \A r \in Requests : r # s => job'[r] = job[r]
    BY <1>1, <1>6 DEF SendMessage, AddTail, TestAvailable, Release, Finish, Fail, OnReceiveFails
  <2>2. job[s].conn \in Conns
    BY <2>1, JobConn
  <2>3. CASE AddTail(s)
    <3>1. available' = available
      BY <2>3 DEF AddTail
    <3>2. CASE queue'[d] = queue[d]
      <4>1. PICK q \in Requests : job[q].conn = d /\ job[q].pc \in {"added", "release"}
        BY <1>3, <2>1, <3>1, <3>2
      <4>2. q # s
        BY <2>3, <4>1 DEF AddTail
      <4> QED BY <1>2, <2>1, <4>1, <4>2
    <3>3. CASE queue'[d] # queue[d]
      <4>1. d = job[s].conn /\ job' = [job EXCEPT ![s].pc = "added"]
        BY <1>1, <2>3, <3>3 DEF AddTail
      <4>2. job'[s].conn = d /\ job'[s].pc = "added"
        BY <1>1, <4>1 DEF Job
      <4> QED BY <4>2
    <3> QED BY <3>2, <3>3
  <2>4. CASE TestAvailable(s)
    <3>1. queue' = queue /\ available' = available
      BY <2>4 DEF TestAvailable
    <3>2. PICK q \in Requests : job[q].conn = d /\ job[q].pc \in {"added", "release"}
      BY <1>3, <2>1, <3>1
    <3>3. CASE q # s
      BY <1>2, <2>1, <3>2, <3>3
    <3>4. CASE q = s
      <4>1. job' = [job EXCEPT ![s].pc = "release"]
        BY <2>4, <3>1, <3>2, <3>4 DEF TestAvailable, MustRelease
      <4>2. job'[s].conn = d /\ job'[s].pc = "release"
        BY <1>1, <3>2, <3>4, <4>1 DEF Job
      <4> QED BY <4>2
    <3> QED BY <3>3, <3>4
  <2>5. CASE Release(s)
    <3>1. queue' = queue /\ available' = [available EXCEPT ![job[s].conn] = 1]
      BY <2>5 DEF Release
    <3>2. d # job[s].conn /\ available[d] = 0
      BY <1>1, <3>1
    <3>3. PICK q \in Requests : job[q].conn = d /\ job[q].pc \in {"added", "release"}
      BY <1>3, <2>1, <3>1, <3>2
    <3> QED BY <1>2, <2>1, <3>2, <3>3
  <2> QED BY <1>6, <2>3, <2>4, <2>5 DEF SendMessage
<1> QED BY <1>4, <1>5, <1>6 DEF HostNext

-----------------------------------------------------------------------------
(* The client                                                              *)

\* A step of the client opens a connection, starts to close it or breaks it.
LEMMA ClientState ==
  ASSUME TypeOK, Connects, ClientNext
  PROVE  \/ state' = state
         \/ \E c \in Conns : /\ state[c] \notin {"closed", "broken"}
                             /\ state' = [state EXCEPT ![c] = "open"]
                                \/ state' = [state EXCEPT ![c] = "closing"]
                                \/ state' = [state EXCEPT ![c] = "broken"]
<1>1. ASSUME NEW r \in Requests, ExecuteRequest(r)
      PROVE  \/ state' = state
             \/ \E c \in Conns : state[c] = "none" /\ state' = [state EXCEPT ![c] = "open"]
  <2>1. CASE OpenSocket(r)
    <3>1. conn[r] \in Conns /\ state[conn[r]] = "none"
      BY <2>1, ConnOf DEF OpenSocket, Connects
    <3> QED BY <2>1, <3>1 DEF OpenSocket
  <2>2. CASE ~OpenSocket(r)
    BY <1>1, <2>2 DEF ExecuteRequest, GetConnection, JoinConnects, ConnectFails, EndConnect, AddRequest,
                      AwaitSendLock, SendRequest, SendRequestFails, channelVars
  <2> QED BY <2>1, <2>2
<1>2. ASSUME NEW c \in Conns, ClientReceiveLoop(c)
      PROVE  state' = state
  BY <1>2 DEF ClientReceiveLoop, CheckSocket, OnReceive, ReceiveFails, ReceiveClosed, CancelRequests,
              channelVars
<1>3. ASSUME NEW c \in Conns, CloseClient(c) \/ Break(c)
      PROVE  \/ state' = state
             \/ /\ state[c] \notin {"closed", "broken"}
                /\ state' = [state EXCEPT ![c] = "closing"] \/ state' = [state EXCEPT ![c] = "broken"]
  BY <1>3 DEF CloseClient, Break, Connected, channelVars
<1> QED BY <1>1, <1>2, <1>3 DEF ClientNext

\* The host does not move.
LEMMA SendLoopsClient ==
  ASSUME TypeOK, SendLoops, Connects, ClientNext, UNCHANGED hostVars
  PROVE  SendLoops'
<1>1. /\ UNCHANGED <<queue, closed, sendLoop, batch, isLast>>
      /\ state \in [Conns -> {"none", "open", "closing", "closed", "broken"}]
  BY DEF hostVars, TypeOK
<1>2. \A c \in Conns : /\ state[c] \in {"closed", "broken"} => state'[c] = state[c]
                       /\ state'[c] = "none" => state[c] = "none"
  BY <1>1, ClientState
<1> QED BY <1>1, <1>2 DEF SendLoops

\* A request creates a connection with the next number, and only who creates it opens it.
LEMMA ConnectsRequest ==
  ASSUME TypeOK, Connects, NEW r \in Requests, ExecuteRequest(r)
  PROVE  Connects'
<1>1. /\ wsConnection \in Nat /\ connectTask \in Nat /\ created \in Nat
      /\ conn \in [Requests -> Nat] /\ MaxConns \in Nat
      /\ pc \in [Requests -> {"start", "connect", "join", "connecting", "connected", "add", "lock",
                              "send", "wait", "done"}]
      /\ state \in [Conns -> {"none", "open", "closing", "closed", "broken"}]
  BY MaxConnsAssumption DEF TypeOK, ClientTypeOK
<1>2. CASE GetConnection(r)
  <2>1. /\ UNCHANGED <<wsConnection, connectTask, created, state>> /\ pc[r] = "start"
        /\ \/ /\ wsConnection # 0 /\ conn' = [conn EXCEPT ![r] = wsConnection]
              /\ pc' = [pc EXCEPT ![r] = "add"]
           \/ conn' = conn /\ pc' = [pc EXCEPT ![r] = "connect"]
    BY <1>2 DEF GetConnection, Goto, connectVars, channelVars
  <2> QED BY <1>1, <2>1 DEF Connects
<1>3. CASE JoinConnects(r)
  <2>1. CASE connectTask # 0
    <3>1. /\ UNCHANGED <<wsConnection, connectTask, created, state>> /\ pc[r] = "connect"
          /\ conn' = [conn EXCEPT ![r] = connectTask] /\ pc' = [pc EXCEPT ![r] = "join"]
      BY <1>3, <2>1 DEF JoinConnects, Goto, connectVars, channelVars
    <3> QED BY <1>1, <2>1, <3>1 DEF Connects
  <2>2. CASE connectTask = 0
    <3>1. /\ created < MaxConns /\ created' = created + 1
          /\ wsConnection' = created + 1 /\ connectTask' = created + 1 /\ state' = state
          /\ pc[r] = "connect"
          /\ conn' = [conn EXCEPT ![r] = created + 1] /\ pc' = [pc EXCEPT ![r] = "connecting"]
      BY <1>3, <2>2 DEF JoinConnects, Goto, connectVars, channelVars
    <3>2. created + 1 \in Conns /\ state[created + 1] = "none"
      <4>1. created + 1 \in Conns
        BY <1>1, <3>1 DEF Conns
      <4> QED BY <1>1, <4>1 DEF Connects
    <3>3. \A q \in Requests : q # r => conn'[q] = conn[q] /\ pc'[q] = pc[q]
      BY <1>1, <3>1
    <3>4. conn'[r] = created + 1 /\ pc'[r] = "connecting"
      BY <1>1, <3>1
    <3>5. \A c \in Conns : c > created' => state'[c] = "none"
      <4>1. \A c \in Conns : c \in Nat
        BY DEF Conns
      <4> QED BY <1>1, <3>1, <4>1 DEF Connects
    <3>6. \A q \in Requests :
            /\ conn'[q] <= created'
            /\ pc'[q] \notin {"start", "connect"} => conn'[q] # 0
            /\ pc'[q] = "connecting" => state'[conn'[q]] = "none"
            /\ pc'[q] = "wait" => state'[conn'[q]] # "none"
      BY <1>1, <3>1, <3>2, <3>3, <3>4 DEF Connects
    <3>7. \A p, q \in Requests :
            pc'[p] = "connecting" /\ pc'[q] = "connecting" /\ conn'[p] = conn'[q] => p = q
      <4>1. \A q \in Requests : q # r => conn'[q] # created + 1
        BY <1>1, <3>3 DEF Connects
      <4> QED BY <3>3, <3>4, <4>1 DEF Connects
    <3> QED BY <1>1, <3>1, <3>5, <3>6, <3>7 DEF Connects
  <2> QED BY <2>1, <2>2
<1>4. CASE OpenSocket(r)
  <2>1. /\ UNCHANGED <<wsConnection, connectTask, created, conn>> /\ pc[r] = "connecting"
        /\ pc' = [pc EXCEPT ![r] = "connected"] /\ state' = [state EXCEPT ![conn[r]] = "open"]
    BY <1>4 DEF OpenSocket, Goto, connectVars
  <2>2. conn[r] \in Conns /\ conn[r] \in Nat /\ conn[r] <= created
    BY <1>1, <2>1, ConnOf DEF Connects
  <2>3. \A q \in Requests : pc'[q] = "connecting" => q # r /\ pc[q] = "connecting" /\ conn[q] # conn[r]
    BY <1>1, <2>1 DEF Connects
  <2>4. \A q \in Requests : pc'[q] \notin {"start", "connect"} => pc[q] \notin {"start", "connect"}
    BY <1>1, <2>1
  <2>5. \A q \in Requests : pc[q] \notin {"start", "connect"} => conn[q] \in Conns
    BY ConnOf
  <2>6. \A c \in Conns : c > created => c # conn[r]
    BY <1>1, <2>2
  <2>7. \A c \in Conns : c # conn[r] => state'[c] = state[c]
    BY <1>1, <2>1
  <2>8. state'[conn[r]] = "open"
    BY <1>1, <2>1, <2>2
  <2>9. \A c \in Conns : c > created' => state'[c] = "none"
    BY <2>1, <2>6, <2>7 DEF Connects
  <2>10. \A q \in Requests : pc'[q] = "connecting" => state'[conn'[q]] = "none"
    BY <1>1, <2>1, <2>3, <2>5, <2>7 DEF Connects
  <2>11. \A q \in Requests : pc'[q] = "wait" => state'[conn'[q]] # "none"
    BY <1>1, <2>1, <2>4, <2>5, <2>7, <2>8 DEF Connects
  <2>12. \A q \in Requests : /\ conn'[q] <= created'
                             /\ pc'[q] \notin {"start", "connect"} => conn'[q] # 0
    BY <2>1, <2>4 DEF Connects
  <2>13. \A p, q \in Requests :
           pc'[p] = "connecting" /\ pc'[q] = "connecting" /\ conn'[p] = conn'[q] => p = q
    BY <2>1, <2>3 DEF Connects
  <2> QED BY <2>1, <2>9, <2>10, <2>11, <2>12, <2>13 DEF Connects
<1>5. CASE ConnectFails(r) \/ EndConnect(r)
  <2>1. /\ UNCHANGED <<wsConnection, created, conn, state>> /\ connectTask' = 0
        /\ \A q \in Requests : pc'[q] = pc[q] \/ (pc'[q] \in {"done", "add"} /\ (q = r \/ pc[q] = "join"))
        /\ pc[r] \in {"connecting", "connected"}
    BY <1>5 DEF ConnectFails, EndConnect, channelVars
  <2> QED BY <1>1, <2>1 DEF Connects
<1>6. CASE AddRequest(r) \/ AwaitSendLock(r) \/ SendRequestFails(r)
  <2>1. /\ UNCHANGED <<wsConnection, connectTask, created, conn, state>>
        /\ pc[r] \in {"add", "lock", "send"}
        /\ \/ pc' = [pc EXCEPT ![r] = "lock"] \/ pc' = [pc EXCEPT ![r] = "send"]
           \/ pc' = [pc EXCEPT ![r] = "done"]
    BY <1>6 DEF AddRequest, AwaitSendLock, SendRequestFails, Goto, connectVars, channelVars
  <2> QED BY <1>1, <2>1 DEF Connects
<1>7. CASE SendRequest(r)
  <2>1. /\ UNCHANGED <<wsConnection, connectTask, created, conn, state>>
        /\ pc[r] = "send" /\ state[conn[r]] = "open" /\ pc' = [pc EXCEPT ![r] = "wait"]
    BY <1>7 DEF SendRequest, Goto, connectVars
  <2> QED BY <1>1, <2>1 DEF Connects
<1> QED BY <1>2, <1>3, <1>4, <1>5, <1>6, <1>7 DEF ExecuteRequest

\* Faults do not take a connection back.
LEMMA ConnectsConnection ==
  ASSUME TypeOK, Connects, NEW c \in Conns, ClientReceiveLoop(c) \/ CloseClient(c) \/ Break(c)
  PROVE  Connects'
<1>1. /\ state \in [Conns -> {"none", "open", "closing", "closed", "broken"}]
      /\ created \in Nat
  BY DEF TypeOK, ClientTypeOK
<1>2. /\ UNCHANGED <<connectTask, created, pc, conn>>
      /\ wsConnection' = wsConnection \/ wsConnection' = 0
      /\ \/ state' = state
         \/ /\ state[c] # "none"
            /\ state' = [state EXCEPT ![c] = "closing"] \/ state' = [state EXCEPT ![c] = "broken"]
  BY DEF ClientReceiveLoop, CheckSocket, OnReceive, ReceiveFails, ReceiveClosed, CancelRequests,
         CloseClient, Break, Connected, connectVars, channelVars, clientVars
<1>3. \A d : d \in Conns => (state'[d] = "none" <=> state[d] = "none")
  BY <1>1, <1>2
<1>4. \A r \in Requests : pc[r] \notin {"start", "connect"} => conn[r] \in Conns
  BY ConnOf
<1> QED BY <1>1, <1>2, <1>3, <1>4 DEF Connects

\* A request is sent when it is nowhere yet.
LEMMA SentOnceSend ==
  ASSUME TypeOK, Connects, SentOnce, NEW r \in Requests, SendRequest(r), UNCHANGED hostVars
  PROVE  /\ SentOnce'
         /\ \A q \in Requests, c \in Conns :
              Occurrences(q, toHost'[c]) = Occurrences(q, toHost[c]) + (IF q = r /\ c = conn[r] THEN 1 ELSE 0)
<1>1. /\ toHost \in [Conns -> Seq(Requests \cup {CloseFrame})]
      /\ pc \in [Requests -> {"start", "connect", "join", "connecting", "connected", "add", "lock",
                              "send", "wait", "done"}]
  BY DEF TypeOK, ClientTypeOK
<1>2. /\ pc[r] = "send" /\ conn[r] \in Conns /\ conn' = conn /\ pc' = [pc EXCEPT ![r] = "wait"]
      /\ toHost' = [toHost EXCEPT ![conn[r]] = Append(toHost[conn[r]], r)]
      /\ UNCHANGED <<job, queue, batch, toClient>>
  BY ConnOf DEF SendRequest, Goto, hostVars
<1>3. ASSUME NEW q \in Requests, NEW c \in Conns
      PROVE  Occurrences(q, toHost'[c]) = Occurrences(q, toHost[c]) + (IF q = r /\ c = conn[r] THEN 1 ELSE 0)
  <2>1. CASE c = conn[r]
    <3>1. toHost[c] \in Seq(Requests \cup {CloseFrame}) /\ r \in Requests \cup {CloseFrame}
      BY <1>1
    <3>2. Occurrences(q, Append(toHost[c], r)) = Occurrences(q, toHost[c]) + (IF r = q THEN 1 ELSE 0)
      BY <3>1, OccurrencesAppend
    <3>3. toHost'[c] = Append(toHost[c], r)
      BY <1>1, <1>2, <2>1
    <3> QED BY <2>1, <3>2, <3>3
  <2>2. CASE c # conn[r]
    <3>1. toHost'[c] = toHost[c] /\ Occurrences(q, toHost[c]) \in Nat
      BY <1>1, <1>2, <2>2, OccurrencesTypes
    <3> QED BY <2>2, <3>1
  <2> QED BY <2>1, <2>2
<1>4. \A q \in Requests, c \in Conns : AtHost(q, c)' = AtHost(q, c)
  BY <1>2 DEF AtHost
<1>5. \A q \in Requests : q # r => pc'[q] = pc[q]
  BY <1>1, <1>2
<1>6. pc'[r] = "wait" /\ job[r].pc = "none" /\ \A c \in Conns : Occurrences(r, toHost[c]) = 0
  <2>1. \A c \in Conns : Occurrences(r, toHost[c]) \in Nat
    BY OccurrencesTypes
  <2>2. \A c \in Conns : Occurrences(r, toHost[c]) <= 1 /\ Occurrences(r, toHost[c]) # 1
    BY <1>2 DEF SentOnce
  <2> QED BY <1>1, <1>2, <2>1, <2>2 DEF SentOnce
<1>7. ASSUME NEW q \in Requests, NEW c \in Conns
      PROVE  /\ Occurrences(q, toHost'[c]) <= 1
             /\ Occurrences(q, toHost'[c]) = 1 => c = conn[q] /\ pc'[q] = "wait" /\ job[q].pc = "none"
             /\ AtHost(q, c)' # 0 => c = conn[q] /\ job[q].pc # "none"
  <2>1. CASE q = r
    <3>1. Occurrences(q, toHost'[c]) = 0 + (IF c = conn[r] THEN 1 ELSE 0)
      BY <1>3, <1>6, <2>1
    <3>2. AtHost(q, c)' # 0 => c = conn[q] /\ job[q].pc # "none"
      BY <1>4 DEF SentOnce
    <3> QED BY <1>6, <2>1, <3>1, <3>2
  <2>2. CASE q # r
    <3>1. Occurrences(q, toHost[c]) \in Nat
      BY OccurrencesTypes
    <3>2. Occurrences(q, toHost'[c]) = Occurrences(q, toHost[c])
      BY <1>3, <2>2, <3>1
    <3> QED BY <1>4, <1>5, <2>2, <3>2 DEF SentOnce
  <2> QED BY <2>1, <2>2
<1>8. \A q \in Requests : job[q].pc # "none" => job[q].conn = conn[q] /\ pc'[q] = "wait"
  BY <1>5, <1>6 DEF SentOnce
<1>9. SentOnce'
  BY <1>2, <1>7, <1>8 DEF SentOnce
<1> QED BY <1>3, <1>9

\* The other steps of a client send nothing and only take responses.
LEMMA SentOnceClient ==
  ASSUME TypeOK, Connects, SentOnce, ClientNext, UNCHANGED hostVars, TypeOK'
  PROVE  SentOnce'
<1>1. /\ UNCHANGED <<job, queue, batch>>
      /\ toHost \in [Conns -> Seq(Requests \cup {CloseFrame})]
      /\ toClient \in [Conns -> Seq(Requests \cup {None})]
      /\ pc \in [Requests -> {"start", "connect", "join", "connecting", "connected", "add", "lock",
                              "send", "wait", "done"}]
      /\ conn \in [Requests -> 0 .. MaxConns]
  BY DEF hostVars, TypeOK, ClientTypeOK
<1>2. ASSUME NEW r \in Requests, ExecuteRequest(r)
      PROVE  SentOnce'
  <2>1. CASE SendRequest(r)
    BY <2>1, SentOnceSend
  <2>2. CASE ~SendRequest(r)
    <3>1. toHost' = toHost /\ toClient' = toClient
      BY <1>2, <2>2 DEF ExecuteRequest, GetConnection, JoinConnects, OpenSocket, ConnectFails, EndConnect,
                        AddRequest, AwaitSendLock, SendRequestFails, channelVars
    <3>2. ASSUME NEW q \in Requests, pc[q] = "wait"
          PROVE  pc'[q] = "wait" /\ conn'[q] = conn[q]
      BY <1>1, <1>2, <2>2, <3>2 DEF ExecuteRequest, GetConnection, JoinConnects, OpenSocket, ConnectFails,
           EndConnect, AddRequest, AwaitSendLock, SendRequestFails, Goto
    <3>3. \A q \in Requests, c \in Conns : AtHost(q, c)' = AtHost(q, c)
      BY <1>1, <3>1 DEF AtHost
    <3> QED BY <1>1, <3>1, <3>2, <3>3, SentOnceKept
  <2> QED BY <2>1, <2>2
<1>3. ASSUME NEW c \in Conns, ClientReceiveLoop(c) \/ CloseClient(c) \/ Break(c)
      PROVE  SentOnce'
  <2>1. pc' = pc /\ conn' = conn
    BY <1>3 DEF ClientReceiveLoop, CheckSocket, OnReceive, ReceiveFails, ReceiveClosed, CancelRequests,
                CloseClient, Break, clientVars
  <2>2. /\ \/ toHost' = toHost \/ toHost' = [toHost EXCEPT ![c] = <<>>]
           \/ toHost' = [toHost EXCEPT ![c] = Append(toHost[c], CloseFrame)]
        /\ \/ toClient' = toClient \/ toClient' = [toClient EXCEPT ![c] = <<>>]
           \/ toClient[c] # <<>> /\ toClient' = [toClient EXCEPT ![c] = Tail(toClient[c])]
    BY <1>3 DEF ClientReceiveLoop, CheckSocket, OnReceive, ReceiveFails, ReceiveClosed, CancelRequests,
                CloseClient, Break, channelVars
  <2>3. ASSUME NEW q \in Requests, NEW d \in Conns
        PROVE  Occurrences(q, toHost'[d]) \in {0, Occurrences(q, toHost[d])}
    <3>1. /\ toHost[d] \in Seq(Requests \cup {CloseFrame})
          /\ \/ toHost'[d] = toHost[d] \/ toHost'[d] = <<>>
             \/ toHost'[d] = Append(toHost[d], CloseFrame)
      BY <1>1, <2>2
    <3>2. Occurrences(q, Append(toHost[d], CloseFrame)) = Occurrences(q, toHost[d]) + (IF CloseFrame = q THEN 1 ELSE 0)
      BY <3>1, OccurrencesAppend
    <3>3. CloseFrame # q /\ Occurrences(q, toHost[d]) \in Nat
      BY RequestsAssumption, OccurrencesTypes
    <3>4. CASE toHost'[d] = toHost[d]
      BY <3>4
    <3>5. CASE toHost'[d] = <<>>
      BY <3>5, OccurrencesEmpty
    <3>6. CASE toHost'[d] = Append(toHost[d], CloseFrame)
      BY <3>2, <3>3, <3>6
    <3> QED BY <3>1, <3>4, <3>5, <3>6
  <2>4. ASSUME NEW q \in Requests, NEW d \in Conns, AtHost(q, d)' # 0
        PROVE  AtHost(q, d) # 0
    <3>1. /\ toClient[d] \in Seq(Requests \cup {None})
          /\ \/ toClient'[d] = toClient[d] \/ toClient'[d] = <<>>
             \/ toClient[d] # <<>> /\ toClient'[d] = Tail(toClient[d])
      BY <1>1, <2>2
    <3>2. toClient[d] # <<>> =>
            Occurrences(q, toClient[d]) = Occurrences(q, Tail(toClient[d])) + (IF Head(toClient[d]) = q THEN 1 ELSE 0)
      BY <3>1, OccurrencesTail
    <3>3. /\ Occurrences(q, queue[d]) \in Nat /\ Occurrences(q, batch[d]) \in Nat
          /\ Occurrences(q, toClient[d]) \in Nat /\ Occurrences(q, toClient'[d]) \in Nat
      BY OccurrencesTypes, OccurrencesTypesNext
    <3>4. Occurrences(q, toClient'[d]) <= Occurrences(q, toClient[d])
      BY <3>1, <3>2, <3>3, OccurrencesEmpty
    <3>5. AtHost(q, d)' = Occurrences(q, queue[d]) + Occurrences(q, batch[d]) + Occurrences(q, toClient'[d])
      BY <1>1, AtHostNext
    <3>6. AtHost(q, d) = Occurrences(q, queue[d]) + Occurrences(q, batch[d]) + Occurrences(q, toClient[d])
      BY DEF AtHost
    <3>7. AtHost(q, d)' <= AtHost(q, d) /\ AtHost(q, d)' \in Nat /\ AtHost(q, d) \in Nat
      BY <3>3, <3>4, <3>5, <3>6
    <3> QED BY <2>4, <3>7
  <2> QED BY <1>1, <2>1, <2>3, <2>4, SentOnceKept
<1> QED BY <1>2, <1>3 DEF ClientNext

-----------------------------------------------------------------------------
(* Host and client                                                         *)

\* Nobody is connected at the start.
LEMMA InitInv == Init => Inv
<1> SUFFICES ASSUME Init PROVE Inv
  OBVIOUS
<1>1. SendLoops
  BY DEF Init, HostInit, ChannelInit, SendLoops
<1>2. Connects
  BY DEF Init, ClientInit, ChannelInit, Connects
<1>3. SomeoneWakes
  BY DEF Init, HostInit, SomeoneWakes
<1> QED BY <1>1, <1>2, <1>3, TypeInit, SentOnceInit DEF Inv

\* Every step keeps the invariant.
LEMMA NextInv == Inv /\ [Next]_vars => Inv'
<1> SUFFICES ASSUME Inv, [Next]_vars PROVE Inv'
  OBVIOUS
<1>1. TypeOK /\ SendLoops /\ Connects /\ SentOnce /\ SomeoneWakes
  BY DEF Inv
<1>2. CASE HostNext /\ UNCHANGED clientVars
  <2>1. TypeOK'
    BY <1>1, <1>2, TypeHost DEF TypeOK, ChannelTypeOK
  <2> QED BY <1>1, <1>2, <2>1, SendLoopsHost, ConnectsHost, SentOnceHost, SomeoneWakesHost DEF Inv
<1>3. CASE ClientNext /\ UNCHANGED hostVars
  <2>1. TypeOK'
    BY <1>1, <1>3, TypeRequest, TypeConnection DEF ClientNext, TypeOK, ChannelTypeOK
  <2>2. Connects'
    BY <1>1, <1>3, ConnectsRequest, ConnectsConnection DEF ClientNext
  <2>3. SomeoneWakes'
    BY <1>1, <1>3 DEF SomeoneWakes, hostVars
  <2> QED BY <1>1, <1>3, <2>1, <2>2, <2>3, SendLoopsClient, SentOnceClient DEF Inv
<1>4. CASE UNCHANGED vars
  <2>1. UNCHANGED <<channelVars, hostVars, clientVars>>
    BY <1>4 DEF vars
  <2>2. TypeOK'
    BY <1>1, <2>1 DEF TypeOK, HostTypeOK, ClientTypeOK, channelVars, hostVars, clientVars
  <2>3. SendLoops' /\ Connects' /\ SomeoneWakes'
    BY <1>1, <2>1 DEF SendLoops, Connects, SomeoneWakes, channelVars, hostVars, clientVars
  <2>4. SentOnce'
    BY <1>1, <2>1 DEF SentOnce, AtHost, channelVars, hostVars, clientVars
  <2> QED BY <2>2, <2>3, <2>4 DEF Inv
<1> QED BY <1>2, <1>3, <1>4 DEF Next

\* The invariant holds of every behaviour, fair or not.
LEMMA InvCorrect == FairSpec => []Inv
BY InitInv, NextInv, PTL DEF FairSpec

\* Sockets, queues, requests and jobs keep their types; an execution writes at most
\* three responses.
THEOREM TypeCorrect == FairSpec => []TypeOK
<1>1. Inv => TypeOK
  BY DEF Inv
<1> QED BY <1>1, InvCorrect, PTL

\* Whenever the send loop of the host waits and messages are queued, the semaphore can
\* be taken or somebody is about to release it, whatever senders, the send loop and
\* Close() do in between.
THEOREM NoLostWakeupCorrect == FairSpec => []NoLostWakeup
<1>1. Inv => NoLostWakeup
  BY DEF Inv, SomeoneWakes, NoLostWakeup
<1> QED BY <1>1, InvCorrect, PTL
-----------------------------------------------------------------------------
(* One answer: the host                                                    *)

\* The answers in the next state.
LEMMA AnswersOnNext ==
  ASSUME NEW r, NEW c
  PROVE  AnswersOn(r, c)' = Occurrences(r, toHost'[c]) + (IF job'[r].pc = "send" THEN 1 ELSE 0) + AtHost(r, c)'
BY DEF AnswersOn, Occurrences

\* Answers are counted per connection.
LEMMA AnswersOnConn ==
  ASSUME TypeOK, Connects, NEW r \in Requests, pc[r] = "wait"
  PROVE  conn[r] \in Conns /\ Answers(r) = AnswersOn(r, conn[r])
<1>1. conn[r] \in Conns
  BY ConnOf
<1> DEFINE c == conn[r]
           executed == IF job[r].pc = "send" THEN 1 ELSE 0
<1>2. /\ Occurrences(r, toHost[c]) \in Nat /\ Occurrences(r, queue[c]) \in Nat
      /\ Occurrences(r, batch[c]) \in Nat /\ Occurrences(r, toClient[c]) \in Nat
  BY <1>1, OccurrencesTypes
<1>3. executed \in Nat
  OBVIOUS
<1>4. /\ Answers(r) = Occurrences(r, toHost[c]) + executed + Occurrences(r, queue[c])
                        + Occurrences(r, batch[c]) + Occurrences(r, toClient[c])
      /\ AnswersOn(r, c) = Occurrences(r, toHost[c]) + executed
           + (Occurrences(r, queue[c]) + Occurrences(r, batch[c]) + Occurrences(r, toClient[c]))
  BY DEF Answers, AnswersOn, AtHost
<1> HIDE DEF c, executed
<1>5. Answers(r) = AnswersOn(r, c)
  BY <1>2, <1>3, <1>4
<1> QED BY <1>1, <1>5 DEF c

\* While nothing races, a message that is queued names its request.
LEMMA CalmMessage ==
  ASSUME TypeOK, CalmConnections, calm, NEW s \in Requests
  PROVE  Message(s) = s
BY DEF CalmConnections, Message, TypeOK, HostTypeOK, Job

\* Queueing a response.
LEMMA AddTailAdds ==
  ASSUME TypeOK, Connects, SentOnce, NEW s \in Requests, AddTail(s), NEW x, NEW d \in Conns
  PROVE  /\ job[s].conn \in Conns
         /\ AtHost(x, d)' = AtHost(x, d)
              + (IF d = job[s].conn /\ ~closed[d] /\ Message(s) = x THEN 1 ELSE 0)
<1>1. /\ queue \in [Conns -> Seq(Requests \cup {None})] /\ job[s].pc # "none"
      /\ UNCHANGED <<batch, toClient>>
  BY DEF TypeOK, HostTypeOK, AddTail, channelVars
<1>2. job[s].conn \in Conns
  BY <1>1, JobConn
<1>3. /\ Occurrences(x, queue[d]) \in Nat /\ Occurrences(x, batch[d]) \in Nat
      /\ Occurrences(x, toClient[d]) \in Nat /\ AtHost(x, d) \in Nat
  BY OccurrencesTypes
<1>4. CASE d = job[s].conn /\ ~closed[d]
  <2>1. queue'[d] = Append(queue[d], Message(s)) /\ Message(s) \in Requests \cup {None}
    BY <1>1, <1>4 DEF AddTail, Message
  <2>2. Occurrences(x, queue'[d]) = Occurrences(x, queue[d]) + (IF Message(s) = x THEN 1 ELSE 0)
    <3>1. queue[d] \in Seq(Requests \cup {None})
      BY <1>1
    <3>2. Occurrences(x, Append(queue[d], Message(s)))
            = Occurrences(x, queue[d]) + (IF Message(s) = x THEN 1 ELSE 0)
      BY <2>1, <3>1, OccurrencesAppend
    <3> QED BY <2>1, <3>2
  <2>3. CASE Message(s) = x
    <3>1. Occurrences(x, queue'[d]) = Occurrences(x, queue[d]) + 1
      BY <2>2, <2>3
    <3> QED BY <1>1, <1>2, <1>3, <1>4, <2>3, <3>1, AtHostNext DEF AtHost
  <2>4. CASE Message(s) # x
    <3>1. Occurrences(x, queue'[d]) = Occurrences(x, queue[d])
      BY <1>3, <2>2, <2>4
    <3> QED BY <1>1, <1>2, <1>3, <1>4, <2>4, <3>1, AtHostNext DEF AtHost
  <2> QED BY <2>3, <2>4
<1>5. CASE ~(d = job[s].conn /\ ~closed[d])
  <2>1. queue'[d] = queue[d]
    BY <1>1, <1>2, <1>5 DEF AddTail
  <2>2. AtHost(x, d)' = AtHost(x, d)
    BY <1>1, <2>1, AtHostNext DEF AtHost
  <2>3. ~(d = job[s].conn /\ ~closed[d] /\ Message(s) = x)
    BY <1>5
  <2>4. AtHost(x, d)' = AtHost(x, d) + 0
    BY <1>3, <2>2
  <2> QED BY <1>2, <2>3, <2>4
<1> QED BY <1>4, <1>5

\* As long as the connection of a request is open and nothing races, no step of the host
\* loses or adds an answer to it.
LEMMA AnswersHost ==
  ASSUME Inv, TypeOK', CalmConnections, HostNext, calm, calm',
         NEW r \in Requests, NEW c \in Conns, pc[r] = "wait", conn[r] = c, state'[c] = "open"
  PROVE  state[c] = "open" /\ AnswersOn(r, c)' = AnswersOn(r, c)
<1>1. TypeOK /\ SendLoops /\ Connects /\ SentOnce
  BY DEF Inv
<1>2. /\ state \in [Conns -> {"none", "open", "closing", "closed", "broken"}]
      /\ toHost \in [Conns -> Seq(Requests \cup {CloseFrame})] /\ job \in [Requests -> Job]
  BY <1>1 DEF TypeOK, HostTypeOK
<1>3. state[c] = "open"
  BY <1>1, <1>2, HostState DEF Connected
<1>4. ~closed[c]
  BY <1>1, <1>3 DEF SendLoops
<1>5. Occurrences(r, toHost[c]) \in Nat /\ AtHost(r, c) \in Nat
  BY <1>1, OccurrencesTypes
<1>6. CASE /\ toHost'[c] = toHost[c]
           /\ job'[r].pc = "send" <=> job[r].pc = "send"
           /\ AtHost(r, c)' = AtHost(r, c)
  BY <1>3, <1>6, AnswersOnNext DEF AnswersOn
<1>7. ASSUME NEW d \in Conns, SendLoop(d)
      PROVE  AnswersOn(r, c)' = AnswersOn(r, c)
  <2>1. toHost' = toHost /\ job' = job
    BY <1>7 DEF SendLoop, Wait, Dequeue, Send, SendFails, channelVars
  <2>2. AtHost(r, c)' = AtHost(r, c)
    BY <1>1, <1>3, <1>7, SendLoopKeeps
  <2> QED BY <1>6, <2>1, <2>2
<1>8. ASSUME NEW d \in Conns, ReceiveLoop(d)
      PROVE  AnswersOn(r, c)' = AnswersOn(r, c)
  <2>1. AtHost(r, c)' = AtHost(r, c)
    BY <1>8 DEF ReceiveLoop, ReadRequest, ReadClose, ReadFails, channelVars, AtHost
  <2>2. CASE ReadRequest(d)
    <3> DEFINE m == Head(toHost[d])
    <3>1. m \in Requests /\ d = conn[m] /\ job[m].pc = "none"
      BY <1>1, <2>2, ReadsNew
    <3>2. Occurrences(r, toHost[c]) = Occurrences(r, toHost'[c]) + (IF c = d /\ m = r THEN 1 ELSE 0)
      BY <1>1, <2>2, ReadTakes
    <3>3. Occurrences(r, toHost'[c]) \in Nat
      BY OccurrencesTypesNext
    <3>4. job' = [job EXCEPT ![m] = [pc |-> "send", conn |-> d, sync |-> m \in SyncRequests, attempt |-> 1]]
      BY <2>2 DEF ReadRequest
    <3> HIDE DEF m
    <3>5. CASE m = r
      <4>1. job'[r].pc = "send" /\ job[r].pc # "send" /\ c = d
        BY <1>2, <3>1, <3>4, <3>5
      <4>2. /\ Occurrences(r, toHost[c]) = Occurrences(r, toHost'[c]) + 1
            /\ AnswersOn(r, c)' = Occurrences(r, toHost'[c]) + 1 + AtHost(r, c)'
            /\ AnswersOn(r, c) = Occurrences(r, toHost[c]) + 0 + AtHost(r, c)
        BY <3>2, <3>5, <4>1, AnswersOnNext DEF AnswersOn
      <4> QED BY <1>5, <2>1, <3>3, <4>2
    <3>6. CASE m # r
      <4>1. job'[r] = job[r]
        BY <1>2, <3>4, <3>6
      <4>2. Occurrences(r, toHost'[c]) = Occurrences(r, toHost[c])
        BY <3>2, <3>3, <3>6
      <4> QED BY <2>1, <4>1, <4>2, AnswersOnNext DEF AnswersOn
    <3> QED BY <3>5, <3>6
  <2>3. CASE ReadClose(d)
    <3>1. d # c
      BY <1>2, <2>3 DEF ReadClose
    <3>2. toHost'[c] = toHost[c] /\ job' = job
      BY <1>2, <2>3, <3>1 DEF ReadClose
    <3> QED BY <1>6, <2>1, <3>2
  <2>4. CASE ReadFails(d)
    <3>1. toHost' = toHost /\ job' = job
      BY <2>4 DEF ReadFails, channelVars
    <3> QED BY <1>6, <2>1, <3>1
  <2> QED BY <1>8, <2>2, <2>3, <2>4 DEF ReceiveLoop
<1>9. ASSUME NEW s \in Requests, SendMessage(s)
      PROVE  AnswersOn(r, c)' = AnswersOn(r, c)
  <2>1. toHost' = toHost
    BY <1>9 DEF SendMessage, AddTail, TestAvailable, Release, channelVars
  <2>2. CASE AddTail(s)
    <3>1. /\ job[s].conn \in Conns
          /\ AtHost(r, c)' = AtHost(r, c) + (IF c = job[s].conn /\ ~closed[c] /\ Message(s) = r THEN 1 ELSE 0)
      BY <1>1, <2>2, AddTailAdds
    <3>2. Message(s) = s
      BY <1>1, CalmMessage
    <3>3. CASE s = r
      <4>1. job[r].pc = "send" /\ job[r].conn = c
        BY <1>1, <2>2, <3>3 DEF AddTail, SentOnce
      <4>2. job'[r].pc = "added"
        BY <1>2, <1>4, <2>2, <3>3, <4>1 DEF AddTail, Job
      <4>3. /\ AtHost(r, c)' = AtHost(r, c) + 1
            /\ AnswersOn(r, c)' = Occurrences(r, toHost[c]) + 0 + AtHost(r, c)'
            /\ AnswersOn(r, c) = Occurrences(r, toHost[c]) + 1 + AtHost(r, c)
        BY <1>4, <2>1, <3>1, <3>2, <3>3, <4>1, <4>2, AnswersOnNext DEF AnswersOn
      <4> QED BY <1>5, <4>3
    <3>4. CASE s # r
      <4>1. job'[r] = job[r]
        BY <1>2, <2>2, <3>4 DEF AddTail, Finish
      <4>2. AtHost(r, c)' = AtHost(r, c)
        BY <1>5, <3>1, <3>2, <3>4
      <4> QED BY <1>6, <2>1, <4>1, <4>2
    <3> QED BY <3>3, <3>4
  <2>3. CASE TestAvailable(s)
    <3>1. AtHost(r, c)' = AtHost(r, c)
      BY <2>3 DEF TestAvailable, channelVars, AtHost
    <3>2. job'[r].pc = "send" <=> job[r].pc = "send"
      BY <1>2, <2>3 DEF TestAvailable, Finish, Job
    <3> QED BY <1>6, <2>1, <3>1, <3>2
  <2>4. CASE Release(s)
    <3>1. AtHost(r, c)' = AtHost(r, c)
      BY <2>4 DEF Release, AtHost
    <3>2. job[s].pc = "release" /\ job' = [job EXCEPT ![s].pc = "done"]
      BY <2>4 DEF Release, Finish, Fail, OnReceiveFails
    <3>3. job'[r].pc = "send" <=> job[r].pc = "send"
      BY <1>2, <3>2 DEF Job
    <3> QED BY <1>6, <2>1, <3>1, <3>3
  <2> QED BY <1>9, <2>2, <2>3, <2>4 DEF SendMessage
<1> QED BY <1>3, <1>7, <1>8, <1>9 DEF HostNext

\* The host keeps the calm invariant.
LEMMA CalmInvHost ==
  ASSUME Inv, TypeOK', CalmInv, HostNext, UNCHANGED clientVars
  PROVE  CalmInv'
<1>1. TypeOK /\ SendLoops /\ Connects /\ SentOnce /\ Expecting /\ CalmConnections /\ AnsweredOnce
  BY DEF Inv, CalmInv
<1>2. UNCHANGED <<pc, conn, response, requestMap, clientLoop, toCancel>>
  BY DEF clientVars
<1>3. Expecting'
  BY <1>1, <1>2 DEF Expecting
<1>4. calm' => calm
  BY <1>1 DEF HostNext, SendLoop, ReceiveLoop, SendMessage, Wait, Dequeue, Send, SendFails, ReadRequest,
       ReadClose, ReadFails, AddTail, TestAvailable, Release, channelVars
<1>5. ASSUME calm'
      PROVE  \A r \in Requests : job'[r].attempt <= 1
  <2>1. job \in [Requests -> Job] /\ \A r \in Requests : job[r].attempt <= 1
    BY <1>1, <1>4, <1>5 DEF CalmConnections, TypeOK, HostTypeOK
  <2>2. CASE \E c \in Conns : ReadRequest(c)
    <3>1. PICK c \in Conns : ReadRequest(c)
      BY <2>2
    <3>2. \A r \in Requests : job'[r] = job[r] \/ job'[r].attempt = 1
      BY <2>1, <3>1 DEF ReadRequest
    <3> QED BY <2>1, <3>2
  <2>3. CASE job' = job
    BY <2>1, <2>3
  <2>4. CASE \E s \in Requests : SendMessage(s)
    <3>1. PICK s \in Requests : SendMessage(s)
      BY <2>4
    <3>2. \E where : job' = [job EXCEPT ![s].pc = where]
      BY <1>5, <3>1 DEF SendMessage, AddTail, TestAvailable, Release, Finish, Fail, OnReceiveFails
    <3>3. \A r \in Requests : job'[r].attempt = job[r].attempt
      BY <2>1, <3>2 DEF Job
    <3> QED BY <2>1, <3>3
  <2> QED BY <2>2, <2>3, <2>4 DEF HostNext, SendLoop, ReceiveLoop, Wait, Dequeue, Send, SendFails,
       ReadClose, ReadFails, channelVars
<1>6. ASSUME calm', NEW d \in Conns
      PROVE  AtHost(None, d)' = 0
  <2>1. AtHost(None, d) = 0
    BY <1>1, <1>4, <1>6 DEF CalmConnections
  <2>2. ASSUME NEW c \in Conns, SendLoop(c) PROVE AtHost(None, d)' = 0
    <3>1. AtHost(None, d)' \in Nat /\ AtHost(None, d)' <= AtHost(None, d)
      BY <1>1, <2>2, SendLoopKeeps
    <3> QED BY <2>1, <3>1
  <2>3. ASSUME NEW c \in Conns, ReceiveLoop(c) PROVE AtHost(None, d)' = 0
    BY <2>1, <2>3 DEF ReceiveLoop, ReadRequest, ReadClose, ReadFails, channelVars, AtHost
  <2>4. ASSUME NEW s \in Requests, SendMessage(s) PROVE AtHost(None, d)' = 0
    <3>1. CASE AddTail(s)
      <4>1. Message(s) = s /\ s # None
        BY <1>1, <1>4, <1>6, CalmMessage, RequestsAssumption
      <4>2. AtHost(None, d)'
              = AtHost(None, d) + (IF d = job[s].conn /\ ~closed[d] /\ Message(s) = None THEN 1 ELSE 0)
        BY <1>1, <3>1, AddTailAdds
      <4> QED BY <2>1, <4>1, <4>2
    <3>2. CASE TestAvailable(s) \/ Release(s)
      BY <2>1, <3>2 DEF TestAvailable, Release, channelVars, AtHost
    <3> QED BY <2>4, <3>1, <3>2 DEF SendMessage
  <2> QED BY <2>2, <2>3, <2>4 DEF HostNext
<1>7. \A c \in Conns : state[c] = "broken" => state'[c] = "broken"
  BY <1>1, HostState DEF Connected, TypeOK
<1>8. \A r \in Requests : response[r] = "canceled" => conn[r] \in Conns
  BY <1>1, ConnOf DEF Expecting
<1>9. CalmConnections'
  <2>1. calm' => CanceledIfBroken'
    BY <1>1, <1>2, <1>4, <1>7, <1>8 DEF CalmConnections, CanceledIfBroken
  <2>2. calm' => \A c \in Conns : clientLoop'[c] = "cancel" => state'[c] = "broken"
    BY <1>1, <1>2, <1>4, <1>7 DEF CalmConnections
  <2> QED BY <1>5, <1>6, <2>1, <2>2 DEF CalmConnections
<1>10. AnsweredOnce'
  <2> SUFFICES ASSUME calm', NEW r \in Requests, NEW c \in Conns,
                      pc'[r] = "wait", conn'[r] = c, state'[c] = "open"
               PROVE  AnswersOn(r, c)' = IF response'[r] = "none" THEN 1 ELSE 0
    BY DEF AnsweredOnce
  <2>1. state[c] = "open" /\ AnswersOn(r, c)' = AnswersOn(r, c)
    BY <1>1, <1>2, <1>4, AnswersHost
  <2> QED BY <1>1, <1>2, <1>4, <2>1 DEF AnsweredOnce
<1> QED BY <1>3, <1>9, <1>10 DEF CalmInv
-----------------------------------------------------------------------------
(* One answer: the client                                                  *)

\* Nothing is expected at the start.
LEMMA CalmInvInit == Init => CalmInv
<1> SUFFICES ASSUME Init PROVE CalmInv
  OBVIOUS
<1>1. Expecting
  BY DEF Init, ClientInit, Expecting
<1>2. \A c \in Conns : queue[c] = <<>> /\ batch[c] = <<>> /\ toClient[c] = <<>>
  BY DEF Init, ChannelInit, HostInit
<1>3. \A c \in Conns : AtHost(None, c) = 0
  BY <1>2, OccurrencesEmpty DEF AtHost
<1>4. CalmConnections
  BY <1>3 DEF Init, HostInit, ClientInit, NoJob, CalmConnections, CanceledIfBroken
<1>5. AnsweredOnce
  BY DEF Init, ClientInit, AnsweredOnce
<1> QED BY <1>1, <1>4, <1>5 DEF CalmInv

\* A request is in the map before it is sent, and nobody else removes it.
LEMMA ExpectingRequest ==
  ASSUME TypeOK, Connects, Expecting, NEW r \in Requests, ExecuteRequest(r)
  PROVE  Expecting'
<1>1. /\ pc \in [Requests -> {"start", "connect", "join", "connecting", "connected", "add", "lock",
                              "send", "wait", "done"}]
      /\ conn \in [Requests -> 0 .. MaxConns] /\ requestMap \in [Conns -> SUBSET Requests]
      /\ response \in [Requests -> {"none", "response", "canceled"}]
  BY DEF TypeOK, ClientTypeOK
<1>2. response' = response /\ toCancel' = toCancel
  BY DEF ExecuteRequest, GetConnection, JoinConnects, OpenSocket, ConnectFails, EndConnect,
         AddRequest, AwaitSendLock, SendRequest, SendRequestFails, loopVars
<1>3. CASE AddRequest(r)
  <2>1. conn[r] \in Conns /\ pc[r] = "add"
    BY <1>3, ConnOf DEF AddRequest
  <2>2. /\ requestMap' = [requestMap EXCEPT ![conn[r]] = requestMap[conn[r]] \cup {r}]
        /\ pc' = [pc EXCEPT ![r] = "lock"] /\ conn' = conn
    BY <1>3 DEF AddRequest, Goto
  <2>3. \A c \in Conns : requestMap'[c] = IF c = conn[r] THEN requestMap[c] \cup {r} ELSE requestMap[c]
    BY <1>1, <2>1, <2>2
  <2>4. \A q \in Requests : pc'[q] = IF q = r THEN "lock" ELSE pc[q]
    BY <1>1, <2>2
  <2>5. \A q \in Requests : pc[q] \in {"lock", "send", "wait"} => conn[q] \in Conns
    BY ConnOf
  <2> QED BY <1>2, <2>1, <2>2, <2>3, <2>4, <2>5 DEF Expecting
<1>4. CASE ~AddRequest(r)
  <2>1. requestMap' = requestMap
    BY <1>4 DEF ExecuteRequest, GetConnection, JoinConnects, OpenSocket, ConnectFails, EndConnect,
                AwaitSendLock, SendRequest, SendRequestFails
  <2>2. ASSUME NEW q \in Requests
        PROVE  /\ pc'[q] \in {"lock", "send", "wait"} => pc[q] \in {"lock", "send", "wait"}
               /\ pc[q] \in {"lock", "send", "wait", "done"} =>
                    pc'[q] \in {"lock", "send", "wait", "done"} /\ conn'[q] = conn[q]
               /\ pc[q] = "wait" => pc'[q] = "wait"
    BY <1>1, <1>4 DEF ExecuteRequest, GetConnection, JoinConnects, OpenSocket, ConnectFails, EndConnect,
                      AwaitSendLock, SendRequest, SendRequestFails, Goto
  <2> QED BY <1>2, <2>1, <2>2 DEF Expecting
<1> QED BY <1>3, <1>4

\* A response that arrives while nothing races is the only answer to a request that
\* waits for it.
LEMMA ArrivesOnce ==
  ASSUME Inv, CalmInv, NEW c \in Conns, OnReceive(c), calm
  PROVE  LET m == Head(toClient[c])
         IN  m \in requestMap[c] /\ response[m] = "none"
<1> DEFINE m == Head(toClient[c])
<1>1. TypeOK /\ Connects /\ SentOnce /\ Expecting /\ CalmConnections /\ AnsweredOnce
  BY DEF Inv, CalmInv
<1>2. toClient[c] \in Seq(Requests \cup {None}) /\ toClient[c] # <<>> /\ state[c] = "open"
  BY <1>1 DEF TypeOK, OnReceive
<1>3. m \in Requests \cup {None}
  BY <1>2
<1> HIDE DEF m
<1>4. AtHost(m, c) # 0
  <2>1. Occurrences(m, toClient[c]) = Occurrences(m, Tail(toClient[c])) + 1
    BY <1>2, OccurrencesTail DEF m
  <2>2. Tail(toClient[c]) \in Seq(Requests \cup {None})
    BY <1>2, HeadTailProperties
  <2>3. Occurrences(m, Tail(toClient[c])) \in Nat
    BY <2>2, OccurrencesByIndex
  <2>4. Occurrences(m, queue[c]) \in Nat /\ Occurrences(m, batch[c]) \in Nat
    BY <1>1, OccurrencesTypes
  <2> QED BY <2>1, <2>3, <2>4 DEF AtHost
<1>5. m \in Requests
  BY <1>1, <1>3, <1>4 DEF CalmConnections
<1>6. conn[m] = c /\ pc[m] = "wait"
  BY <1>1, <1>4, <1>5 DEF SentOnce
<1>7. AnswersOn(m, c) # 0
  <2> DEFINE executed == IF job[m].pc = "send" THEN 1 ELSE 0
  <2>1. Occurrences(m, toHost[c]) \in Nat /\ AtHost(m, c) \in Nat
    BY <1>1, OccurrencesTypes
  <2>2. executed \in Nat /\ AnswersOn(m, c) = Occurrences(m, toHost[c]) + executed + AtHost(m, c)
    BY DEF AnswersOn
  <2> HIDE DEF executed
  <2> QED BY <1>4, <2>1, <2>2
<1>8. response[m] = "none"
  BY <1>1, <1>2, <1>5, <1>6, <1>7 DEF AnsweredOnce
<1> QED BY <1>1, <1>5, <1>6, <1>8 DEF Expecting, m

\* What the receive loop removes or visits is expected nowhere else.
LEMMA ExpectingConnection ==
  ASSUME Inv, Expecting, NEW c \in Conns, ClientReceiveLoop(c) \/ CloseClient(c) \/ Break(c)
  PROVE  Expecting'
<1>1. TypeOK /\ Connects /\ SentOnce
  BY DEF Inv
<1>2. /\ requestMap \in [Conns -> SUBSET Requests] /\ toCancel \in [Conns -> SUBSET Requests]
      /\ response \in [Requests -> {"none", "response", "canceled"}]
      /\ toClient \in [Conns -> Seq(Requests \cup {None})]
  BY <1>1 DEF TypeOK, ClientTypeOK
<1>3. pc' = pc /\ conn' = conn
  BY DEF ClientReceiveLoop, CheckSocket, OnReceive, ReceiveFails, ReceiveClosed, CancelRequests,
         CloseClient, Break, clientVars
<1>4. \A r \in Requests : pc[r] \in {"lock", "send", "wait"} => conn[r] \in Conns
  BY <1>1, ConnOf
<1>5. CASE UNCHANGED <<requestMap, toCancel, response>>
  BY <1>3, <1>5 DEF Expecting
<1>6. CASE OnReceive(c)
  <2> DEFINE m == Head(toClient[c])
  <2>1. m \in Requests => Occurrences(m, toClient[c]) \in Nat \ {0}
    <3>1. toClient[c] # <<>> /\ Tail(toClient[c]) \in Seq(Requests \cup {None})
      BY <1>2, <1>6, HeadTailProperties DEF OnReceive
    <3>2. Occurrences(m, toClient[c]) = Occurrences(m, Tail(toClient[c])) + 1
      BY <1>2, <3>1, OccurrencesTail
    <3>3. Occurrences(m, Tail(toClient[c])) \in Nat
      BY <3>1, OccurrencesByIndex
    <3> HIDE DEF m
    <3> QED BY <3>2, <3>3
  <2>2. /\ requestMap' = [requestMap EXCEPT ![c] = requestMap[c] \ {m}]
        /\ \/ /\ m \in requestMap[c] /\ response[m] = "none"
              /\ response' = [response EXCEPT ![m] = "response"] /\ toCancel' = toCancel
           \/ /\ ~(m \in requestMap[c] /\ response[m] = "none")
              /\ response' = response /\ toCancel' = [toCancel EXCEPT ![c] = requestMap[c] \ {m}]
    BY <1>6 DEF OnReceive, Expected, StartCancel
  <2> HIDE DEF m
  <2>3. m \in requestMap[c] => m \in Requests /\ conn[m] = c /\ pc[m] = "wait"
    <3> SUFFICES ASSUME m \in requestMap[c] PROVE m \in Requests /\ conn[m] = c /\ pc[m] = "wait"
      OBVIOUS
    <3>1. m \in Requests
      BY <1>2
    <3>2. /\ Occurrences(m, queue[c]) \in Nat /\ Occurrences(m, batch[c]) \in Nat
          /\ Occurrences(m, toClient[c]) \in Nat \ {0}
      BY <1>1, <2>1, <3>1, OccurrencesTypes
    <3>3. AtHost(m, c) # 0
      BY <3>2 DEF AtHost
    <3> QED BY <1>1, <3>1, <3>3 DEF SentOnce
  <2>4. \A d \in Conns : requestMap'[d] = IF d = c THEN requestMap[d] \ {m} ELSE requestMap[d]
    BY <1>2, <2>2
  <2>5. \A d \in Conns : \A r \in toCancel'[d] : r \in toCancel[d] \/ r \in requestMap[d]
    BY <1>2, <2>2
  <2>6. \A r \in Requests : response'[r] = response[r] \/ (r = m /\ m \in requestMap[c] /\ response'[r] = "response")
    BY <1>2, <2>2
  <2>7. m \in requestMap[c] => response'[m] # "none"
    BY <1>2, <2>2, <2>3
  <2>8. \A r \in Requests : pc[r] \in {"lock", "send", "wait"} /\ response'[r] = "none"
                              => r \in requestMap'[conn[r]]
    <3> SUFFICES ASSUME NEW r \in Requests, pc[r] \in {"lock", "send", "wait"}, response'[r] = "none"
                 PROVE  r \in requestMap'[conn[r]]
      OBVIOUS
    <3>1. response[r] = "none" /\ conn[r] \in Conns
      BY <1>4, <2>6
    <3>2. r \in requestMap[conn[r]]
      BY <3>1 DEF Expecting
    <3>3. r = m => conn[r] # c
      BY <2>7, <3>2
    <3> QED BY <2>4, <3>1, <3>2, <3>3
  <2>9. \A d \in Conns, r \in Requests : r \in requestMap'[d] \cup toCancel'[d] =>
          conn[r] = d /\ pc[r] \in {"lock", "send", "wait", "done"}
    <3> SUFFICES ASSUME NEW d \in Conns, NEW r \in Requests, r \in requestMap'[d] \cup toCancel'[d]
                 PROVE  conn[r] = d /\ pc[r] \in {"lock", "send", "wait", "done"}
      OBVIOUS
    <3>1. r \in requestMap[d] \cup toCancel[d]
      BY <2>4, <2>5
    <3> QED BY <3>1 DEF Expecting
  <2>10. \A r \in Requests : /\ response'[r] = "response" => pc[r] = "wait"
                             /\ response'[r] # "none" => pc[r] \in {"lock", "send", "wait", "done"}
    BY <2>3, <2>6 DEF Expecting
  <2> QED BY <1>3, <2>8, <2>9, <2>10 DEF Expecting
<1>7. CASE ReceiveFails(c)
  <2>1. /\ requestMap' = requestMap /\ response' = response
        /\ toCancel' = [toCancel EXCEPT ![c] = requestMap[c]]
    BY <1>7 DEF ReceiveFails, StartCancel
  <2>2. \A d \in Conns : toCancel'[d] \subseteq toCancel[d] \cup requestMap[d]
    BY <1>2, <2>1
  <2> QED BY <1>3, <2>1, <2>2 DEF Expecting
<1>8. CASE CancelRequests(c)
  <2>1. requestMap' = requestMap
    BY <1>8 DEF CancelRequests
  <2>2. \A d \in Conns : toCancel'[d] \subseteq toCancel[d]
    BY <1>2, <1>8 DEF CancelRequests
  <2>3. \A r \in Requests : response'[r] = response[r] \/ (r \in toCancel[c] /\ response'[r] = "canceled")
    BY <1>2, <1>8 DEF CancelRequests
  <2> QED BY <1>3, <2>1, <2>2, <2>3 DEF Expecting
<1> QED BY <1>5, <1>6, <1>7, <1>8 DEF ClientReceiveLoop, CheckSocket, ReceiveClosed, CloseClient,
             Break, loopVars, clientVars

\* Responses only leave the way to the client by a step of the client.
LEMMA AtHostClient ==
  ASSUME TypeOK, TypeOK', ClientNext, UNCHANGED hostVars, NEW x, NEW d \in Conns
  PROVE  AtHost(x, d)' \in Nat /\ AtHost(x, d)' <= AtHost(x, d)
<1>1. toClient \in [Conns -> Seq(Requests \cup {None})] /\ UNCHANGED <<queue, batch>>
  BY DEF TypeOK, hostVars
<1>2. \/ toClient'[d] = toClient[d] \/ toClient'[d] = <<>>
      \/ toClient[d] # <<>> /\ toClient'[d] = Tail(toClient[d])
  BY <1>1 DEF ClientNext, ExecuteRequest, GetConnection, JoinConnects, OpenSocket, ConnectFails, EndConnect,
       AddRequest, AwaitSendLock, SendRequest, SendRequestFails, ClientReceiveLoop, CheckSocket, OnReceive,
       ReceiveFails, ReceiveClosed, CancelRequests, CloseClient, Break, channelVars
<1>3. toClient[d] # <<>> =>
        Occurrences(x, toClient[d]) = Occurrences(x, Tail(toClient[d])) + (IF Head(toClient[d]) = x THEN 1 ELSE 0)
  BY <1>1, OccurrencesTail
<1>4. /\ Occurrences(x, queue[d]) \in Nat /\ Occurrences(x, batch[d]) \in Nat
      /\ Occurrences(x, toClient[d]) \in Nat /\ Occurrences(x, toClient'[d]) \in Nat
  BY OccurrencesTypes, OccurrencesTypesNext
<1>5. Occurrences(x, toClient'[d]) <= Occurrences(x, toClient[d])
  BY <1>2, <1>3, <1>4, OccurrencesEmpty
<1>6. /\ AtHost(x, d) = Occurrences(x, queue[d]) + Occurrences(x, batch[d]) + Occurrences(x, toClient[d])
      /\ AtHost(x, d)' = Occurrences(x, queue[d]) + Occurrences(x, batch[d]) + Occurrences(x, toClient'[d])
  BY <1>1, AtHostNext DEF AtHost
<1> QED BY <1>4, <1>5, <1>6

\* The races end the calm for good.
LEMMA CalmClient == ClientNext /\ calm' => calm
BY DEF ClientNext, ExecuteRequest, GetConnection, JoinConnects, OpenSocket, ConnectFails, EndConnect,
       AddRequest, AwaitSendLock, SendRequest, SendRequestFails, ClientReceiveLoop, CheckSocket, OnReceive,
       ReceiveFails, ReceiveClosed, CancelRequests, CloseClient, Break, channelVars

\* While nothing races, only a connection that broke is cancelled.
LEMMA CalmConnectionsClient ==
  ASSUME Inv, TypeOK', CalmInv, ClientNext, UNCHANGED hostVars
  PROVE  CalmConnections'
<1>1. TypeOK /\ Connects /\ SentOnce /\ Expecting /\ CalmConnections
  BY DEF Inv, CalmInv
<1>2. /\ state \in [Conns -> {"none", "open", "closing", "closed", "broken"}]
      /\ clientLoop \in [Conns -> {"none", "check", "receive", "cancel", "ended"}]
      /\ response \in [Requests -> {"none", "response", "canceled"}]
      /\ conn \in [Requests -> 0 .. MaxConns]
  BY <1>1 DEF TypeOK, ClientTypeOK
<1> SUFFICES ASSUME calm'
             PROVE  /\ \A r \in Requests : job'[r].attempt <= 1
                    /\ \A c \in Conns : AtHost(None, c)' = 0
                    /\ \A c \in Conns : clientLoop'[c] = "cancel" => state'[c] = "broken"
                    /\ \A r \in Requests : response'[r] = "canceled" => state'[conn'[r]] = "broken"
  BY DEF CalmConnections, CanceledIfBroken
<1>3. calm
  BY CalmClient
<1>4. \A r \in Requests : job'[r].attempt <= 1
  BY <1>1, <1>3 DEF CalmConnections, hostVars
<1>5. ASSUME NEW d \in Conns PROVE AtHost(None, d)' = 0
  <2>1. AtHost(None, d)' \in Nat /\ AtHost(None, d)' <= AtHost(None, d)
    BY <1>1, AtHostClient
  <2> QED BY <1>1, <1>3, <2>1 DEF CalmConnections
<1>6. \A c \in Conns : state[c] = "broken" => state'[c] = "broken"
  BY <1>1, <1>2, ClientState
<1>7. ASSUME NEW c \in Conns, clientLoop'[c] = "cancel" PROVE state'[c] = "broken"
  <2>1. CASE clientLoop[c] = "cancel"
    BY <1>1, <1>3, <1>6, <2>1 DEF CalmConnections
  <2>2. CASE clientLoop[c] # "cancel"
    <3>1. OnReceive(c) \/ ReceiveFails(c)
      <4>1. CASE \E r \in Requests : ExecuteRequest(r)
        <5>1. PICK r \in Requests : ExecuteRequest(r)
          BY <4>1
        <5>2. clientLoop' = clientLoop \/ clientLoop' = [clientLoop EXCEPT ![conn[r]] = "check"]
          BY <5>1 DEF ExecuteRequest, GetConnection, JoinConnects, OpenSocket, ConnectFails, EndConnect,
                      AddRequest, AwaitSendLock, SendRequest, SendRequestFails, loopVars
        <5> QED BY <1>2, <1>7, <2>2, <5>2
      <4>2. CASE \E d \in Conns : ClientReceiveLoop(d) \/ CloseClient(d) \/ Break(d)
        <5>1. PICK d \in Conns : ClientReceiveLoop(d) \/ CloseClient(d) \/ Break(d)
          BY <4>2
        <5>2. \/ clientLoop' = clientLoop
              \/ \E where \in {"check", "receive", "ended"} : clientLoop' = [clientLoop EXCEPT ![d] = where]
              \/ (OnReceive(d) \/ ReceiveFails(d)) /\ clientLoop' = [clientLoop EXCEPT ![d] = "cancel"]
          <6>1. CASE CheckSocket(d)
            BY <6>1 DEF CheckSocket
          <6>2. CASE OnReceive(d) \/ ReceiveFails(d)
            BY <6>2 DEF OnReceive, ReceiveFails, StartCancel
          <6>3. CASE ReceiveClosed(d) \/ CancelRequests(d)
            BY <6>3 DEF ReceiveClosed, CancelRequests
          <6>4. CASE CloseClient(d) \/ Break(d)
            BY <6>4 DEF CloseClient, Break, clientVars, loopVars
          <6> QED BY <5>1, <6>1, <6>2, <6>3, <6>4 DEF ClientReceiveLoop
        <5> QED BY <1>2, <1>7, <2>2, <5>2
      <4> QED BY <4>1, <4>2 DEF ClientNext
    <3>2. CASE OnReceive(c)
      <4>1. clientLoop' = [clientLoop EXCEPT ![c] = "check"]
        BY <1>3, <3>2, ArrivesOnce DEF OnReceive, Expected
      <4> QED BY <1>2, <1>7, <4>1
    <3>3. CASE ReceiveFails(c)
      BY <3>3 DEF ReceiveFails, channelVars
    <3> QED BY <3>1, <3>2, <3>3
  <2> QED BY <2>1, <2>2
<1>8. ASSUME NEW r \in Requests, response'[r] = "canceled" PROVE state'[conn'[r]] = "broken"
  <2>1. CASE response[r] = "canceled"
    <3>1. pc[r] \in {"lock", "send", "wait", "done"} /\ conn[r] \in Conns
      BY <1>1, <2>1, ConnOf DEF Expecting
    <3>2. state[conn[r]] = "broken"
      BY <1>1, <1>3, <2>1 DEF CalmConnections, CanceledIfBroken
    <3>3. conn'[r] = conn[r]
      BY <1>2, <3>1 DEF ClientNext, ExecuteRequest, GetConnection, JoinConnects, OpenSocket, ConnectFails,
           EndConnect, AddRequest, AwaitSendLock, SendRequest, SendRequestFails, ClientReceiveLoop, CheckSocket,
           OnReceive, ReceiveFails, ReceiveClosed, CancelRequests, CloseClient, Break, clientVars
    <3> QED BY <1>6, <3>1, <3>2, <3>3
  <2>2. CASE response[r] # "canceled"
    <3>1. PICK c \in Conns : CancelRequests(c) /\ r \in toCancel[c]
      <4>1. \A q \in Requests : ExecuteRequest(q) => response' = response
        BY DEF ExecuteRequest, GetConnection, JoinConnects, OpenSocket, ConnectFails, EndConnect, AddRequest,
               AwaitSendLock, SendRequest, SendRequestFails
      <4>2. PICK c \in Conns : ClientReceiveLoop(c) \/ CloseClient(c) \/ Break(c)
        BY <1>8, <2>2, <4>1 DEF ClientNext
      <4>3. CASE CancelRequests(c)
        <5>1. response' = response \/ \E q \in toCancel[c] : response' = [response EXCEPT ![q] = "canceled"]
          BY <4>3 DEF CancelRequests
        <5>2. r \in toCancel[c]
          BY <1>2, <1>8, <2>2, <5>1
        <5> QED BY <4>3, <5>2
      <4>4. CASE ~CancelRequests(c)
        <5>1. response' = response \/ \E m : response' = [response EXCEPT ![m] = "response"]
          BY <4>2, <4>4 DEF ClientReceiveLoop, CheckSocket, OnReceive, ReceiveFails, ReceiveClosed, CloseClient,
                            Break, clientVars
        <5> QED BY <1>2, <1>8, <2>2, <5>1
      <4> QED BY <4>3, <4>4
    <3>2. conn[r] = c /\ state[c] = "broken"
      BY <1>1, <1>3, <3>1 DEF CancelRequests, Expecting, CalmConnections
    <3>3. conn' = conn /\ state' = state
      BY <3>1 DEF CancelRequests, channelVars
    <3> QED BY <3>2, <3>3
  <2> QED BY <2>1, <2>2
<1> QED BY <1>4, <1>5, <1>7, <1>8

\* Each step of the client keeps the answer to a request that waits on an open
\* connection: sending it starts with one, receiving the response ends with none.
LEMMA AnsweredOnceClient ==
  ASSUME Inv, TypeOK', CalmInv, ClientNext, UNCHANGED hostVars
  PROVE  AnsweredOnce'
<1>1. TypeOK /\ Connects /\ SentOnce /\ Expecting /\ CalmConnections /\ AnsweredOnce
  BY DEF Inv, CalmInv
<1>2. /\ state \in [Conns -> {"none", "open", "closing", "closed", "broken"}]
      /\ pc \in [Requests -> {"start", "connect", "join", "connecting", "connected", "add", "lock",
                              "send", "wait", "done"}]
      /\ response \in [Requests -> {"none", "response", "canceled"}]
      /\ conn \in [Requests -> 0 .. MaxConns]
      /\ toClient \in [Conns -> Seq(Requests \cup {None})]
      /\ toHost \in [Conns -> Seq(Requests \cup {CloseFrame})]
  BY <1>1 DEF TypeOK, ClientTypeOK
<1>3. UNCHANGED <<queue, batch, job>>
  BY DEF hostVars
<1> SUFFICES ASSUME calm', NEW q \in Requests, NEW d \in Conns,
                    pc'[q] = "wait", conn'[q] = d, state'[d] = "open"
             PROVE  AnswersOn(q, d)' = IF response'[q] = "none" THEN 1 ELSE 0
  BY DEF AnsweredOnce
<1>4. calm
  BY CalmClient
<1>5. CASE /\ pc[q] = "wait" /\ conn[q] = d /\ state[d] = "open" /\ response'[q] = response[q]
           /\ toHost'[d] = toHost[d] /\ toClient'[d] = toClient[d]
  <2>1. AtHost(q, d)' = AtHost(q, d)
    BY <1>3, <1>5, AtHostNext DEF AtHost
  <2>2. AnswersOn(q, d)' = AnswersOn(q, d)
    BY <1>3, <1>5, <2>1, AnswersOnNext DEF AnswersOn
  <2> QED BY <1>1, <1>4, <1>5, <2>2 DEF AnsweredOnce
<1>6. ASSUME NEW r \in Requests, ExecuteRequest(r)
      PROVE  AnswersOn(q, d)' = IF response'[q] = "none" THEN 1 ELSE 0
  <2>1. response' = response
    BY <1>6 DEF ExecuteRequest, GetConnection, JoinConnects, OpenSocket, ConnectFails, EndConnect,
           AddRequest, AwaitSendLock, SendRequest, SendRequestFails
  <2>2. CASE SendRequest(r) /\ q = r
    <3>1. pc[r] = "send" /\ conn[r] = d /\ state[d] = "open" /\ toClient' = toClient
      BY <2>2 DEF SendRequest
    <3>2. response[r] = "none"
      BY <1>1, <1>2, <1>4, <3>1 DEF Expecting, CalmConnections, CanceledIfBroken
    <3>3. job[r].pc = "none" /\ Occurrences(r, toHost[d]) = 0 /\ AtHost(r, d) = 0
      <4>1. Occurrences(r, toHost[d]) \in Nat
        BY <1>1, OccurrencesTypes
      <4>2. Occurrences(r, toHost[d]) <= 1 /\ Occurrences(r, toHost[d]) # 1 /\ job[r].pc = "none"
        BY <1>1, <3>1 DEF SentOnce
      <4> QED BY <1>1, <4>1, <4>2 DEF SentOnce
    <3>4. Occurrences(r, toHost'[d]) = Occurrences(r, toHost[d]) + 1
      BY <1>1, <2>2, <3>1, SentOnceSend
    <3>5. AtHost(r, d)' = AtHost(r, d)
      BY <1>3, <3>1, AtHostNext DEF AtHost
    <3>6. AnswersOn(r, d)' = Occurrences(r, toHost'[d]) + 0 + AtHost(r, d)'
      BY <1>3, <3>3, AnswersOnNext
    <3> QED BY <2>1, <2>2, <3>2, <3>3, <3>4, <3>5, <3>6
  <2>3. CASE SendRequest(r) /\ q # r
    <3>1. pc[q] = "wait" /\ conn[q] = d /\ state[d] = "open" /\ toClient' = toClient
      BY <1>2, <2>3 DEF SendRequest, Goto
    <3>2. Occurrences(q, toHost'[d]) = Occurrences(q, toHost[d])
      <4>1. Occurrences(q, toHost'[d]) = Occurrences(q, toHost[d]) + 0
        BY <1>1, <2>3, SentOnceSend
      <4>2. Occurrences(q, toHost[d]) \in Nat
        BY <1>1, OccurrencesTypes
      <4> QED BY <4>1, <4>2
    <3>3. AtHost(q, d)' = AtHost(q, d)
      BY <1>3, <3>1, AtHostNext DEF AtHost
    <3>4. AnswersOn(q, d)' = AnswersOn(q, d)
      BY <1>3, <3>2, <3>3, AnswersOnNext DEF AnswersOn
    <3> QED BY <1>1, <1>4, <2>1, <3>1, <3>4 DEF AnsweredOnce
  <2>4. CASE ~SendRequest(r)
    <3>1. pc[q] = "wait" /\ conn[q] = d
      <4>1. CASE ConnectFails(r) \/ EndConnect(r)
        <5>1. conn' = conn /\ pc'[q] \in {pc[q], "done", "add"}
          BY <4>1 DEF ConnectFails, EndConnect
        <5> QED BY <5>1
      <4>2. CASE ~(ConnectFails(r) \/ EndConnect(r))
        <5>1. /\ pc[r] # "wait"
              /\ \E where : where # "wait" /\ pc' = [pc EXCEPT ![r] = where]
              /\ conn' = conn \/ \E c : conn' = [conn EXCEPT ![r] = c]
          BY <1>6, <2>4, <4>2 DEF ExecuteRequest, GetConnection, JoinConnects, OpenSocket, AddRequest,
                                  AwaitSendLock, SendRequestFails, Goto
        <5> QED BY <1>2, <5>1
      <4> QED BY <4>1, <4>2
    <3>2. toHost' = toHost /\ toClient' = toClient
      BY <1>6, <2>4 DEF ExecuteRequest, GetConnection, JoinConnects, OpenSocket, ConnectFails, EndConnect,
             AddRequest, AwaitSendLock, SendRequestFails, channelVars
    <3>3. state' = state \/ (OpenSocket(r) /\ state' = [state EXCEPT ![conn[r]] = "open"])
      BY <1>6, <2>4 DEF ExecuteRequest, GetConnection, JoinConnects, OpenSocket, ConnectFails, EndConnect,
             AddRequest, AwaitSendLock, SendRequestFails, channelVars
    <3>4. OpenSocket(r) => state[conn[r]] = "none" /\ state[d] # "none"
      BY <1>1, <3>1 DEF OpenSocket, Connects
    <3>5. state[d] = "open"
      BY <1>2, <3>3, <3>4
    <3> QED BY <1>5, <2>1, <3>1, <3>2, <3>5
  <2> QED BY <2>2, <2>3, <2>4
<1>7. ASSUME NEW c \in Conns, OnReceive(c)
      PROVE  AnswersOn(q, d)' = IF response'[q] = "none" THEN 1 ELSE 0
  <2> DEFINE m == Head(toClient[c])
  <2>1. m \in requestMap[c] /\ response[m] = "none"
    BY <1>4, <1>7, ArrivesOnce
  <2>2. /\ pc[q] = "wait" /\ conn[q] = d /\ state[d] = "open" /\ toHost' = toHost
        /\ toClient[c] # <<>> /\ toClient' = [toClient EXCEPT ![c] = Tail(toClient[c])]
        /\ response' = [response EXCEPT ![m] = "response"]
    BY <1>7, <2>1 DEF OnReceive, Expected
  <2>3. m \in Requests /\ conn[m] = c
    BY <1>1, <2>1 DEF Expecting, TypeOK, ClientTypeOK
  <2>4. toClient[c] \in Seq(Requests \cup {None})
    BY <1>2
  <2>5. Occurrences(q, toClient[c]) = Occurrences(q, Tail(toClient[c])) + (IF m = q THEN 1 ELSE 0)
    BY <2>2, <2>4, OccurrencesTail
  <2>6. /\ Occurrences(q, toHost[d]) \in Nat /\ Occurrences(q, queue[d]) \in Nat
        /\ Occurrences(q, batch[d]) \in Nat /\ Occurrences(q, toClient[d]) \in Nat
        /\ Occurrences(q, toClient'[d]) \in Nat
    BY <1>1, OccurrencesTypes, OccurrencesTypesNext
  <2> HIDE DEF m
  <2>7. CASE q = m
    <3>1. c = d /\ response[q] = "none" /\ response'[q] = "response" /\ toClient'[d] = Tail(toClient[d])
      BY <1>2, <2>1, <2>2, <2>3, <2>7
    <3>2. AnswersOn(q, d) = 1
      BY <1>1, <1>4, <2>2, <3>1 DEF AnsweredOnce
    <3> DEFINE executed == IF job[q].pc = "send" THEN 1 ELSE 0
    <3>3. executed \in Nat
      OBVIOUS
    <3>4. Occurrences(q, toClient[d]) = Occurrences(q, toClient'[d]) + 1
      BY <2>5, <2>7, <3>1
    <3>5. /\ AnswersOn(q, d) = Occurrences(q, toHost[d]) + executed
               + (Occurrences(q, queue[d]) + Occurrences(q, batch[d]) + Occurrences(q, toClient[d]))
          /\ AnswersOn(q, d)' = Occurrences(q, toHost[d]) + executed
               + (Occurrences(q, queue[d]) + Occurrences(q, batch[d]) + Occurrences(q, toClient'[d]))
      BY <1>3, <2>2, AnswersOnNext, AtHostNext DEF AnswersOn, AtHost
    <3> HIDE DEF executed
    <3>6. AnswersOn(q, d)' = 0
      BY <2>6, <3>2, <3>3, <3>4, <3>5
    <3> QED BY <3>1, <3>6
  <2>8. CASE q # m /\ c = d
    <3>1. response'[q] = response[q] /\ toClient'[d] = Tail(toClient[d])
      BY <1>2, <2>2, <2>8
    <3>2. Occurrences(q, toClient'[d]) = Occurrences(q, toClient[d])
      BY <2>5, <2>6, <2>8, <3>1
    <3>3. AtHost(q, d)' = AtHost(q, d)
      BY <1>3, <3>2, AtHostNext DEF AtHost
    <3>4. AnswersOn(q, d)' = AnswersOn(q, d)
      BY <1>3, <2>2, <3>3, AnswersOnNext DEF AnswersOn
    <3> QED BY <1>1, <1>4, <2>2, <3>1, <3>4 DEF AnsweredOnce
  <2>9. CASE q # m /\ c # d
    <3>1. response'[q] = response[q] /\ toClient'[d] = toClient[d]
      BY <1>2, <2>2, <2>9
    <3> QED BY <1>5, <2>2, <3>1
  <2> QED BY <2>7, <2>8, <2>9
<1>8. ASSUME NEW c \in Conns, CancelRequests(c)
      PROVE  AnswersOn(q, d)' = IF response'[q] = "none" THEN 1 ELSE 0
  <2>1. UNCHANGED <<state, toHost, toClient, pc, conn>> /\ clientLoop[c] = "cancel"
    BY <1>8 DEF CancelRequests, channelVars
  <2>2. state[c] = "broken" /\ c # d
    BY <1>1, <1>4, <2>1 DEF CalmConnections
  <2>3. \A r \in Requests : response'[r] = response[r] \/ r \in toCancel[c]
    BY <1>2, <1>8 DEF CancelRequests
  <2>4. q \notin toCancel[c]
    BY <1>1, <2>1, <2>2 DEF Expecting
  <2> QED BY <1>5, <2>1, <2>3, <2>4
<1>9. ASSUME NEW c \in Conns, CloseClient(c) \/ Break(c)
      PROVE  AnswersOn(q, d)' = IF response'[q] = "none" THEN 1 ELSE 0
  <2>1. /\ UNCHANGED <<pc, conn, response>>
        /\ \/ UNCHANGED <<state, toHost, toClient>>
           \/ /\ state' = [state EXCEPT ![c] = "closing"] \/ state' = [state EXCEPT ![c] = "broken"]
              /\ \/ toHost' = [toHost EXCEPT ![c] = <<>>]
                 \/ toHost' = [toHost EXCEPT ![c] = Append(toHost[c], CloseFrame)]
              /\ toClient' = toClient \/ toClient' = [toClient EXCEPT ![c] = <<>>]
    BY <1>9 DEF CloseClient, Break, clientVars, channelVars
  <2>2. c # d \/ UNCHANGED <<state, toHost, toClient>>
    BY <1>2, <2>1
  <2>3. state[d] = "open" /\ toHost'[d] = toHost[d] /\ toClient'[d] = toClient[d]
    BY <1>2, <2>1, <2>2
  <2> QED BY <1>5, <2>1, <2>3
<1>10. ASSUME NEW c \in Conns, CheckSocket(c) \/ ReceiveFails(c) \/ ReceiveClosed(c)
       PROVE  AnswersOn(q, d)' = IF response'[q] = "none" THEN 1 ELSE 0
  <2>1. UNCHANGED <<state, toHost, toClient, pc, conn, response>>
    BY <1>10 DEF CheckSocket, ReceiveFails, ReceiveClosed, channelVars
  <2> QED BY <1>5, <2>1
<1> QED BY <1>6, <1>7, <1>8, <1>9, <1>10 DEF ClientNext, ClientReceiveLoop

\* Every step keeps the calm invariant.
LEMMA NextCalmInv == Inv /\ Inv' /\ CalmInv /\ [Next]_vars => CalmInv'
<1> SUFFICES ASSUME Inv, Inv', CalmInv, [Next]_vars PROVE CalmInv'
  OBVIOUS
<1>1. TypeOK /\ Connects /\ TypeOK' /\ Expecting
  BY DEF Inv, CalmInv
<1>2. CASE HostNext /\ UNCHANGED clientVars
  BY <1>1, <1>2, CalmInvHost
<1>3. CASE ClientNext /\ UNCHANGED hostVars
  <2>1. Expecting'
    BY <1>1, <1>3, ExpectingRequest, ExpectingConnection DEF ClientNext
  <2> QED BY <1>1, <1>3, <2>1, CalmConnectionsClient, AnsweredOnceClient DEF CalmInv
<1>4. CASE UNCHANGED vars
  BY <1>4 DEF CalmInv, Expecting, CalmConnections, CanceledIfBroken, AnsweredOnce, AnswersOn, AtHost, vars,
       channelVars, hostVars, clientVars
<1> QED BY <1>2, <1>3, <1>4 DEF Next

\* The calm invariant holds of every behaviour.
LEMMA CalmInvCorrect == FairSpec => []CalmInv
<1>1. Init => CalmInv
  BY CalmInvInit
<1>2. Inv /\ Inv' /\ CalmInv /\ [Next]_vars => CalmInv'
  BY NextCalmInv
<1> QED BY <1>1, <1>2, InvCorrect, PTL DEF FairSpec

\* Neither end loses a request or its response, and none is answered twice, whoever
\* writes it in which order, until one of the named races happens.
THEOREM OneAnswerCorrect == FairSpec => []OneAnswer
<1>1. Inv /\ CalmInv => OneAnswer
  BY AnswersOnConn DEF Inv, CalmInv, AnsweredOnce, OneAnswer
<1> QED BY <1>1, InvCorrect, CalmInvCorrect, PTL

\* Until then a request is only cancelled because its own connection broke.
THEOREM CanceledIfBrokenCorrect == FairSpec => []CalmCanceledIfBroken
<1>1. CalmInv => CalmCanceledIfBroken
  BY DEF CalmInv, CalmConnections, CalmCanceledIfBroken
<1> QED BY <1>1, CalmInvCorrect, PTL
=============================================================================

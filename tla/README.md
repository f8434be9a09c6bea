# Verification of Friflo.Json.Fliox: hub, event delivery, Explorer and entity store

This directory holds TLA+ models of the concurrent and stateful parts of the
repository, TLC configurations that check them on small instances, and proofs
checked by TLAPS.  `PROJECT.json` lists components, runs, mutants, theorems, the
source lines each definition stands for, and the hazards the properties are
aimed at.

    tlc -workers 2 -config EventDelivery_race.cfg EventDelivery
    tlapm EventDeliveryProofs.tla

## 1. The system

The repository contains two systems and a web application.

**Fliox.Hub** (`src/Json/Fliox.Hub`) is an ORM with Pub-Sub.  A `FlioxClient`
collects tasks and sends them as one `SyncRequest` to a `FlioxHub`, in process
or over a WebSocket.  The hub authenticates the request, executes its tasks on
an `EntityDatabase`, and passes them to the `EventDispatcher`, which turns them
into `SyncEvent`s for all clients that subscribed them.  Responses and events
reach the client through the send queue of its `WebSocketHost`; the client
acknowledges events with its next request or, if it sends none, with one a timer
triggers.

| part | state | operations | what is hard |
|---|---|---|---|
| `EventSubClient` (per subscribed client) | `unsentSyncEvents`, `sentEventMessages`, `resendEventMessages`, `eventCounter`, `eventReceiver`, `queueEvents` | `EnqueueSyncEvent`, `SendEvents`, `UpdateTarget`, `AcknowledgeEventMessages` | three kinds of threads; lost connections; late acknowledgements |
| `EventDispatcher` | `subClients`, `sendClientsMap`, `databaseSubsMap`, `sendClients` | subscribe, `EnqueueSyncTasks`, `ProcessSubscriber`, `SendQueuedEvents` | snapshots used after the lock was released |
| `MessageBufferQueue`, `Deque` | ring array of messages, two byte buffers | add at both ends, remove, dequeue all, close | messages are read from a buffer after the lock was released; the ring wraps and grows |
| `WebSocketHost`, `SocketHost` | send queue and its semaphore, send loop, receive loop | `OnReceive`, `SendMessage`, `SendReceiveMessages` | a semaphore that may not exceed 1; the end of both loops; errors while answering |
| `WebSocketClientHub`, `RemoteRequestMap` | connection, connect task, pending requests | `ExecuteRequestAsync`, `Connect`, `OnReceive`, `CancelRequests` | joined connects, a response that never comes |
| `AsyncReaderWriterLock` | two semaphores and a counter | acquire and release for readers and writers | cancellation, the first and the last reader |
| `FlioxClient` | pending tasks, `lastEventSeq`, acknowledge timer | `SyncTasks`, `ProcessEvents` | requests in parallel to events |
| `MemoryContainer`, `FileContainer` | entities | create, upsert, merge, read, query, delete | read-modify-write without a lock, cursors shared by requests |
| `SyncContext` | transaction of a request | `TransactionAsync`, `ReturnConnection` | one of several tasks fails |
| `DatabaseServiceQueue` | queued requests | `EnqueueJob`, `ExecuteQueuedRequests` | jobs arrive while others are executed |
| `EventCollector`, `ChangeCombiner` | pending changes per database | `StoreTask`, `AccumulateChanges` | order of collected changes, databases added and removed |
| `UserAuthenticator` | cached user and role rights | authenticate, invalidate | stale rights |

What makes each part correct:

- events: a client processes them in order and at most once, misses none if it
  queues events, and the hub forgets none too early and keeps none for ever;
- subscriptions: what requests read without the lock is what was subscribed, and
  nobody who may receive events is left out;
- send queue: no message is overwritten before it was sent, the queue is FIFO, no
  message waits on a loop that sleeps;
- requests: each gets its own response, once, or an error;
- lock: writers are alone, nobody waits for ever;
- storage: concurrent requests on one entity have the effect of some order of them;
- transactions: all tasks take effect or none.

**The Hub Explorer** (`src/Json/Fliox.Hub.Explorer/www~/explorer/src`, TypeScript) is
the web page a hub serves: it browses and edits containers over REST, and subscribes
changes and messages over a WebSocket.  It runs one handler at a time; what is hard
are the continuations: an answer meets a page that shows something else by then, and
a socket that is closed or replaced keeps its handlers.

| part | state | operations | what is hard |
|---|---|---|---|
| `WebSocketClient`, `Playground` | socket, pending requests, client id, acknowledge timer | connect, close, `syncRequest`, `acknowledgeEvents`, socket handlers | late `onopen` and `onclose` of a replaced socket |
| `Events` | subscription tree, received events, filters, event log | toggle a subscription, select, filter, clear, receive | the tree changes before the hub has answered; the log is kept in two ways |
| `Explorer` | explorer record, table and its rows, selection | load and page a container, select, delete | answers in any order |
| `EntityEditor` | entity identity, text, history, commands | load, follow, navigate, save, delete, send a command | the same, and Save acts on what was shown last |

**Friflo.Engine.ECS** (`src/Engine/src/ECS`) is an in-memory entity component
store: archetypes with component arrays, entity trees, relations, indexes,
command buffers and a parallel job runner.  But for the last it is single
threaded; what is hard in it are long sequences of structural changes.

| part | state | operations | what is hard |
|---|---|---|---|
| `EntityStore`, `Archetype` | nodes, rows of each archetype | create, delete, add and remove components | a removed row is filled with the last one, and the node of another entity must follow |
| `EntityIndex`, `EntityRelations` | link targets and their sources, relation rows and positions | set and remove links, add and remove relations, delete a target | both directions agree while a deletion removes what refers to the deleted entity |
| `NodeTree` | `TreeNode` components, `parentMap` | add, insert, remove, load children | child lists and parents agree, no cycle |
| `ParallelJobRunner` | start and finish events, counter, barrier | `ExecuteJob`, `RunWorker`, `Dispose` | a worker of the last job meets the next one |

For these, correct means: the Explorer's log is what its filters select, its tree shows
what the hub has subscribed, its table and editor show what Save and Delete act on; the
store implements the plain map of entities with links, relations and children; a job
runs each of its tasks once and returns.

The remaining parts (parsers, mappers, schema, SQL and document database
providers, REST and GraphQL front ends, ECS queries and serialization, the
editor) are pure data conversions, I/O with external systems or user interface
and keep no state worth a model.

## 2. Plan

Done:

1. `EventLog`, `EventDelivery`: delivery of events to one client (the core), with proofs.
2. `AsyncReaderWriterLock` and the abstract `ReaderWriter`, with proofs.
3. `Subscriptions`: the maps of the dispatcher and the snapshots taken of them, with
   proofs.
4. `Deque`, `MessageBufferQueue` and the abstract `MessageFifo`, with proofs.
5. `WebSocketHost`, `WebSocketClientHub`, composed in `WebSocket`, with proofs.
6. `JobRunner` and the abstract `ForkJoin`, with proofs.
7. `BrowserSocket`, `EventView`, composed in `ExplorerEvents`, and `EntityExplorer`,
   with proofs.
8. `Archetypes`, `EntityStore` and the abstract `EntityMap`, with proofs.

Next, in this order:

9. `Storage`: memory and file containers with concurrent requests, on top of
   `AsyncReaderWriterLock`; abstract specification: a map with atomic operations,
   and which operations implement it (merges do not).
10. `Cursors`: paged queries and their enumerators.
11. `Transactions` and the request queue.
12. `CommandBuffer` of the ECS against executing its commands one by one.
13. `EventCollector`.

The runs are kept to a dozen that can be repeated in a few minutes each.  A new
component takes the place of a run that shows a single race; the race stays in the
model and in section 7.

Each of the larger models checks its safety under all interleavings and states
the assumption under which the rest holds (`Calm`, `calm`,
`FirstReaderNotCancelled`), or names what a race does to the state (`overtaken`,
`faults`), so that a later change of the code that removes the race removes the
assumption.

## 3. Models

### EventDelivery

`EventDelivery.tla` is one subscribed client: its `EventSubClient`, the send loop
of the dispatcher, the request handlers of its connections, the connections
themselves, and the client's `ProcessEvents()` and acknowledge timer.  Other
clients appear as `EnqueueSyncEvent`, which publishes the next event.

- *Variables* are those of the code, named alike: `unsentSyncEvents`,
  `sentEventMessages`, `resendEventMessages`, `eventCounter`, `queueEvents`,
  `eventReceiver` of `EventSubClient`; `loop` with `target`, `syncEvents` and
  `eventMessages` are the program counter and the locals of `SendEvents()`;
  `handler[c]` is the request of connection `c` being executed.  An event is the
  number it was published with, a message a `seq` and a sequence of events.
- *Steps.*  The code takes the lock of `unsentSyncEvents` several times in
  `SendEvents()` and once per operation elsewhere; a step is what happens inside
  one of them or between two.  `SendEvents` is the loop (`StartSendEvents`,
  `ClearUnsentSyncEvents`, `DequeueEvents`, `WriteEventMessage`,
  `StoreEventMessage`, `SendEventMessages`); `ProcessSubscriber(c)` is a request
  of the client, in two steps, because `UpdateTarget()` publishes the new receiver
  before it takes the lock in `SendUnacknowledgedEvents()`.
- *Network.*  `Break` loses what is in transit to the client, `Close(c)` is the
  hub noticing it and loses the requests.  Between the two the hub sends into a
  connection that is gone, without an error.  Messages are not reordered on a
  connection (it is TCP); they are over two connections.

- *Modes.*  `dispatching` is `EventDispatching`: with `QueueSend` the loop is woken
  by each event, with `Queue` only when `SendQueuedEvents()` is called.

`EventLog.tla` is what delivery promises: events are published one after the other,
and the client reads them in batches, in that order, each at most once, and without
gaps while the input `lossy` is `FALSE`.  `EventDelivery` implements it twice, with
`delivered` mapped to the batches of the messages processed: `LossyLog` may always
skip, `FifoLog` only where `Skips` says why (a client that does not queue its events,
or changes whether it does, or a hub that is told when to send).

### Subscriptions

`Subscriptions.tla` is the dispatcher with several clients, users and groups.
`ExecuteTask` subscribes and unsubscribes under the monitor; `EnqueueSyncTasks`
is the handler of a request: it updates the receiver, reads the immutable
`databaseSubsMap` and goes through it without the lock, enqueues events and
removes clients that are gone in a lock of their own.  `queueEvents` and
`eventReceiver` are read and written outside of the lock, as in the code.
Whether a task makes an event for a client (`CreateEventTasks`) follows the
names, prefixes, change flags and target lists; filters of entities only select
what an event contains and are left out.  What becomes of a queued event is
`EventDelivery`: here it is a flag.

The code loses a client in two windows: it tests that a client is gone outside of
the lock in which it removes it (`EventDispatcher.cs:448`), and `std.Client` adds a
client before it sets `queueEvents` (`DatabaseService.std.cs:331`).  Both are in
`Spec`.  The history variable `overtaken` has the clients that are lost this way,
from the step that loses them until they are send clients again that nobody is about
to remove.

### AsyncReaderWriterLock

`AsyncReaderWriterLock.tla` has the two semaphores of the code with their waiting
tasks in arrival order, `readerCount`, and one step per `WaitAsync()`, `Release()`
or interlocked operation.  `Cancel(p)` cancels a wait of a task that passed a
token.  `ReaderWriter.tla` is the abstract lock: a set of readers, or a writer.

### Deque and MessageBufferQueue

`Deque.tla` translates the ring array (`array`, `first`, `count`, with the
doubling and copying in `Resize`) as operators on a record.
`MessageBufferQueue.tla` puts the queue with its two byte buffers on top of it.
A byte is the number of the message it belongs to: `Intact` and the refinement
need nothing more of it.  The arrays live in a `memory` that keeps old buffers,
since messages in the queue may still point into one that was replaced.  Every
operation of the class is an action; the caller that reads a dequeued batch
outside the lock holds it in `messages`, which later writes must not disturb.
`MessageFifo.tla` is the abstract queue.

### WebSocket

`WebSocketChannel.tla` declares the connections: the state of each socket and
what is in transit.  `WebSocketHost.tla` and `WebSocketClientHub.tla` extend it
with one side each, and `WebSocket.tla` composes them: a step is one of either
side, and leaves the other's variables alone.

- *Host.*  `recvLoop`/`sendLoop` are the two loops of `SendReceiveMessages()`.  A
  request is executed on the receive loop (`SyncRequests`) or as a task; either
  way its response goes through `AddTail`, `TestAvailable`, `Release`, the three
  steps of `MessageBufferQueueAsync.AddTail()`, of which only the first is inside
  the lock.  `Fail` follows the exception of `Release()` to the `catch` of
  `ExecuteRequest()`, which answers again, and `OnReceiveFails` to that of
  `OnReceive()`.  The queue itself is the FIFO that
  `MessageBufferQueue` was proved to implement.  Events take the same path as the
  response of a task (`SendMessage()` in a `try`) and add no step of their own.
- *Client.*  Each request goes through `GetConnection`, `JoinConnects`, ...,
  `SendRequest`; the receive loop of a connection completes requests or, on an
  exception, goes through `CancelRequests`, whose enumeration of the map is
  several steps because it is outside of the lock.
- *Faults.*  A connection breaks (`Break`) or the client closes it (`CloseClient`),
  at any time.  `Close()` of a connection that is still connecting, or broken, throws
  in `CloseAsync()`: the client has forgotten the connection by then, which goes on
  when it opens.
- `calm` is a history variable: it becomes `FALSE` when one of the races happens
  that the liveness property excludes, each named at the action that sets it.

### Explorer: socket, subscriptions and event log

`BrowserSocket.tla` is `WebSocketClient`: the sockets it created with their ready
states, the one it uses, the pending requests and the acknowledge timer.  A handler
with the promise continuations it makes ready is one step.  `EventView.tla` is the
event log with its filters.  `ExplorerEvents.tla` composes both with the subscription
tree (`subscribed`, `errors`) and the hub as the page sees it: it answers requests, grants
a subscription or refuses it, gives a page without a client id a new one, and sends a
client what it subscribed (`HostAnswer`, `HostSend`; in detail `Subscriptions` and
`EventDelivery`).

- A toggle changes the tree first, then connects if need be, then sends its request;
  `waiting[s]` is the request that goes out when socket `s` opens (`OnOpen`), on
  whatever socket the client uses then.
- `syncRequest()` tests `this.isOpen`, the method and not its result, so it never
  refuses: `SyncRequestIn` registers the request and sends it only if the socket
  is open, as the code does.
- `lost` and `overlapped` are history: the entries whose request was rejected by
  `onclose`, and whether the user toggled before the last toggle was over.  An entry
  leaves `lost` with its next toggle, unless a request about it is still on its way on
  another socket: the host may execute that one later than the new one.

### Explorer: table and editor

`EntityExplorer.tla` has one action per user action and one per answer.  A request in
`pending` carries what its continuation captured, and answers come in any order.
Entities are their ids, the text of the editor is what it is about.  `astray` is a
history variable: it becomes `TRUE` when an answer is applied while the page shows
another container or entity than it was asked for.  The code compares neither, so the
properties hold up to that point, and the run does not follow a behaviour beyond it
(`OnCourse`).

### JobRunner

`JobRunner.tla` is `ParallelJobRunner`: callers that take the lock, workers in their
loop, the two manual reset events, the counter, and the barrier on which a worker spins
until the caller has closed the job.  A step ends where a thread touches what is
shared.  A task may throw; `Dispose` comes at any time.  `ForkJoin.tla` is the
abstract runner.

### EntityStore

`Archetypes.tla` has the storage as operators on one record: rows of archetypes, and
the position each node stores.  `EntityStore.tla` adds the index of links, the
relations, the tree and `DeleteEntity()`.  One thread calls the store, so an operation
is a step, except that a deletion is a step per relation and per link it removes:
component events are raised between them.  Their handlers may only read the store.

- Sets stand for the id arrays of the indexes; a deletion goes through them in any
  order.  Link components stand for all indexed components with a target, and other
  component types have no value.  A link to an entity that does not exist is allowed,
  as in the code.
- `LoadEntity` loads any list of children, with entities that are not loaded yet,
  duplicates, children of another parent and entities above the one loaded.  The code
  writes the list first (`NodeTree.cs:239`) and then sets the parents, up to the first
  child it throws for (lines 372 and 390); the list, and the parents set so far, stay
  (`Adoptees`).  The repository tests the exceptions
  (`Test_EntityConverter`, `Load_error_*`), not the store they leave behind.
- `InsertChild` is called with every position from -1 to past the end.  One after the end
  is refused first; a negative one is not, and `InsertAt()` throws when the child has left
  its parent already.
- `CollectLinks` takes the links to a deleted entity as a set, while the code iterates
  the id array of the index itself, from which each removal takes an id
  (`EntityIndex.cs:51-57`, `EntityRelationLinks.cs:83`, both with a TODO about it).
  The two agree by reading `IdArray.RemoveAt()`: the id removed is the one visited, and
  it is in the slot visited or, when it was moved, in an earlier one; the last id is
  moved to that slot, or the rest is copied to an array of the next smaller
  pool, and the span of the iteration is not written.  So every slot still to be visited
  has its id, and ids moved forward are visited in their old slot.  This is an argument about `IdArray`, which
  the model does not contain; to meet an array that is changed in place takes an entity
  with four links to it, more than the bounds have.
- `faults` names the places where the code is known to damage the store (section 7).
  The model ends with the first one, and the properties say what holds before it.
  `TreeExact` also says what holds after it: a step of the tree is named as a fault
  exactly when it damages the tree.

`EntityMap.tla` is the plain map of entities: an operation changes the component,
relations or children it names, a deletion removes the entity and what links to it,
and nothing else changes.

## 4. Runs

| run | shows | bounds |
|---|---|---|
| `delivery_race` | order, at most once, retention, and the lossy log, under every interleaving | 2 connections, 2 events, 1 request in transit, `queueEvents` cleared once |
| `delivery_calm` | nothing is skipped, everything sent is processed, a client that stays connected gets on; the lossless log | the same, both `EventDispatching`s, `queueEvents` set or cleared once |
| `delivery_skip` (violation) | a reconnect while the loop runs: the client skips events | 2 connections, 2 events |
| `subscribe` | the map that requests read is exact; no eligible client is left out of it but by the two races; queued events are sent | 2 clients, 2 connections of one, 10 tasks, 3 requests |
| `lock` | mutual exclusion, the abstract lock, no starvation | 4 tasks, 2 of which may be cancelled |
| `queue` | type, intact messages, FIFO, bounded buffers | 5 messages of 1 or 2 bytes, capacity 2 |
| `socket` | no missed wake-up; each request is answered once, cancelled only if its connection broke, completes; the host ends when the client closes | 2 requests, 2 connections, 1 fault |
| `explorer_events` | the log is what its filters select; the tree shows what the hub has subscribed; events are acknowledged | 2 sockets, 3 clicks, 2 event messages of 1 or 2 events |
| `explorer_table` | the table shows its container, the editor what Save and Delete act on, the history stands there | 2 containers, 2 ids, 4 requests |
| `jobs` | the rendezvous is exact, fork and join, a job returns unless the runner is disposed | 2 callers, 2 workers, 3 jobs |
| `ecs` | rows, links, relations and tree are exact in both directions, up to a fault, and the tree only up to one; the plain map of entities | 3 entities, 2 relations, 3 items |
| `ecs_rows` (violation) | removing a relation of one entity damages the node of another | 3 entities, 2 relations, 3 items |

Why the bounds are enough for what the runs look for:

- *delivery*: the races are between the send loop and one reconnect; two
  connections are one reconnect, two events give an older and a newer message, and
  one event may be unsent while the other is unacknowledged.  They are too few to
  show why `SetApart` is needed: for that one event wakes the send loop, a second is
  cleared and a third is sent.  With three events TLC finds the skip if `Calm` does
  not include `SetApart`, and none if it does.  All safety properties are proved for
  any bound (section 6).
- *subscribe*: the race needs one client whose connection changes, one that
  publishes, and a request of each under way, a third changes what they read.
- *lock*: a first, a last and another reader, and a writer; two of them may be
  cancelled, so that a cancelled wait passes on what it holds.
- *queue*: five messages wrap, grow and shift a ring of two cells, and replace both
  byte buffers at least once.
- *socket*: two requests, one on the receive loop and one as a task, are two senders
  of one queue and share, join or replace a connection; the fault hits either.  With
  `JoinConnects` once per request no more than two connections are ever opened.
- *explorer_events*: two sockets are one reconnect, with late handlers of the first;
  three clicks are a toggle, its reverse and a close, a send or a filter in between;
  two messages arrive before and after a filter changes.
- *explorer_table*: a container and another, an entity and another; four requests are
  a load and a page, an entity and a save or delete of it, in any order of answers.
- *jobs*: three jobs of two callers let a worker of the first meet the second while the
  next caller already waits; of two workers one is the last to finish and one is not.
- *ecs*: three entities are the deleted one, one that links to it and one whose row
  moves because of it; two relations have one that is removed and one that fills its
  place.  `FewItems` does not follow a store with more than `MaxItems` links,
  relations, children and other components together (the last, and a second relation,
  count twice): three are an entity with a child, a link and a relation, or two
  relations alone.  Rows are proved exact for any number.

All bounds are constants: `MaxEvents`, `MaxRequests`, `MaxToggles`, `Conns` (guards
of publishing, of requests, of `SetQueueEvents`, of reconnecting), `MaxAdds`,
`MaxConns`, `MaxFaults`, `MaxSockets`, `MaxClicks`, `MaxJobs`, `MaxRelations`,
`MaxItems`.  Deadlock is not checked where the bounded program stops
(all events published, all requests, jobs or clicks done); `lock`, `queue` and `ecs`
check it.

Each property has a mutant in `PROJECT.json`: a plausible defect of a mapped
definition under which TLC finds the property violated, so no property holds
by the shape of its model.

## 5. Fairness and assumptions

- *Weak fairness of threads.*  The send loop, request handlers, both ends' receive
  loops and the client run as long as they can: each waits only in an `await` or a
  lock, and the thread pool runs what is ready.  No fairness is assumed of
  publishing, breaking, closing, toggling or of calling `SyncTasks()`; only the
  acknowledge timer fires (`AcknowledgeEvents`), as it is a .NET timer; the one of the
  browser (`AckTimer`) is the only fairness assumed of the Explorer.  A lock is
  released by who holds it (`FairSpec` of the lock is fair to `Release`), and its
  waiters are served in the order they came, which is how `SemaphoreSlim` queues
  asynchronous waiters.  The threads of the job runner are operating system threads
  that run when they can; no fairness is assumed of starting a job or of `Dispose()`.
- *Set apart* (`SetApart` of `EventDelivery`): a client does not set `queueEvents` while
  the send loop is about to clear its events.  Nothing in the code enforces this.
  `RetainedCorrect` needs it; the run of `RetainedUntilPassed`, `delivery_race`, does
  not set `queueEvents` at all.
- *Calm reconnects* (`CalmSpec` of `EventDelivery`): `SetApart`; moreover the receiver is
  replaced while the send loop is idle, the loop starts again after the resend was
  prepared, and no late request of an old connection takes the receiver back.  Not
  enforced either.  `ProcessedInOrder`, `RetainedUntilPassed` and the lossy log do
  without it.
- *Not overtaken* (`Subscriptions`): a client in `overtaken` is excepted from
  `EligibleIsSendClient` and `QueuedIsSent`; nothing about the steps is assumed.
- *No first reader is cancelled* (`SafeSpec` of the lock): justified, because
  `FileContainer`, the only user, passes no token.
- *calm* in `WebSocket`: no `Release()` of the receive loop fails, the connection
  does not break while a request is being sent or while the client's receive loop
  is outside of `ReceiveAsync()`, and it is not closed with requests pending.  Not
  enforced; `NoLostWakeup` and `ClosedHostEnds` do without it.
- *On course* (`astray` of the Explorer, `overlapped` and `lost` of its subscriptions)
  and *before the first fault* (`faults` of the store): the properties hold until the
  code meets one of the weaknesses of section 7.  `LogExact`, `EventsAcknowledged`,
  `ImplementsForkJoin` and everything about types do without it.

- *Finitely many entities* (`EntityStoreAssumption`): an id is an `int`, an index into the
  array of nodes.

## 6. Proofs

All proofs are for every value of the constants that satisfies the named
assumptions of the modules.

**EventDeliveryProofs**: `TypeCorrect`, `OrderCorrect`, `ProcessedInOrderCorrect`,
`RetainedCorrect`, `DeliveryImplementsLossyLog`, `DeliveryImplementsFifoLog`,
`NoEventSkippedCorrect`.  `ProcessedInOrder` is not
inductive: a message may be resent while newer ones are on the way, so one has to
know that any two messages, in whatever buffer or connection they are, are ordered
as their `seq`s, and that equal `seq`s mean equal messages (`MessagesOrdered`);
that events not yet in a message are newer than all of those (`PendingOrdered`);
that `syncEvents` is filled exactly while the loop writes (`LoopShape`); and that
`lastEventSeq` is that of the last message processed (`ClientOrdered`).  Their
conjunction `OrderInv` is inductive.  The proof shows for each step that the new set
of messages is contained in the old one, up to the message just written
(`MessagesKept`), so most steps need no argument of their own.

- *Retention.*  `RetainedCorrect` assumes `SetApart`: a client does not set
  `queueEvents` between the test of it in `SendEvents()` and the lock in which the
  events not yet sent are cleared (`EventSubClient.cs:193-198`).  Nothing in the code
  enforces this, and without it the clear may drop events the client by then counts
  on; the run does not meet it, because there `queueEvents` is only cleared.  What is
  acknowledged needs no invariant of its own: an event of an acknowledged message was
  processed or passed, because the seq of the message is at most `lastEventSeq`
  (`AcknowledgedIsPassed`).
- *The lossy log* needs `LogInv`: events increase inside of a message and of the
  buffers a message is made of.  With `OrderInv` it makes the message the client
  processes the next batch of the log; every other step publishes or stutters.
- *No event is skipped*, `NoEventSkippedCorrect`, is proved of `CalmSpec` (section 5), for
  a client that may change `queueEvents` at any time.  What is lost while it is not set
  does not matter, so the invariant `GaplessInv` is about the messages that are `Due`:
  with an event published since the client queues them (`Matters`) and a `seq` above its
  `lastEventSeq`.  A queue is `Complete` if before each of its messages stand all due
  ones with a lower `seq`.  `sentEventMessages` is complete and has all of them
  (`SentComplete`); so is what is on the connection followed by what the loop has in its
  hands, unless a resend is still to come (`OnTheirWay`); of the messages up to
  `lastEventSeq` that matter all are processed (`ProcessedComplete`); and an event is
  held by the hub or processed (`NoneLost`).  A message the client reads next then has
  no due message below it that was not read before.  `CalmLoop` and `ConnectionsInOrder`
  say what `Calm` gives: one target per run of the loop, and nothing on the new connection
  before the resend.  In this proof the need for `SetApart` was found: with only two
  events the run had not shown it.
- *The log without gaps*, `DeliveryImplementsFifoLog`, follows: if `queueEvents` was set
  from the start and nothing is skipped before or after the client reads a message, the
  first event of the message is the one after the last read, and each other the one
  after the one before it (`ProcessedContinues`).

**SubscriptionsProofs**: `SubsMapExactCorrect`, `EligibleIsSendClientCorrect`.  That
`databaseSubsMap` and `sendClients`, which requests read without the lock, are what
`databaseSubs` and `sendClientsMap` make of them is kept by each critical section,
because each that changes the latter makes the former again (`MadeExact`); what needs
proof is that a request which continues after it has left the lock still names clients
and databases that exist (`RequestsValid`).  `EligibleIsSendClient` is proved of
`Spec`, with both races in it.  Its invariant `SentInv` says that a client which is eligible
although a request is about to remove it is overtaken (`RemovedIsOvertaken`), that a
client between the halves of `std.Client` or with `queueEvents` set is a send client or
overtaken (`HalfwayIsSent`, `QueuingIsSent`), and that a connected one is too, or is
about to be added by the request that noticed the connection (`ConnectedIsSent`).

**ThreadingProofs**, of `AsyncReaderWriterLock`: `LockCorrect`, `MutualExclusionCorrect`,
`LockImplementsReaderWriter`.  Mutual exclusion needs to know who has taken which
semaphore: `WriteTaken` and `ReadTaken` say that a semaphore is taken exactly while
one task is at a step that holds it, or, for the `readSemaphore`, the readers
together; `ReadersCounted` that `readerCount` is their number.  The specification is
`SafeSpec`.

**ThreadingProofs**, of `JobRunner`: `JobCorrect`, `JobRunnerImplementsForkJoin`.  That a task runs once
needs to know where every worker can be while the caller is at a step: `RendezvousInv`
says that the counter is the number of workers that passed their task, that
`allWorkersFinished` is only set when all of them wait at the barrier, and `WorkerInv`
that a worker is at most one barrier behind.  `Dispose()` weakens what is known of
`startWorkers` only, so the refinement holds with it.  The number of workers is any
positive number: the steps use facts about the cardinality of the set of workers
that were counted.

**MessageBufferQueueProofs**: `TypeCorrect`, `IntactCorrect`, `BuffersFitLoadCorrect`,
`QueueImplementsFifo`, after lemmas on what each operation of the ring does to the
sequence it stands for.  `Intact` is not inductive without `BufferInv`: a write would
overwrite a message handed out if both buffers could be the same array, or a queued
one if it could lie above the write position.

**WebSocketProofs**: `TypeCorrect`, `NoLostWakeupCorrect`, `OneAnswerCorrect`,
`CanceledIfBrokenCorrect`.

- *Wake-ups.*  `NoLostWakeup` speaks of a send loop that waits.  It is inductive
  once it also covers the loop while it sends (`SomeoneWakes`): messages queued then are
  waiting when it is done.  That a sender which is about to release the semaphore is not
  overwritten by another request needs `SentOnce`: a request is on its way to the host
  at most once, on its own connection, and has no job before it is read.
- *One answer.*  The number of places where an answer to a request can come from
  (the request on its way, its execution, its response in the queue, in the batch or on
  the way back) is counted with `Occurrences`, whose value for `Append`, `Tail` and the
  empty sequence is proved from the cardinality of its set of indexes.  Every step of the
  host keeps the count while the connection is open (`AnswersHost`); sending makes it
  1 and receiving 0 (`AnsweredOnceClient`).  It needs to know what nothing else in the
  code says: a request that waits is in the map of its connection and in no other
  (`Expecting`), and while `calm` no response is written twice, none is without a `reqId`
  (`CalmConnections`), so that the response that arrives is always expected
  (`ArrivesOnce`) and the receive loop cancels only what broke.

**ExplorerEventsProofs**: `TypeCorrect`, `LogExactCorrect`.  The log is built in two
ways, anew and by appending; `LogExact` needs that events only arrive at the end
(`subEvents` keeps its prefix), that `cleared` is a position in it, and for the count
that the positions already shown and those added are disjoint.

`TreeShowsCorrect` (`TreeShowsSubscriptions`) rests on `ToggleInv`, which follows a toggle
over all sockets.  A request id is in at most one message, the request or its answer
(`IdInv`).  While toggles do not overlap (`OnCourse`) one is in flight at most
(`OneToggle`); a request about any other entry that is on its way concerns one that is
`lost` or is followed on its socket by the one in flight (`OthersLost`); pending
requests were sent for the client id the page has, or for none (`Asked`); and with the
answer that grants a toggle the tree agrees with the client that answer names, which
may be new (`Answered`).  What the host does with a request nobody waits for can then
only change entries that are lost or in flight.

**EntityExplorerProofs**: `TypeCorrect`, `TableCorrect`, `EditorCorrect`,
`HistoryCorrect`.  Types are kept whatever goes astray (`PageInv`); it needs to know what
each kind of request carries, that no two have the same number, and that an editor of
entities and a table always name a container.  The other three are inductive together
(`CourseInv`) up to the first handler that goes astray.

- *Table.*  The load request of the shown explorer record is pending exactly for the
  container of that record, and has no table yet; a record that was answered has the
  shown table.  What keeps an old answer from passing for a new one is that a request
  for more was never sent for a record whose load is still pending (`TableInv`).
- *Editor and history.*  A pending request with the number of `entityIdentity` is for
  its container (`EditorInv`), because every handler that changes the container also
  changes the number.  Ids entered by the user are the identity's before they are in
  the history, and join it with the answer (`HistoryInv`, `Entering`).

**EntityStoreProofs**: `StoreCorrect`, that `StoreInv` holds: types, `RowsExactUntilFault`
and `DeletingExists`.  The lemmas say what each operation of `Archetypes` does to an
exact storage: `MoveLastComponentsTo()` at the row of an entity leaves all but this
entity exact (`ExactAside` to `ExactBut`), and `AddEntity()` makes it exact again, or the
node is cleared and the entity is gone.  `DeletingExists` is needed for the last step of
a deletion, which uses the position read first: unless that is a fault, it is still
the entity's.  A removed relation keeps the rows exact because the position it stores
in a node is, if it is no fault, the one that stands there.

`RelationsCorrect` (`RelationsExact`) rests on `RelationsInv`, which adds two facts.  No
relation has two rows (`RelationsOnce`): otherwise the target would leave the map of
incoming relations with the first of them.  And when the links to a deleted entity have
been collected, it has no relations left and the entities with a relation to it are all
in the list that is still to be worked off (`DeletedUnrelated`), so that none is left
when the node is cleared.

`LinksCorrect` (`LinksExact`) rests on `LinksInv`: besides the exact index, every link has
a target, and the entities with a link to a deleted entity are in its list
(`LinksCollected`).  Since the operations on components move rows of other entities, the
lemmas `MoveLastValues`, `AddEntityValues` and `MoveEntityToValues` say that the
components and values read through the nodes are the same after the move (`SameEntity`),
and `ValueRemoved`, `ValueAdded` what the two index operations do to an exact index.

`TreeCorrect` (`TreeExact`) rests on `TreeInv`: while there is no fault the child lists and
the parents agree (`ChildrenExact`, stated without the storage by `ListsExact`) and no
entity is above its parent (`NoCycle`), and after a step of the tree that failed one of
the two does not hold (`Damaged`).  The branch of an entity, a
number of steps up in the model, is the least set with it that is closed under
`Parent` (`BranchesAreExact`): the ascent cannot grow more often than there are
entities, by the well-foundedness of the numbers (`LeastNumber`, `Stepwise`), which
stands for the induction over the path.  After that a new parent that is not below
its child cannot close a cycle (`NewParent`), because the old branches with the new one
added are closed.  What the operations do to the lists is proved from
`WithoutValues` and `InsertValues`, which say what a list without an entity and with one
more has at every index.  That each fault does damage is one lemma per operation: a list
that was written with a child that keeps its other parent or is in it twice is wrong
by itself (`ListsDamaged`), and a child above its new parent closes a cycle once it is
adopted (`CycleClosed`, `LoadEntityDamages`).

`StoreImplementsEntities` (`ImplementsEntities`) puts these together.  Its inductive invariant
`EntitiesInv` adds only that no entity that is gone has relations (`RelatedLive`), which
makes the owner of a relation that a deletion removes one that `Relate` may change.  The
`Mapped...` lemmas say when a step of the store is one of the map: adding and removing
other components, `DeleteEntity()` up to its first removal and `CollectLinks` are
stutters, every relation and link a deletion removes is a `Relate` or a `Link`, and the
step that ends it is `Delete`, which may not come before nobody links to the
entity: that is `LinksCollected` and `DeletedUnrelated` with nothing left to work off.

## 7. Findings

Two runs are violated by what the code does, and each contradicts a sentence of the
repository, quoted in `PROJECT.json`.

- `delivery_skip`: during a reconnect the send loop can send a new message on the new
  connection before the unacknowledged ones; the client then ignores those.
- `ecs_rows`: `RemoveEntityRelation()` fills the gap with
  `Archetype.MoveLastComponentsTo()`, which stores the position of the moved relation as
  the position of its owner's components.

Other weaknesses are in the models, and excluded from the properties by the assumption
or history variable named here:

- *Delivery*: after a reconnect nobody wakes the send loop if all events of the client
  are unsent; they wait for the next event.  With `EventDispatching.Queue` messages that
  were not acknowledged are never sent again (`SendUnacknowledgedEvents()` does nothing).
  If a client sets `queueEvents` just when the send loop, which found it not set, is
  about to clear the events not yet sent, those are lost (`SetApart`).
- *Subscriptions* (`overtaken`): a publisher removes a client from `sendClientsMap` that
  has come back since it was found gone, or that `std.Client` added and is about to let
  queue.  It is left out until it subscribes again or comes back on another connection.
- *WebSocket* (`calm`): `MessageBufferQueueAsync.AddTail()` may throw although the
  message is queued; a request is then answered twice, and the client cancels every
  pending request of the connection.  If the connection breaks, `SendReceiveMessages()`
  awaits its send loop for ever.  Requests wait for ever for `sendLock` when
  `SendAsync()` throws.
- *Lock* (`SafeSpec`): a cancelled first reader leaves the counter raised.
- *Job runner* (`~running`): `Dispose()` during a job may leave its caller waiting,
  with the lock.
- *Explorer* (`astray`, `overlapped`, `lost`): answers are applied to whatever the page
  shows by then, so that the text of one entity can stand in the editor of another;
  `onclose` of a replaced socket rejects the requests of the new one; a request that was
  rejected may still reach the hub on its socket after a later one about the same entry
  on the new socket; a request made without an open socket is registered and never sent.
- *Entity store* (`faults`).  `"row"`: besides `ecs_rows`, `DeleteEntity()` uses a position
  it read before the links to the entity were removed, which may have moved its row
  (`Entity.cs:529`).  `"relation"`: a deleted entity stays in the map of incoming
  relations (`EntityRelations.cs:232`).  `"child"`: `InsertChild()` of the last child
  after itself, or of a child at a negative position, moves it and fails
  (`NodeTree.cs:181`); loading fewer children leaves the parent of the others set
  (`NodeTree.cs:239`); a deleted entity keeps its own parent, which it has when it is
  created again (`NodeTree.cs:528`).  `"list"`: a list with a child of another parent, or
  with one that is above its new parent, is written before the exception is thrown
  (`NodeTree.cs:239`, `372`, `390`), so that the child is in two lists or the cycle in
  the store; a list with a child twice is accepted.

## 8. What is only model-checked, and what is not modelled

Liveness (`ConnectedProgress`, `SentIsProcessed`, `QueuedIsSent`, `NoStarvation`,
`EveryRequestCompletes`, `ClosedHostEnds`, `EventsAcknowledged`, `JobReturns`) is checked
by TLC only: fairness is out of reach of the prover.

Not modelled inside the modelled parts:

- *hub*: raw events (`SendRawSyncEvent`, `SendRawEventMessage`) and `StopDispatcher()`;
  a restart of the hub, after which `eventCounter` starts again; the content of entity
  filters; malformed messages;
- *Explorer*: editing of single cells, example requests, requests of the playground over
  REST, `setClientId()`, the texts and counters of the tree, schema and layout;
- *entity store*: changes of several components at a time, component values, bulk
  creation, cloning, scripts, names, `SetChildNodesWithEvents()`, the store root, handlers
  that change the store, growth and shrinking of arrays; relations with other keys and
  indexes of other values; queries, systems, batches, serialization, command buffers.

Not modelled parts are listed in `PROJECT.json` with the reason: pure conversions,
I/O and user interface, or parts the plan of section 2 comes to later.

On coverage: the repository is a C# code base.  Of its JavaScript and TypeScript, the
vendored Monaco editor and TypeScript service are most of the lines and are third party
code, and the files in `explorer/js` are compiled from `explorer/src`; the models cover
the WebSocket client, the event view, and the logic of table and editor in
`explorer/src`, and beyond it the C# files named in the map.

# ChatFlow, specified and verified in TLA+

ChatFlow is a WebSocket chat server in Go (`server/`, `server-v2/`, `internal/`,
`pkg/`) and two load-test clients (`client/`, `client-part1/`, `client-part2/`).
This directory holds TLA+ models of its concurrent parts, the TLC
configurations that check them and TLAPS proofs about them. `PROJECT.json` maps
every definition to the lines it models. Paths are relative to `src/`.

## 1. The system

### Components

| Component | State | Operations | Correct when |
|---|---|---|---|
| Chat room (`internal/server/chatRoomHandler.go`, `server.go`) | `Room.Users`, `Room.Broadcast`, `Client.Send` of each connection, `Server.UserRooms`, contexts | upgrade, JOIN, TEXT, LEAVE, read error, broadcast and publish, removal in order or directly, fan-out, shutdown | no send on a closed channel; one connection per user id; the index agrees with the rooms; the last messages reach a leaver; handlers return |
| Responses (`pkg/models`) | none | `NewMessage`, `Validate`, `NewResponse` | a valid message becomes a 200 response with its content |
| Publish pipeline (`internal/rabbitmq/server.go`) | `publishChan`, `tempBuffer`, the circuit breaker, `stateChanged` | `Publish`, `publishWorker`, `publishDirect`, the state watcher | a message is in one place, is attempted at most once, and is not lost without a record; `Publish` returns |
| Consumers (`internal/rabbitmq/server.go`, `server.go`) | one queue per room and server, credits, `Rabbit.handlers` | deliver, look up the room, filter own messages, accept in a goroutine of its own | a room sees a message once; no credit is lost; queues do not stall |
| Lag monitor (`internal/rabbitmq/server.go`) | two atomic counters | add, swap | no sample is lost |
| Room directory and locks (`internal/server/server.go`, `metricsHandler.go`) | `Server.Rooms`, `Server.Mu`, `Room.Mu`, `UserRoomMu` | create a room on its first JOIN, iterate over rooms | one room per id, no lock cycle, no map written while it is iterated over |
| Client connection pool (`client/ws/pool.go`, `wsClient.go`) | `Pool.Conns`, `Pool.Sem`, `WsClient.Send` | `GetOrCreateNewWsClient`, `Remove`, `CloseAll`, `Read` | the semaphore counts what is open; one connection per key; none forgotten |
| Fan-out load test (`client/fanout.go`) | one session per user and room | connect, JOIN, TEXTs, LEAVE, Remove | sessions end and return their slot |
| Pipeline load test (`client/pipeline.go`, `client/ws/client.go`) | `roomChan`, `metricChan`, `statsChan`, `Wg`, a deadline | generate, write, read, collect, close, summarise | the test ends, does not panic, and its summary is complete |
| Message generation (`pkg/generate`) | none | `NewRooms`, `NewSessionMessages` | session counts add up |
| HTTP pages, health, metrics, configuration, CSV | none of their own | read, print | - |

### Interaction

Every WebSocket connection has a handler goroutine (it reads) and a writer
goroutine (it drains `Client.Send`). All handlers of a room write to
`Room.Broadcast` without blocking; one broadcast goroutine per room fans out
under `Room.Mu` and carries out queued removals, so that a removal cannot
overtake what the leaver is owed. After offering a response to the room a
handler blocks in `Rabbit.Publish`, whose workers send through a circuit breaker
and put refused messages aside for the state watcher. Consumers offer the
messages of other servers to `Room.Broadcast`. Cancellation of the server's
context reaches handlers, writers, broadcast goroutines and publish workers, in
no particular order. On the client side, sessions share a pool bounded by a
semaphore; the pipeline test joins its goroutines by channels and a `WaitGroup`.

### What is hard about it

Channels are closed by one goroutine and sent on by another; full channels drop
events or switch to another path; removal events name users while connections
come and go; two mutexes protect two views of membership; the breaker, the
watcher and the workers feed each other; timeouts race late answers; slots must
be returned on every path. `PROJECT.json` lists these hazards at their lines,
each with the properties that would catch it, or why none does.

## 2. Modules

| Module | Models | State and actions |
|---|---|---|
| `ChatRoom` | one room: handlers, writers, broadcast goroutine, consumer, shutdown | `hpc`, `wpc`, `bpc` are the goroutines' positions; `users`, `userRooms`, `broadcast`, `send`, `publishChan` are the Go variables. One action per critical section, channel operation or call on a connection, named after the function it belongs to. |
| `RoomDirectory` | all rooms of a server and the locks around them: room creation, JOIN, removal, the goroutines that walk over the rooms | `pc` is every goroutine's position; `writer` and `readers` are the `RWMutex`es; `rooms`, `consumer`, `users`, `userRooms` are the maps the locks protect. A step takes a lock and runs to the next lock or unlock. |
| `RoomMembership` | the promise: who is in the room, and for which id | abstract; `ChatRoom` implements it with the mapping `member <- users`, `listed <- userRooms`, `phase` from `hpc`; `RoomDirectory` implements one instance of it per room id |
| `PublishPipeline` | handlers in `Publish`, workers, breaker, `tempBuffer`, the state events of both AMQP connections, watcher | `fate`, the queues, `worker` and `watcher` say where each message is; breaker actions follow gobreaker as `rabbitmq/server.go` configures it (external) |
| `Publisher` | the promise: a message is handed to AMQP once, or dropped with a record | abstract, one variable `stage`; `PublishPipeline` implements it for each message (`Stage`) |
| `Delivery` | several servers and the broker: a message's way from `broadcastAndPublish` through the queues to every other server's room, the consumer's credits, the lag counters and their monitor | extends `Publisher`, which stands for the pipeline; `sender` is where each message's handler is in `broadcastAndPublish`; `queue`, `credits`, `accepting`, `unacked` are the broker's view, `consumer`, `lagTotal`, `lagCount`, `monitor` the server's |
| `ConnPool` | the pool, its connections and the fan-out sessions that use it | `pc` walks through `GetOrCreateNewWsClient` and the session; `conns`, `sem` are the pool's |
| `ClientPipeline` | generators, writers, readers, `WsClient.Read`, collector, main, deadline | `wpc`, `rpc`, `cpc`, `mpc` are the goroutines' positions; the channels are counted or kept as sequences where their content matters |
| `MC...` | instances for TLC (symmetry, key assignments, origins) | |
| `ChannelCounts` | lemmas about channels as sequences: how often a value occurs after a send or a receive | used by the next two |
| `ChatRoomProofs`, `RoomDirectoryProofs`, `RoomDirectoryRefinement`, `PublishPipelineProofs`, `DeliveryProofs`, `ConnPoolProofs`, `ClientPipelineProofs` | theorems and proofs | |

How they fit together: `ChatRoom` treats a JOIN and a direct removal as one step
each; `RoomDirectory` has the locks that make them so, and both are shown to
implement `RoomMembership`. `Delivery` takes publishing as `Publisher` promises
it, which `PublishPipeline` is shown to keep, and it ends where a remote message
enters `Room.Broadcast`, which is an action of `ChatRoom`.

Abstractions, and why they are sound:

- A step is one shared-memory or channel operation; code between two of them
  that touches only a goroutine's own data is merged into its neighbour.
  In `ChatRoom`, `AddUserToRoom` runs under `Room.Mu` and `UserRoomMu` together
  and is one step; the removal in the broadcast goroutine updates the index
  after it unlocks and is two. In `RoomDirectory` a critical section that takes
  no other lock and touches one variable is one step.
- Fan-out to the members is one step in `ChatRoom`: it happens under the read
  lock, so membership cannot change (`NoWriteWhileReading` of `RoomDirectory`),
  and the sends to different clients commute.
- What `FanOut` or `WsClient.Read` still puts into a channel whose reader has
  returned is forgotten, as nothing can observe it.
- A response carries its status, its type and the connection it came from; text
  and ids of messages are left out. Validation is modelled where the program's
  own behaviour decides it: the timestamp (`NewMessage` sets none) and the id.
- `server/main.go` runs without RabbitMQ. There `Publish` is skipped, which is
  `Publish` finding room at once.
- An `RWMutex` in `RoomDirectory`: a writer that has to wait for readers is
  entered (`Request`) and from then on keeps out new readers and other writers,
  as `sync.RWMutex` documents; a writer that meets a free lock takes it at once.
- In `Delivery` the broker copies a message into the queue of every server that
  is connected (`Route`); queues are exclusive to a server and deleted with it.
  `publishDirect` ignores the broker's outcome, so a message that has been
  handed over may be routed or lost. The handler's offer to its own room and its
  `Publish` are two steps. `Accept` runs in a goroutine of its own, and may fail
  or never return, as its context has no deadline (`unacked` counts both); the
  AMQP client's recovery of a lost consumer connection is left out. A lag sample is one millisecond, so that `LagConserved` can compare the
  sum with the count.
- In `PublishPipeline` the early returns of `publishDirect` before the breaker
  (`rabbitmq/server.go:327-337`: the message cannot be encoded, or has no
  address) are left out: what they guard is built by the server itself and always
  succeeds. Either connection's recovery reports `StateOpen` to the same
  watcher (`Reconnect`, `ConsumerReconnect`); only the publishers' decides
  whether a publish can succeed.
- In `ConnPool`, callers may share a key, as `pool.go:74-75` provides for; the
  two load tests give every session a key of its own, the special case of an
  injective `KeyOf`.
- In `ClientPipeline` the turns of the generators are not tied to each other;
  a user's own sessions are queued in order in the code, which only removes
  behaviours. Taking a slot, dialling, closing and giving the slot back are steps
  of their own; the pool's map is left to `ConnPool`, since every session has a
  key of its own here.
- Counters that only feed logs, `/metrics` and the summary are left out.

## 3. Runs

Bounds are the constants of the `.cfg` files; all of them are named in the
modules. "V" marks a run that shows a disagreement and ends in a violation.

| Run | Bounds | What it shows |
|---|---|---|
| `room_safety` | 2 connections of 1 user, buffers of 2, messages with and without timestamp, 1 TEXT or remote message | join, leave, drop, rejoin and shutdown in every order: no send on a closed channel, index and members agree, nothing of a leaver behind its removal, its echo written before its handler returns, no departure forgotten on the way, nobody evicted who has not asked, and the room implements `RoomMembership` |
| `room_liveness` | 2 connections, 1 user, no TEXT | leaving or disconnected handlers return; ids become free |
| `room_leave_echo` (V) | 2 connections of 1 user | a stale LEAVE reaches the user's next connection |
| `directory` | 2 connections of 1 user racing for a new room, a second room from earlier, 1 monitor, 3 room objects | one room per id, always somebody who can run while a lock is held, no map written while it is read, an index that counts exactly what it lags behind, every operation ends, each room id implements `RoomMembership` |
| `publish` | 4 messages, 2 workers, capacities and thresholds of 1, 1 outage | each message in one place, drops counted once, `Publisher` is implemented, `Publish` returns although the watcher competes for its queue |
| `publish_retry` (V) | 2 messages | buffered messages can wait for ever |
| `delivery` | 2 servers, 1 message from each, 1 credit | no message twice in a room, none in a remote room before its own, no credit and no lag sample lost, queues stall only when Accepts that failed or never return hold every credit |
| `pool` | 3 callers, 2 on one key, 2 slots | slots balance, never more open connections than slots, no connection is orphaned, all slots come back unless a session was abandoned, sessions end, slots are handed on |
| `pool_leak` (V) | 2 callers, 1 slot | a failed JOIN keeps its slot until the end |
| `pipeline` | 2 sessions of 2 messages, 1 slot, 1 response besides the echo, buffers of 1 | the summary is complete, open connections hold slots, a panic needs an abandoned writer, and the test ends unless a reader blocks on a metric channel its collector has left |
| `pipeline_hang` (V) | 1 session, 2 responses, buffers of 1 | that hang happens |
| `pipeline_wait` (V) | as `pipeline`, with room for every metric | a writer that gives up does not wait for its reader |

Why these bounds are enough: each hazard of a room involves one user with two
connections (old and new) at a channel that is full; buffers of two distinguish
first from last and full from partly full, and in `ChatRoom` a third event can
only be dropped. Users with different ids meet only in the channels, and the
proofs cover any number of them. Liveness of a room does not depend on what
fills a channel, so that run has no TEXT: its LEAVEs and removals fill it.

Two connections are enough for the race of two first JOINs, and they are also
the two that compete for one user id; the third room object is the one a second
creation would take. The room from earlier gives the monitor a room to visit
while the first is still being created. One monitor is enough because readers
do not exclude each other: more of them only hold a lock longer, which the
waiting writer and strong fairness already account for; the safety properties
are proved for any number.

In the publish pipeline two workers are needed to have requests of two breaker
generations in flight; four messages fill both queues of one and both workers,
and with thresholds of one they suffice to trip the breaker, buffer a message,
recover, drain it and trip again while it is on its way. The code's thresholds
(5 failures, 5 probes) only make that sequence longer, and the safety theorems
hold for all of them. Messages behave alike, so `PublishReturns` observes one
(`Observed`). The one outage is of either connection, so that the watcher's
`StateOpen` comes with the breaker open, half-open or closed.
In `Delivery` one credit is the case in which every lost credit stalls the
queue; a message in each direction makes a server both sender and receiver.

Two callers on one key make the duplicate dial, and a third on another key
competes for its slot. Two sessions and one slot make one session wait for the
other; the reader of an abandoned session overlaps with the next. A
`MetricBuffer` of one is the case the load test of `client-part2/main.go` is in
at its deadline: 60000 places for some 25 million responses. `StatsBuffer` has
room for every session, as it has there (60000 for 1000 sessions).

`delivery` does not check for deadlock: once every server has stopped, nothing
is left to do. Every other passing run does: `Terminated` in the module names
the end states that are intended, or a run has none.

Mutants. Each property of a passing run has a mutant: an operator next to the
one it mutates, which makes a plausible mistake (a dropped guard, one half of
close-and-delete, a second check forgotten, a lock kept on an early return) and
breaks the property.

### Fairness

Weak fairness of a goroutine's next step stands for the Go scheduler. Blocked
senders of a channel are served in turn, hence strong fairness of `Publish`
(`ChatRoom`), `Republish`, `Acquire` and the handlers' sends in `Enqueued`, of
which some one proceeds (a message is sent once, so each does). In
`ClientPipeline` a session sends a bounded number of times, so weak fairness is
enough there. A write ends by its deadline and a closed
connection ends `ReadJSON`. Peers, the broker and the user owe nothing: no
fairness of TEXT, LEAVE, JOIN, of responses, of reconnection or of
cancellation. Publish workers are fair until cancellation only, since they stop
at it. Writes of the load-test client have no deadline; that they return assumes
a server that goes on reading. The pipeline test's deadline passes.

`RoomDirectory`: a goroutine that waits for a lock is served in the end, because
`sync.RWMutex` lets the readers that waited in before the next writer and queues
the writers. Its operations are strongly fair; beginning one (`Lookup`, a
removal, `FanOut`, `WalkStart`) is not fair at all. `Delivery`: a consumer goes
on, and an `Accept` comes to one of its outcomes; that it fails and that it never
returns are among them (`unacked`), so nothing is assumed about how long the
broker takes to settle a delivery. Nothing makes a server start, a handler
publish or the broker route, and nothing makes an `Accept` succeed. Hence the
escape of `QueuesDrain`: a consumer all of whose credits are held by such
`Accept`s. A load test of this design ran into it
(`docs/assignment2/TUNING.md:276`: consumers frozen, 6,088 messages unacknowledged;
`REPORT.md:235` names the risk), and section 5 has the statement it refutes. What
`QueuesDrain` adds is that there is no other way to stall.

## 4. Proofs

All theorems hold for every value of the constants that meets the `ASSUME` of
the module: buffers have room for one element, the null values are not
elements, goroutines of different kinds and different locks are different, and
workers, callers and keys are finite sets.

`ChatRoomProofs` proves `TypeOK`, then the inductive invariant `IInv`:

- a member's handler has joined under the id it is registered for
  (`MembersJoined`), and a handler that has joined and not yet scheduled its
  removal is still registered (`HandlersRegistered`);
- a connection that has not joined yet has an open `Send` (`FreshSendOpen`);
- a handler announces messages of its own client only (`OwnResponses`);
- `NoSendOnClosed`, `IndexMatchesMembership` and `NothingBehindRemoval`.

The last three are not inductive alone: that a removal takes out the connection
it was scheduled for needs that connection to be registered still, which in turn
needs that nobody else's removal is queued for its id, and that is
`NothingBehindRemoval` again. From `IInv` follow the
action property `OnlyDepartedRemoved` and, one step at a time,
`MembershipImplemented`: the room implements `RoomMembership`.

`LeaveEchoBeforeReturn` is proved on top of it (`EchoFirst`). Its own invariant,
`EchoPending`, says where an accepted LEAVE is until it is written: in
`Broadcast`, while the leaver is registered, or in the leaver's `Send`, and all
the while the writer runs. The step in which the writer ends because `Send` is
closed and empty is where it could break: `NoSendOnClosed` says that the leaver
is then no member, so nothing of it is queued; and `NothingBehindRemoval` that
the removal which closes `Send` has not overtaken the LEAVE.

`DeparturesKept` proves `DepartureUnderway`, the safety half of
`HandlerReturns`: a handler that waits for its writer, or has returned, is out
of the room with `Send` closed, or its removal is still queued. Inductive with it
is `FreshUid`: a handler has no id before its JOIN. The step that could break it
is the broadcast goroutine's: it takes one event out of the queue, and must take
out of the room exactly the connection that event was queued for. The theorem is
about ids other than `EmptyId`; for that one it is false (section 5).

`RoomDirectoryProofs` proves that locks do what their names say. The properties
speak of rooms, maps and the order of locks; what is inductive is that a
goroutine's control point determines the locks it is entered in: `WritersAt`
(a lock's writer is about to take it, or is a handler inside its critical
section) and `ReadersAt` (exactly the fan-outs and the walkers read). With
`LookedUp` (whoever has looked up a room holds that of the directory, and a
walker's list names rooms that exist) and `DirectoryTypes` (no two ids share a
room, a consumer's closure belongs to the room of its id) this gives
`OneRoomPerId`, `LockOrder` and `NoWriteWhileReading`. The proof is organised by
which goroutine moves: `WriterStep` and `ReaderStep` show once that the others
keep their locks, and each action has only its own to account for.
`LockOrder` says that locks are waited for in increasing rank. `NoDeadlock`
draws the conclusion, `LocksServed`: while a lock is held or asked for, some
goroutine that holds it or a later lock can run. A holder that cannot run wants
a lock of higher rank (`OrderKept`), which then has a holder of its own
(`WantedTaken`, `HolderOrLater`); there are three ranks (`Ranks`), so `AllServed`
goes down from the highest and needs no induction. It also shows that a lock
that is held has not been forgotten by goroutines that have all come to rest.

`RoomDirectoryRefinement` proves that each room id implements `RoomMembership`,
with locks and a directory where `ChatRoom` has atomic steps. `Registered` and
`MembersJoined` say that a handler in its room is the one registered there, and
nobody else is; `RemovalDue` that an ordered removal finds whoever scheduled it,
in a room of the directory. `IndexExact` is the count behind
`removeFromUserRooms`: a room is listed for a user once if it has a member of
that id, once more while a handler has still to update the index, and once more
while the broadcast goroutine has. That the second and third terms are at most
one each follows from `WritersAt` and from a broadcast goroutine removing one
user at a time; hence a late update always finds an entry, and never the
member's. The run checks the count as well (`IndexKeptExact` is its theorem):
it is what `/metrics` reports from the index.

`PublishPipelineProofs` counts. For every message, the number of times it is in
`publishChan`, in `tempBuffer`, with a worker, with the watcher and at its end
is conserved (`OnePlace`); `HoldersBusy` ties holding a message to being busy
with it, and `AttemptedOnce` counts attempts by what has become of the message.
The breaker's counts stay within their type (`BreakerTypes`) for a reason of
their own: a request that returns after the breaker has begun a new generation is
`stale` and counts for nothing, an open breaker has none but those in flight, and
the last success of a half-open one closes it. `DropCount` proves `DropsCounted`:
a message that passes from the queue to `tempBuffer` and back is seen by a
handler, a worker and the watcher in turn, and `OnePlace` is why only one of
them can end it, so that each drop enlarges `Dropped` by one element
(`OneMoreDropped`). The same invariant shows that every step is a step of
`Publisher` or leaves it unchanged (`Refinement`), and with the initial states
that the pipeline implements the whole of `PublisherSpec`
(`PipelineIsPublisher`), which is what `Delivery` builds on.

`DeliveryProofs` proves `Copies`: on a server other than its origin the copies
of a message that are queued, being handled or offered are at most the one the
broker made; on its origin the only offer is the handler's own, which it has made exactly
when it is past its first step. `AtMostOnce` follows. `CauseFirst` proves
`RemoteFollowsLocal`: what a remote room is offered was routed (`Copies`), what
was routed had been handed over, which the pipeline cannot do before the handler
has published (`RoutedPublished`), and a handler that has published has offered
the message to its own room before (`Copies` again). With the two steps of
`BroadcastAndPublish` in the other order (its mutant) the property fails.
`CreditsKept` and `LagKept` are inductive with types and with `HandlesOne` (a consumer holds a delivery while it handles one).

`ConnPoolProofs` proves types, `SlotsBalance` and `NoOrphanConnection` together.
The semaphore stays at or above zero only because it counts the connections,
and the count is right only while nothing is released after `CloseAll`
(`OverWhenClosed`). Each action adds or removes one element of `Pooled` or
`InTransit`; their cardinalities come from the library's theorems about finite
sets. Two theorems are about connections rather than slots. `OpenLimited` proves
`OpenWithinPoolSize`: an open connection is in the pool, is held by the caller
that has just dialled it, or is being closed by the caller that removed it. The
first kind is counted by its key, the second by its caller, the third by the
caller that closes it, and `SlotsBalance` counts the same keys and callers. After
`CloseAll` the pool is empty and stays so (`EmptyWhenClosed`). `OnlyAbandonedLeak`
proves `SlotsReturned`: with no session under way and none abandoned, no slot is
taken and no connection open. What is inductive is that an entry of the pool has
a session to remove it, or one that was abandoned (`Owned`), and that `CloseAll`,
which returns no slot, finds none taken by a session that has ended in order
(`SpentWhenClosed`).

`ClientPipelineProofs` proves `TypeOK`, `SummaryComplete` and
`PanicOnlyAfterAbandon`. Main waits for writers, while statistics and metrics
come from readers; what connects the two is `ReaderDone` (a writer that ends in
order has a reader that is done) and `Counted` (a reader that is done has handed
over its statistics). With `ClosedWhenDone` (main closes the channels only after
all writers) a reader that still sends on a closed channel belongs to a writer
that gave up. `SlotsCounted` ties the pool's slots to the sessions that hold
one, which is what keeps their number within its type. `OpenLimited` proves
`OpenHoldSlots`: a session with an open connection is at a point between its
dialling and its closing (`OpenWhileConnected`), where it holds a token; a session
that dials or has closed holds one with nothing open, so there are never more
connections than tokens. Main stops waiting only when every writer has given its
token back, whether or not its reader has noticed. `HangIsFinal` shows
that `Stuck`, the escape of `EndsUnlessStuck`, is what its name says: no step of
any goroutine leads out of it, so such a run ends neither in a summary nor in a
panic.

Two invariants have a theorem and no run: `LockOrder`, on which `LocksServed`
rests, and `AtMostOneAttempt`, a consequence of `ImplementsPublisher`, where a
message that is handed over stays so and a second attempt is no step. All other
theorems state what a run checks, or (`PipelineIsPublisher`, `HangIsFinal`) what
belongs to it.

Only model-checked: everything temporal under fairness (`HandlerReturns`,
`UserIdFreed`, `OperationsEnd`, `PublishReturns`, `QueuesDrain`, `SessionEnds`,
`SlotGranted`, `EndsUnlessStuck`): liveness under fairness is beyond the proof
system. What is safety about it is proved: `LocksServed` for
`OperationsEnd`, `DepartureUnderway` for `HandlerReturns` and `UserIdFreed`,
`SlotsReturned` for `SlotGranted`, and `HangIsFinal` about `EndsUnlessStuck`.

## 5. Findings

1. **A LEAVE can reach the wrong connection** (`chatRoomHandler.go:193`). With
   `Broadcast` full the user is removed at once while its LEAVE is still queued;
   after a quick rejoin the new connection receives it and takes it for its own.
2. **Buffered messages may never be retried** (`rabbitmq/server.go:247`). The
   watcher waits for the breaker to close, and only new messages close it.
3. **A failed JOIN leaks a slot** (`fanout.go:85`).
4. **A writer that gives up does not wait for its reader** (`client.go:260`),
   which may then send on a closed channel.
5. **The pipeline test can hang at its deadline** (`client.go:300`). The collector
   stops, a reader blocks on the full `metricChan`, its writer on the reader and
   main on the writer; no summary is printed.

The following are modelled, and stated in the modules as properties that TLC
refutes when they are added to the configuration named; they have no run of
their own.

- **Dropped connections are announced by a blank 422 response**
  (`chatRoomHandler.go:78`; `DepartureAnnounced`, an invariant for
  `ChatRoomSafety.cfg`). `models.NewMessage` promises a timestamp
  (`message.go:49`) and sets none, so validation rejects the LEAVE the server
  makes up.
- **Half-open is not a single probe** (`rabbitmq/server.go:144`; `SingleProbe`, an
  invariant for `PublishPipeline.cfg` with `MaxRequests` 5 as in the code).
  `ARCHITECTURE.md:147-149,300` describes one probe whose success closes the
  breaker; up to five requests go through, and five successes are needed. With
  the `MaxRequests` of 1 that the run uses, code and document agree.
- **A failed publish is forgotten** (`rabbitmq/server.go:357`; `FailedKept`, an
  invariant for `PublishPipeline.cfg`). Only what the breaker refuses is
  buffered; what fails while it admits is logged.
  `assignments/assignment2.md:127,130` asks for at-least-once delivery and for
  retries; the pipeline delivers at most once, which is what `Publisher` says.
- **Credits do not keep flowing** (`rabbitmq/server.go:225`; `CreditsFlow`, a
  property for `Delivery.cfg`). An `Accept` that fails or never returns keeps its
  credit, and when all are kept the consumer is frozen. The comment above it
  (lines 222-223) and `DESIGN_DECISIONS.md:23` say that a goroutine per `Accept`
  keeps credits flowing; `TUNING.md:276` reports the freeze. The model does not
  say why the broker withholds the outcomes.
- **The empty user id**: a user whose id is the empty string joins
  (`AddUserToRoom` does not validate ids), and the event that should remove it
  reads as a response, because `removeUserId == ""` means "no removal"
  (`server.go:284`). With `EmptyId` in `UserIds`, `HandlerReturns` does not hold.

## 6. Not modelled

- Message generation (`pkg/generate`): sequential code that draws random
  messages; the models take any message. `NewRooms` does not end when more
  than its twenty ids are asked for.
- The poll of RabbitMQ's management API in the lag monitor: it is logged only.
- Recovery of a lost consumer connection: it happens inside the AMQP client.
- The order of messages between servers. `assignments/assignment2.md:127-129`
  asks for order within a room (and, on the lines around it, for at-least-once
  delivery: section 5); two publish workers and the retry of buffered messages
  reorder them, as the queues of `PublishPipeline` show.
- Static pages, `/health`, the JSON of `/metrics`, environment loading and CSV
  output: no state of their own. The locks `/metrics` takes are in
  `RoomDirectory`.
- Message lengths, user names and message types in `Validate`
  (`message.go:72-92,101-106`): they depend on what the client sends alone. The
  outcome is modelled, a response with or without the message, and of the rules
  those the server's own messages can fail.
- What `DroppedMessages` is said to count: the comment at
  `rabbitmq/server.go:283-284` names a full publish channel only, while the code
  also counts what a full `tempBuffer` drops, as `ARCHITECTURE.md:144` says.
  `DropsCounted` is about the code: every drop is counted once.

Hazards that no property of a run covers say why in `PROJECT.json`: a peer that
stays silent after its upgrade, the announcement of a dropped connection, the
empty user id, a JOIN that arrives after the sweep, the order of messages across
servers, notifications the AMQP client blocks on, the last rows of the CSV file,
and the arithmetic of message generation.

## 7. What is left

1. A larger instance of `ChatRoom` with two users and a second room fed by the
   same consumers: the state space grows beyond what a run of minutes covers.
2. Recovery of consumers as a fault model of `Delivery`, once the behaviour of
   the AMQP client is pinned down.

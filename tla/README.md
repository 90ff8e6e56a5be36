# Softmaple collaboration: TLA+ models

This directory holds a formal model of the collaboration core of Softmaple: how an
edit made in a browser becomes durable, how it reaches everybody else who has the
document open, how replicas merge what they receive, and how people are shown to be
present. The modules are translated from the TypeScript and SQL of the repository. TLC
checks them on small instances, and TLAPS proves theorems about the durable event store,
the two rooms, the client session and its connection, and the block replica for any size.

Paths below are relative to the root of the repository.

## 1. The system

A document is a set of immutable *event batches*. A browser turns edits into batches,
keeps them pending until the server has stored them, and applies the batches of others
to a CRDT replica. The server has two interchangeable hosts (Nitro on serverless
functions, Cloudflare Durable Objects) that run the same room code against one Postgres
database.

    browser page ── HTTP (private document) ──────────────┐
      session      ── WebSocket (shared document) ── room ── event store (Postgres)
      queue, local storage                            │
                                                   fan-out bus ── rooms of other hosts

### Components

| Component | State | Operations | Hard parts | Correct when |
|---|---|---|---|---|
| **Durable event store** `apps/collab-nitro/server/utils/event-store.ts`, SQL function `append_document_event_batches` | rows of a document, id sequence, advisory lock, roles | append, readPage | transactions of both hosts interleave; ids come from a sequence that is not transactional; lost replies and resends | history is causal and unique, a cursor never skips a row, an acknowledged append is durable, only writers write |
| **Document room** `packages/collab-runtime/src/document-room-implementation.ts` | per peer: phase, promise chain, lease, session, timers; per room: fan-out count, subscription, fan-out lock | join, resume, receive (Auth, Event, RepairRequest), leave, close, two refresh modes | every handler suspends at several awaits; leave, close, timers and failures come in between | nothing leaks, nothing is released twice, no session starts late, a repaired peer misses nothing |
| **Browser document session** `apps/web/modules/docs/use-document-session.ts` with the outgoing queue, pending store and save coordinator beside it | pending and in-flight batches, local storage, transport, repair cursor, save runs, status | local edit, setShared, flush, connect, Ready, repair, Event, DurableAck, Error, save timer | two transports that hand over to each other, lost connections, reloads, two tabs on one local storage | no edit is lost, none is sent before its parents, repair comes first, "saved" is true |
| **Client reconnection** (same file, `collab-reconnect.ts`) | back-off timer, generation, connect flag, socket, status shown | connect, schedule, reconnect now, stop, setShared, dispose | callbacks of attempts that were retired; browser signals that come too soon or while offline | one connection at a time, the status is true, an online session reconnects by itself |
| **Block replica** `packages/block-model/src/replica.ts`, `replica-state.ts`, `causal-index.ts`, `materialize.ts` | batches kept, pending and integrated; waiting index; causal index; block metadata; cached document | apply remote events, transact, read, serialize, deserialize | batches arrive in any order; a transaction or a delivery throws half-way; caches | all that can be integrated is, a failure leaves no trace, the cached document is the one a rebuild gives |
| **eg-walker CRDT** `packages/eg-walker/src` | event graph, buffer of early events, text, checkpoints, engine of the last replay | local edit, receive one event or a batch, restore | four ways to apply an event, chosen by the history; an engine or a checkpoint that no longer fits | the text is the one of the reference replay |
| **Presence room and stores** `packages/collab-runtime/src/presence-room-implementation.ts`, `apps/collab-cloudflare/src/presence-room-do.ts` | as the document room, plus heartbeats, a maintenance lock and records that expire | join, sync, heartbeat, update, leave, sweep, close, hibernation | locks that cross the promise chains; entries that outlive their owner | nothing leaks, no ghost stays, no sweep waits for itself |
| **Realtime bridge and bus**, **connection leases** `apps/collab-nitro/server/utils/realtime/` | reference counts, subscriptions, leases with expiry | retain, release, publish; acquire, refresh, release | | services of the rooms: an answer, or a failure |
| **Hosts** (Nitro adapters, Durable Objects) | maps of rooms and sockets, socket attachments | socket callbacks, alarms, hibernation | a Durable Object sleeps between two messages | the environment of the rooms |
| Authorization, protocol parsing, HTTP routes, routing, bindings, awareness client, playground, web application, tooling | | | mostly pure code or I/O | |

`PROJECT.json` lists each of them with its files and says whether it is modelled.

### How they interact

* A page calls the room only by messages on its socket, and the store directly over
  HTTP while its document is private.
* A room calls its services (sessions, connection limiter, event store, fan-out) and
  suspends until they answer. The order of one append is: commit, acknowledge, publish.
* A page applies every batch it stores or receives to its block replica, which keeps the
  raw sequence in an eg-walker replica.
* Hosts never talk to each other. They meet in the tables, serialised per document by a
  Postgres advisory lock, and on the bus, which may lose messages; repair makes up for it.

## 2. Modules

| Module | What it is |
|---|---|
| `EventStore` | append and readPage of both hosts as multi-step transactions over one set of tables |
| `EventLog` | what the `DocumentEventStore` interface promises: a log that grows by whole requests |
| `EventStoreRefinesLog` | the mapping from the tables to that log |
| `EventStoreProofs` | TLAPS proofs about `EventStore` |
| `DocumentRoom` | `RuntimeDocumentRoom`: the connections of one document on one host |
| `DocumentRoomStepProofs` | what its operators do to one peer, its invariant, and one lemma for each step of a peer's job |
| `DocumentRoomProofs` | the steps of the room, and the theorems about counts, leaks, sessions and missed batches |
| `PresenceRoom` | `RuntimePresenceRoom`: who is present in one document, on one host |
| `PresenceRoomProofs` | TLAPS proofs about `PresenceRoom` |
| `Queues` | queues in which each batch has one place: what is left of one, and one added to another |
| `QueueProofs` | what these operators return, for any queue |
| `ClientSession` | browser sessions of one document, with local storage, and what the server does for them |
| `ClientSessionProofs` | TLAPS proofs about `ClientSession` |
| `ClientConnection` | how one browser session gets, loses and regains its WebSocket |
| `ClientConnectionProofs` | TLAPS proofs about `ClientConnection` |
| `BlockState` | the causal index and the block projection as operators, with the reference `Materialize` |
| `BlockReplica` | `BlockReplica`: deliveries, transactions, planIntegration, restore |
| `CausalDelivery` | what a replica promises of the batches it is given |
| `BlockReplicaProofs` | TLAPS proofs about `BlockReplica`, and that it implements `CausalDelivery` |
| `EventGraph` | events, versions, causal order and critical versions of eg-walker |
| `ReplayEngine` | `EgWalkerEngine`: retreat, advance, prepare and effect positions, YATA integration |
| `ScalarReplay` | `scalarReferenceReplay`, the oracle of the conformance tests, as the reference definition |
| `EgWalker` | `EgWalkerReplica`: graph, buffer, checkpoints, kept engine, restore |
| `MCEventStore`, `MCDocumentRoom`, `MCPresenceRoom`, `MCClientSession`, `MCBlockReplica`, `MCEgWalker` | values of constants for TLC |

The modules meet at promises. `EventStore` shows that an append is atomic, idempotent and
all-or-nothing; `DocumentRoom` and `ClientSession` take a store with these properties.
`DocumentRoom` shows that a repaired session misses nothing the bus did not lose;
`ClientSession` takes a server that publishes what it stores over a bus that may lose it.
`ClientConnection` has the steps of what is one `Connect` and one `Disconnect` in
`ClientSession`. The history that `ClientSession` delivers in any grouping is the input of
`BlockReplica`, and `EgWalker` is the sequence below it.

### EventStore

State: `committed` rows per document, the id sequence `nextId`, the advisory lock
`lockHolder`, the `role` of each member, a record per append call, and readers that page
through the history with a cursor. A call goes `check -> lock -> authorize -> hashes ->
scan -> commit`; the Nitro path also has `verify`, its retry after a unique violation.
Each phase is one statement, or one loop iteration, that the database can interleave with
others.

* Rows a transaction has inserted are visible to it and to nobody else until `Commit`.
* `nextId` grows at once and is not rolled back, like the sequence it stands for.
* `AbortTransaction` and a lost reply are possible at any time the code allows, while the
  verifying queries run too.
* `ChangeRole` is another user's update of the membership. It waits for the row lock
  that `authorize` takes.
* A batch is a record of ids and parents, and its payload hash is the record itself, so
  SHA-256 and the JSON canonicalisation are taken to be injective.

### DocumentRoom

State: a record per `RoomPeer` (phase, `leaveRequested`, the queue of jobs that stands for
its promise chain, what it holds at the services, its timers), the fan-out count, the
subscription and the fan-out lock, the queue of message maintenance, and what the services
remember. The job at the head of a queue is running and its field `at` names the await it
is suspended in. Each action is the code between two awaits of one job, or an event from
outside (message, leave, close, timer, bus delivery).

* `RefreshMode` is the mode of the host: "background" (timers, Nitro) or "on-message"
  (Durable Object, which has no timers while it hibernates).
* Services answer with success or failure, and their answer takes effect at the service in
  the same step. Failures are bounded by `MaxFaults`.
* `send` and `close` of a peer are synchronous, as in both hosts; a host delivers no message
  of a socket it has closed.
* A peer has `received` what was sent to it while its socket was open.

### ClientSession

State: a record per session (the variables of the `createSessionController` closure, with
the two directions of its socket), `stored` for local storage per user, and an abstract
server: the durable `log`, the `bus`, writes nobody waits for any longer (`orphans`), and
batches that were `missed` by the publication.

* An edit goes to local storage first and then to the queue, in one step: the subscriber
  runs synchronously.
* `saves` are the runs of the save coordinator in order. `Run` starts the next one in the
  same step in which the previous one ends, because both are promise callbacks with no
  event in between. The run `"share"` is the flush that `setShared` awaits.
* `Disconnect` loses a connection; a write that the server has already received may still
  be stored (`ServeOrphan`) at any later time, also after the session has sent it again.
* `Reload` ends a page; only local storage survives. Sessions of one user share it.
* Every append over HTTP is stored without being published.
* Every user may write and sign-in succeeds; a refused write is then one whose parents are
  not stored. `fatal` is `fatalConnectionError`.
* `budget` holds the bounds of a behaviour: edits and calls of each session, faults, reloads
  and storage failures. A run starts from any of a set of budgets, so that one run covers
  instances that would otherwise multiply.

### ClientConnection

State: the variables of the closure that concern the connection (`client`: transport,
`wsGeneration` as `generation`, `connectPending`, the back-off timer, the socket, the
`accelerated` flag, the status the page shows), every attempt and socket with the generation
it captured (`conn`), the browser's `online` flag, and the chained calls of `setShared`.

* `Connect`, `ScheduleReconnect`, `ReconnectNow` and `Stopped` are the functions of the
  source as operators on that record; actions compose them as the handlers do.
* An attempt reads the session (`AuthAnswered`), opens a socket (`Opened`), gets `Ready` and
  may be refused, lost or closed at any point. What an older generation started is still
  answered: `AuthAnswered`, `Closed` and `TimerFires` are enabled for retired ones too.
* The length of the back-off is left out: a timer that is set fires at some time. The public
  mode, which has no session to read, and an unusable endpoint are initial choices.

### PresenceRoom

State: as in `DocumentRoom`, plus `maintenance` (the sweep that holds the message-maintenance
lock, then those that wait), the store's `members` and which of them have `lapsed`, the
connections a viewer has `shown`, and Leaves that were `lost`.

* Two locks cross the per-peer queues. A message of an on-message host takes the maintenance
  lock before it does anything; a sweep that holds it waits for the removals it has queued
  behind the jobs of other peers. `NoCircularWait` is about exactly this crossing.
* A `host` value of the instance is a mode: timers and close (Nitro), or sweeps on messages
  and alarms and hibernation (Durable Object, where a closed socket leaves only the record).
* `slow` lets a heartbeat run out while its peer waits for the lock (finding 3).

### BlockReplica, BlockState and CausalDelivery

State: the maps of `BlockReplica` (`batchesById`, `eventOwner`, `integrated`, `pending`,
`waiting`), the live `ReplicaState`, the last snapshot, and `plan`, what the running call
keeps on its stack. `planIntegration` is modelled step by step (`EvaluateReady`,
`EvaluateMissing`, `Wake`), so that every order of its queue is covered. `Wake` takes the
woken events that some batch waits for; the turn of any other event changes nothing, and the
plan is finished when only such events are left. `Commit` or `IntegrationFails` ends the call. A transaction applies its edits to the live state one by
one and may throw after each of them.

* `BlockState` has two independent definitions of the document: the incremental one with its
  dirty flags, cached blocks and chain-compressed causal index, and `Materialize`, translated
  from `materializeBlockState`, which builds it from the set of events. They share only the
  reading of effects.
* The raw text is abstracted to the order of the block markers and the text events per block.
* `CausalDelivery` says what matters to callers, whatever the plan does: after each call the
  integrated batches are the largest causally closed set of the kept ones.

### EgWalker

State: the `pool` of events written by all authors and the `replica` of one of them (`graph`,
`waiting`, `text`, `engine`, `checkpoints`). Each event is applied the way the source chooses:
directly on the text, on the engine kept from an earlier event, from a checkpoint of a
critical version, or by a full replay in sections. `roomy` is the size limit that evicts the
engine, left open. A failing batch rolls back (`ReceiveFails`); `Restore` is a native snapshot.

* `ReplayEngine` works character by character with origins and prepare states, as the source
  does by runs; columns, run-length encoding, ropes and trees are below this abstraction.
* `ScalarReplay` shares no operator with the engine but the reading of the graph.

## 3. Runs

Bounds are constants named `Max...` or fields of a budget or of a host; each is in a guard of
the action it limits.

| Run | Instance | Shows |
|---|---|---|
| `EventStore` | one Nitro and one Cloudflare call in progress, 3 appends, 6 requests (in order, reversed, stolen event id, conflicting payload alone and after the original), 1 role change, page size 1; fairness | `TypeOK`, `CausalHistory`, `UniqueHistory`, `NoRowBehindCursor`, `AcknowledgedIsDurable`, `CommitIsAuthorized`, `AppendReturns`, and that the tables implement `EventLog` (`ImplementsEventLog`) |
| `DocumentRoom` | 2 peers on either of two hosts: timers and close, 4 messages, 2 expiries; or on-message mode with resumed sessions, 2 batches, 3 messages, 1 expiry; 1 fault | `TypeOK`, `FanoutCounted`, `NothingLeaks`, `RevalidationContinues`, `NoGap`, `NoLateSession` |
| `DocumentRoom_progress` | 2 peers, 2 messages, 1 fault, close; fairness | `TeardownCompletes` |
| `ClientSession_shared` | 2 users on a shared document, 1 edit each, chunk and page size 1, 1 fault; fairness | `TypeOK`, `RepairsFirst`, `SyncedSeesAll`, `EditsBecomeDurable`, `SessionsConverge` |
| `ClientSession_local` | 1 page with 3 edits, both transports, 2 calls of setShared or flush, 1 fault, 1 reload; or 2 tabs of one user, 1 edit and 1 call each, 1 reload | `NoEditLost`, `NoMissingParents`, `SavedIsDurable` |
| `ClientSession_switch` | 1 page, 4 edits, shared once, no failure at all | finding 1: `RepairsFirst` is violated |
| `ClientSession_storage` | 1 page, 2 edits, local storage throws once | finding 2: `SavedIsDurable` is violated |
| `ClientConnection` | 4 attempts or sockets at a time, 5 calls of setShared, 3 faults, 2 outages, dispose at any time; fairness | `TypeOK`, `OneConnection`, `StatusIsTrue`, `Reconnects` |
| `BlockReplica` | 7 batches, 14 events: splits, a join, a removal one split did not see, field and mark conflicts, inserted and deleted text, two merges of concurrent branches, one followed by more events, and a batch that creates a block twice, out of a source that may come later; 3 of them local, one a merge; deliveries and snapshots of up to 2 batches | `TypeOK`, `NoReadyBatchParked`, `FailureLeavesNoTrace`, `DocumentMatchesRebuild`, `IndexIsExact`, `ImplementsDelivery` |
| `PresenceRoom` | 2 peers on either host, 4 messages, 1 fault, 2 expiries | `TypeOK`, `NothingLeaks`, `NoGhosts`, `NoCircularWait` |
| `PresenceRoom_slow` | 3 peers, 6 messages, no fault, a sweep that takes longer than a heartbeat lasts | finding 3: `NoCircularWait` is violated |
| `EgWalker` | 3 authors and the replica; every history of up to 4 events with a deletion, and 3 longer ones with several critical versions; limits of 1 and 2 for live and warm batches | `TypeOK`, `TextIsReplay`, `NothingReadyWaits` |

Every property of a passing run has a mutant in `PROJECT.json`: a variant of one definition
with a plausible bug (marked "Mutant:" in the module) under which TLC finds the property
violated.

**Why the bounds are enough.** The races are between two actors: two appends on one
document, two peers on one fan-out count, two tabs on one storage entry, a page and its
server, an attempt and the one that replaced it. A third append in `EventStore` is there so
that one can come after a conflict of two. With a page size of 1 and a chunk size of 1, each
history longer than one batch takes several pages and each queue of more than one batch
several writes, which takes hundreds of batches in the code. One fault may hit any call at any
moment; sequences of failures are left out, except in `ClientConnection`, whose three faults
and two outages let an attempt fail, be retried and fail again around a signal. In
`ClientConnection` four connections are enough for an attempt, a socket and two retired ones;
`EgWalker`'s small `MaxLive` and `MaxWarm` make every branch between its four ways happen with
four events, and its longer histories give it two critical versions with concurrency behind
each. Peers, batches and subscriptions are interchangeable, and the safety runs of the rooms
use that symmetry; no run with a temporal property does. Deadlock is checked in `EventStore`,
`BlockReplica` and `EgWalker`; the other systems really may stop (a closed room, a page with
nothing to do), and their cfg files say so.

The history of `BlockReplica` has what the causal index finds hard: an event of two
parents on branches that left the same chain, events after it on a chain of their own, and a
second merge with one parent at the end of that chain, so that a search branches, reaches the
same chain on several ways and crosses several chains. An index that puts a merge on the chain of either parent, or follows
one parent of a chain only, is refuted.

**Fairness.** `EventStore`: an append takes its next step (Postgres and the host go on), and
its wait for the advisory lock is strongly fair, because Postgres queues waiters in order.
`DocumentRoom`: jobs, the answers of shared refreshes, maintenance and `close` go on, since
every await is on a call that answers or times out; messages, leaves and timers are under no
fairness. `ClientSession`: an open page goes on (timers fire, promises settle, it reconnects)
and the server handles what it has received; edits, calls of the page, reloads, lost
connections and late writes are under no fairness. `ClientConnection`: promises settle, sockets
open or close, timers fire and an online event that was raised is handled; the user, the
visibility signal, faults and the network are under no fairness, so `Reconnects` does not rest
on anybody looking at the page. The liveness run of sessions is for a shared document because
over HTTP the code does not promise it: after a failed save nothing is retried until the next
edit or flush. `PresenceRoom`, `BlockReplica` and `EgWalker` are checked for safety only: the
first has a real deadlock (finding 3), the calls of the others are synchronous.

## 4. What the checks say about the code

Three statements of the repository do not hold, and the three violation runs show it.

1. *Sharing while a save timer is armed* (`ClientSession_switch`). The comment in `setShared`
   says that "local edits remain in the outgoing queue and are published after WS repair"
   (`use-document-session.ts:670-671`), and the consistency document says "the session repairs
   first, then exact-resends pending batches" (`collaboration-consistency.md:31`).
   `stopHttp` clears the save timer and then awaits the flush. An edit during that await arms
   the timer again; it fires after the switch and saves over HTTP, because only
   `schedulePrivateSave`, not the timer, tests the transport. When the answer arrives,
   `outgoing.acknowledge` sends the next pending batch on the open socket, synced or not. If
   the socket is not Ready, the room refuses the Event for good and the page stays
   disconnected with a fatal error. On the way there, the page has one HTTP and one WebSocket
   write in flight at once, against "at most one durable `Event` write in flight"
   (`collaboration-consistency.md:27`). No edit is lost: `NoEditLost` and `NoMissingParents`
   hold in `ClientSession_local`, which includes the same switch.
2. *Saved after a storage failure* (`ClientSession_storage`). "Persist offline first so a storage
   failure leaves the outgoing queue unchanged and cannot flip flush/saved state for unsent
   batches" (`use-document-session.ts:193-194`). When local storage throws, the edit is in the
   replica but in no queue, and the status is "error". A save that was armed or sent before the
   failure then finds the queue empty and reports "saved", although the document shows an edit
   that will never be durable. Later edits name it as a parent, so the server refuses them too;
   for this reason `storageFaults` is 0 in the passing runs.
3. *A sweep that outlasts a heartbeat* (`PresenceRoom_slow`). "By rearming first, the calling peer
   is guaranteed never to appear in the expired-heartbeats list"
   (`presence-room-implementation.ts:281-285`), which is to rule out that a sweep waits for a peer
   whose message waits for the sweep's lock. It is true of the peer's own sweep only. A message
   rearms its heartbeat and queues for the maintenance lock; if those ahead of it hold the lock
   until that heartbeat has run out, the next sweep takes its time under the lock, finds the
   waiting peer expired, queues its reset behind the waiting message and awaits it. Neither goes
   on, and every later message and alarm of the room waits for the lock. `PresenceRoom` shows
   that nothing of the kind happens while sweeps are faster than heartbeats.

## 5. Proofs

| Module | Theorems | For all values of the constants |
|---|---|---|
| `EventStoreProofs` | `TypeCorrect`, `HistoryIsCausal`, `HistoryIsUnique`, `CursorSkipsNothing`, `AcknowledgementIsDurable`, `CommitsAreAuthorized` | `TypeOK`, `CausalHistory`, `UniqueHistory`, `NoRowBehindCursor`, `AcknowledgedIsDurable` are invariants of `Spec`, and `CommitIsAuthorized` holds of its steps |
| `EventStoreProofs` | `StoreImplementsLog` | `ImplementsEventLog`: `EventStore` implements `EventLog` |
| `DocumentRoomProofs` | `RoomTypeOK`, `RoomFanoutCounted`, `RoomNothingLeaks`, `RoomNoLateSession`, `RoomRevalidationContinues`, `RoomNoGap` | `TypeOK`, `FanoutCounted`, `NothingLeaks`, `NoLateSession`, `RevalidationContinues`, `NoGap` |
| `PresenceRoomProofs` | `RoomTypeOK`, `RoomNothingLeaks`, `RoomNoGhosts` | `TypeOK`, `NothingLeaks`, `NoGhosts` |
| `PresenceRoomProofs` | `RoomNoCircularWait` | `NoCircularWait`, on a host whose sweeps are faster than heartbeats |
| `ClientSessionProofs` | `TypeCorrect`, `EditsAreKept`, `SyncedSessionsSeeAll` | `TypeOK`, `NoEditLost`, `SyncedSeesAll` |
| `ClientSessionProofs` | `ParentsComeFirst`, `SavedMeansDurable` | `NoMissingParents`, `SavedIsDurable`, while no write to local storage has thrown |
| `ClientSessionProofs` | `RepairComesFirst` | `RepairsFirst`, if no HTTP save is answered while the document is shared |
| `BlockReplicaProofs` | `TypeCorrect`, `ReadyBatchesIntegrate`, `FailuresLeaveNoTrace`, `DeliveryIsCausal` | `TypeOK`, `NoReadyBatchParked`, `FailureLeavesNoTrace`, and `ImplementsDelivery`: `BlockReplica` implements `CausalDelivery` |
| `ClientConnectionProofs` | `WellFormed`, `NoSecondConnection`, `StatusNeverLies` | `TypeOK`, `OneConnection`, `StatusIsTrue` |

Each of the formulas in the last column is also a property of a run of section 3, on a small
instance.

**Event store.** For any documents, actors, calls and requests and any bounds, from
`CallsAssumption`, `PoolAssumption` and `BoundAssumption` of `EventStore`.
None of these invariants is inductive alone. `CausalHistory` says nothing of rows that a
transaction has inserted and not committed, and `NoRowBehindCursor` does not say why the
next commit has a higher id. `IInv` adds the reasons:

* `LockInv`: the holder of a document's lock is the one call in a transaction on it, so
  nobody else changes that document's history meanwhile;
* `RowIdInv` and `IdInv`: committed ids are below `nextId`, and the ids a transaction has
  drawn are above all committed ids of its document. This holds because they were drawn
  under the lock, and is what makes a cursor over a non-transactional sequence safe;
* `VisibleInv`: what a transaction sees, committed or its own, is already causal and unique;
* `TransactionInv` and its neighbours: what the phases imply about the hashes and event ids
  loaded earlier in the transaction, and about the role of the actor.

There is one lemma per action. Actions that only change the call's record or only leave the
transaction go through the shared lemmas `LocalStep`, `LeaveStep` and `StayStep`.

The refinement needs the order of the rows. `Enumerates(q, rows)` says that a sequence lists
rows by their ids; such a list determines their number, the i-th row and with it the log of the
refinement mapping (`LogIs`). `LogInv` adds to `IInv` that the committed rows have such a list,
and that the rows of an open transaction are what the loop has gone over without what the log
holds, in the order of the request (`Ordered`). For the case that the loop finds a batch among
the transaction's own rows it uses that event ids are unique within a request (the check before
the transaction) and that no batch is without events, which `parseBatch` of `wire.ts` guarantees
and `PoolAssumption` states. A commit is then `AppendAll`, a verification that succeeds is an
`AppendAll` that adds nothing, an end with an error is `Fail`, a page is `Read`, and everything
else is a stutter.

**Document room.** For any finite set of peers, any subscriptions and batches, and any hosts
with their modes and bounds, from `RoomAssumption` and `HostAssumption`. The operators of the
module are functions on the state of one peer, so half of the argument is about a single peer:
`PeerOK` says which points its running job may be at, that only the head of its queue has
begun, and what it may hold in each phase. The rest of `RoomInv` ties peers to the room:

* `LockOK`: a job at a point under the fan-out lock owns that lock, and the count is 0
  then. Without it, a subscribe that is answered late could meet a count that another peer
  has raised meanwhile;
* `CountOK`: the count is the number of peers that hold the fan-out or are about to give it
  back, and whoever counts has a subscription. `FanoutCounted` is its visible part;
* `ServicesOK`: a lease or a session at a service belongs to a peer that holds it or is
  releasing it. With "a peer that is outside holds nothing" (`HeldOK`) this gives `NothingLeaks`;
* `CloseOK`: while the room closes, everybody inside has a removal in the queue, and nobody is
  inside once the removals are done. It is what makes it safe for `close` to reset the count;
* `MaintenanceOK`, `LogOK`, `BoundsOK`: whose messages wait for maintenance, that whatever is
  acknowledged, published or lost is stored, and the bounds.

There is one lemma per step of a job and per event from outside. Each shows what the step is
to its peer: it keeps all that it holds (`Kept`), it takes or gives back one thing (`Moves`), or
its reset begins (`ResetTo`). Shared lemmas conclude from the relation to the room.
The two theorems about sessions need `SessionOK` for every peer on
top of it: a removal that waits has already told the peer to go, a refresh that was asked for
belongs to a session, setup beyond the limiter has its lease, and a current session has its
timers or calls, or a message that stands in for them. `RoomNoLateSession` is then a statement
about each step (`Goes`).

`RoomNoGap` is about what a session has been sent. `NoGap` alone is not inductive: it says nothing
of the moments in which the history is read but not yet sent, or a batch is stored but not yet on
the bus. `GapInv` says of every session that hears the subscription that it misses nothing of the
log but `Coming` (what is lost, on the bus to *this* subscription, stored elsewhere and unpublished,
or `Held` by a job that is to publish it), once it was sent the history, and that the history a job
has read is complete in the same sense until it is sent (`GapOK`). `Standing` and `HeadOK` say
which jobs may hold a batch or a history (the running one only), that whoever hears has the fan-out,
hence that the room has a subscription, and that nobody begins as a repaired session. Most operators
only have to keep what was held and sent (`Follows`, one lemma per operator), and the log and the
bus only grow there (`StillGap`). The subscription changes only while nobody hears it
(`SilentGap`): this rests on `CountOK`. The steps that move batches are done one by one: a batch
that is stored is held by its job (`AppendedGap`), one that is published goes to the
subscription of that moment (`PublishedGap`), the read history is all of the log (`HistoryReadGap`),
a delivery reaches everyone who hears (`DeliverGap`), and a loss is counted (`RemoteGap`).

**Presence room.** For any set of peers and any hosts with their modes and bounds, from
`RoomAssumption` and `HostAssumption`. As for the document room, `PeerOK` is about one peer:
only the head of its queue has begun, which await its job may be in (`JobOK`), which jobs its
phase allows (`PhaseOK`) and what it may hold there (`HeldOK`: a peer outside the room holds
nothing, and a reset has told its peer to leave and given up the fan-out before its first
await). `RoomInv` adds what ties the peers together:

* `LockOK`: whoever is under the fan-out lock is first in its queue. It is why only one job at
  a time changes the subscription, and why `close`, once it has the lock, meets nobody there;
* `CountOK`, until `close` waits for the lock: `retainers` is the number of peers that hold the
  fan-out or wait for the lock to give it back, so a release never finds the count at 0;
* `LeasesOK`: the service knows a lease only of a peer that has it or is releasing it;
* `CloseOK`: in a room that closes, a peer has a removal queued or is `Settled`, and no removal
  is left once `close` waits for the lock. `NothingLeaks` follows for the closed room;
* `SweepsOK`: a sweep in the maintenance queue belongs to a peer that waits for it, and each peer
  to one at most;
* `WaitOK`: on a host that is not slow, who waits for the maintenance lock is not overdue, and
  no sweep has queued its removal. `NoCircularWait` is the visible half.

Every step of a job changes one peer, as `RoomStep` describes, and `RoomStepKeeps` is proved
once. Calls of the host and sweeps queue jobs, for one peer or for many, and move nobody:
`Quiet`, with `QuietStep` and `QuietKeeps`. Only the last steps of `close` and eviction are
neither and are proved directly. `RoomNoCircularWait` has `~host.slow` as a condition, and
the run `PresenceRoom_slow` shows that it cannot be dropped: it is the third finding.

`RoomNoGhosts` needs `ViewInv` beside `RoomInv`. `NoGhosts` by itself is not inductive: that
somebody who is shown is a session says nothing of whether its reset will publish the Leave. So
`ViewInv` says of every connection that is shown that it is `Covered`: its peer `Announces` its
Leave (it is joined with an identity, which makes the reset publish, or it is publishing), or,
on the host that hibernates, it is `Known`: a record in the store or a list of lapsed records
that is about to be published stands in for a session that memory has lost. Around it are
`SessionOK` (at which awaits a peer may be joined without an identity: after a resume only) and
`Recorded` (a session writes its record before it shows itself, and no sweep has taken it in
between). Steps of a job `Carry` the cover, a reset hands it to the Leave (`Resigned`), and calls
that queue jobs for many peers leave it (`Quieter`). The theorem depends on the part of
`HostAssumption` that only a host whose sweeps come with messages hibernates
(`presence-room-do.ts:467`): elsewhere a session forgotten by hibernation would have nobody to
publish its Leave.

**Client session.** For any sessions and users (any number of tabs of one user), any chunk and
page size and any budgets, from `ClientAssumption` and `BudgetAssumption`. Everything but
liveness that the runs check of this module is proved. The argument is about one session in a
world: `World` is a record of what a session shares with others (log, local storage, parents,
what was made, what could not be stored), `SessionOK(w, u, s)` says what is true of a session
`s` of user `u` in the world `w`, and `Grows(v, w)` says how a world may change: the log only at
its end, local storage loses only what is durable. `SessionGrows` shows that `SessionOK` survives
any such change, so the steps of others need no further thought, and every operator of the queue,
of the save coordinator and of the socket has one lemma about a session in a fixed world. The
parts of `SessionOK`:

* `QueueOK`: what is pending may be written as it stands (each batch once, parents durable or
  earlier in the queue), is stored or durable, and what the page shows is durable, pending, or
  was refused by local storage. Of this, `NoEditLost` and `SavedIsDurable` are shadows;
* `CursorOK`: all history before the cursor is known;
* `HttpOK`, `SocketOK`: the same for what is on its way over HTTP and in both directions of the
  socket: an acknowledgement is of what is durable, a page continues where the session stands.

`SyncedSeesAll` needs in addition (`AllSee`) that from the moment the room has answered the last
page a durable batch is known, on the bus, in a message on its way, or was lost: the room
publishes to a session from Ready on, before the pages are read. `RepairsFirst` needs (`AllShared`)
that repair is a conversation in which one thing is under way at a time: Ready, or a question, or
a page; and no acknowledgement before it is over.

Two theorems have `[]StorageWorks` as a hypothesis, and one `[]NoLateAnswer`. The runs
`ClientSession_storage` and `ClientSession_switch` show that they cannot be dropped: these are
the two findings, and the theorems say that there is no other way to break these properties.
`RepairComesFirst` makes the second finding precise: neither reloads, lost connections, late
timers nor switching itself break the order, only the `acknowledge` of an HTTP save that is
answered after the switch.

The queues are recursive functions (`Without`). `QueueProofs` proves what they return for every
queue (the set, the order, no duplicates) by induction over the length, and the induction is
itself a lemma: `UpTo`, for a set instead of a predicate, from the well-foundedness of `<`.

**Client connection.** For any number of connections, calls, faults and outages, from
`ConnectionAssumption` (`None` is no number, the bounds are natural numbers). The operators of
the module are functions on the closure's record, so the invariant is a predicate of such a
record and of the connections, `Good(c, k)`: `Typed`, `Attempts` (the flag `connectPending` and
the one attempt of the current generation belong together), `Sockets` (a socket that is not
closing is the session's, of its generation, and excludes timer and attempt) and `Shown` (the
status). One lemma per operator shows that it keeps `Good`; the actions follow from these. What
`OneConnection` alone lacks is the generation: an older attempt must be recognisable as retired,
which is `k[i].generation <= c.generation` with a new number at every stop.

**Block replica.** For any batches, events, dependencies and effects, and whatever integrating
an event does to the document, from `BatchAssumption`. The theorems say nothing of plans, which
exist only while a call runs, so the invariant is about plans: each staged or woken batch is
still to be evaluated, ready or parked (`PlanInv`); what a parked batch waits for is neither
held nor planned, or is still to wake it (`ParkedInv`); and a pending batch has been looked at
once what it waits for was woken (`WokenInv`). When a plan is finished, nobody waits for
what is left to wake, and `PendingInv` follows for the next idle state.

The refinement needs one thing more, `CausalInv`: nothing is integrated, planned or made here
before its parents. Then the integrated batches are a closed set, and by `PendingInv` every
other kept batch lacks a parent. `LargestClosed` concludes that they are the largest closed set,
from `CausalAssumption` (dependencies are not cyclic, which TLC evaluates on its instance).
A commit or a restore that changes what is kept is then a `Deliver` or a `Forget`, everything
else a stutter.

**Only model-checked**: `DocumentMatchesRebuild`, `IndexIsExact` and all of `EgWalker`, which are about what folds over
the events compute; and all liveness (the prover has no ENABLED, hence no fairness).

## 6. Not modelled

* The components of section 1 without a module, for the reasons in `PROJECT.json`. The bridge
  and the leases are services of the rooms: each room calls them under its own lock, one at a
  time, so their races are the rooms' and what is left is an answer or a failure.
* In `DocumentRoom`: the text of messages, metrics, rate of refresh, and the codes of errors.
* In `PresenceRoom`: cursors and selections, the rate limit, a new socket under an old connection
  id, and the redis store.
* In `ClientSession`: a failed read of the signed-in session or of local storage, a change of user, the waiters
  of `flush` and public read-only sessions.
* In `ClientConnection`: the length of the back-off.
* In `BlockReplica`: positions inside the text (anchors, mark boundaries inside a block),
  `replaceDocument`, the validation of the wire format.
* In `EgWalker`: the packed and indexed data structures behind the operators (columns, runs,
  trees, ropes, the snapshot codec), thinning of checkpoints, grouping of short sections, sliced
  preparation, resumed engine records and anchors. Nor is `applyCausalBatch` an entry point of its
  own: it refuses while anything waits, and differs from the modelled delivery in that a chain
  the kept engine fails to take is applied to the text, without a replay.
* Authorization by Supabase and message parsing are answers and inputs. The editor, its binding
  and the rest of the web application are presentation, forms and I/O.

## 7. Plan

Done: 1. `EventStore`, `EventLog` and their proofs. 2. `DocumentRoom` and its proofs.
3. `ClientSession` and its proofs.
4. `BlockReplica` with `CausalDelivery`, its proofs and the proof of the refinement.
5. `PresenceRoom` and its proofs. 6. `EgWalker`. 7. `ClientConnection` and its proofs.

What could follow:

* the indexed sequence and the packed columns of eg-walker, each against a plain sequence;
* the leader election of the playground's persistence coordinator.

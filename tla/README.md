# TLA+ model of pigeongram-chat

TLA+ modules, TLC configurations and TLAPS proofs for the chat server in this
repository: a Go program with a WebSocket hub, PostgreSQL for users, messages
and sessions, Redis or memory as a cache, and MinIO for files.

To run: `tlc -config <run>.cfg <MC module>.tla` for a model-checking run,
`tlapm` on the modules called `...Proofs` for the proofs. `PROJECT.json` lists the runs, the source
lines behind each definition, the known hazards and the theorems.

## 1. Inventory

| Component (source) | State | Operations | Interacts through |
|---|---|---|---|
| Hub: `internal/websocket/manager.go` `Run` | `Clients`, `OnlineUsers`, queues `Broadcast`, `EditMessage`, `FileEvents`, unbuffered `Register`, `Unregister` | one `select` loop; ticker every 10 s; fan-outs to clients | channels to and from the pumps; `ClientsMu`, `OnlineMu`; spawns the history, save and cache goroutines |
| Connection: `client.go`, `web/websocket.go` | three bounded channels, socket | handler registers and starts `ReadPump` and `WritePump` | queues of the hub; socket |
| Message history: `manager.go` 230-357, `message_repo.go`, `cache/*.go` | table `messages`, cached list of at most 100 | save, update cache, edit, replay history | goroutines share table and cache without a lock |
| Gauges: `internal/metrics/metrics.go` | `ActiveConnections`, `OnlineUsers` | `Inc`, `Dec`, `Set` by manager and ticker | read by Prometheus |
| Sessions: `web/handlers.go`, `session_repo.go`, cache | table `sessions`, cached sessions, cookie | login, registration, check, logout | concurrent HTTP requests; cache beside table |
| Relay: `manager.go` 484-594 | Redis channels, `RedisMsgCh` | publish, receive, decode, fan out | other servers through Redis |
| Memory cache: `repository/cache/memory.go` | list, sessions and users with their times, four mutexes, statistics | get, set, invalidate, the cleanup goroutine | called by history, login and session check; replaces Redis when there is none |
| Server registry: `server_registry.go` | key per server with TTL | register, heartbeat | Redis |
| Files: `web/file_handlers.go`, `internal/storage/minio.go` | objects in MinIO | form for upload, completion, list, delete | `FileEvents` of the hub |
| Debug handlers: `web/debug.go` | - | a test event into `FileEvents`, or straight into one client's channel | the hub, under `ClientsMu` |
| Start-up: `cmd/server/main.go`, `config/` | schema, routes | sequential set-up; register, then start the hub | registry, hub, cache |
| Metrics middleware, rendering, templates, scripts, `models/` (unused) | - | - | - |

What is hard here, and what a correct program must keep:

* **Hub.** Two goroutines (manager, ticker) range over `Clients` and send on
  channels that the manager closes when a client leaves; history goroutines
  send on them under no lock at all. Correct means: no send on a closed
  channel, no double close, the presence map names the users who are
  connected, each browser sees chat items in one order, the manager always
  comes back to its `select`, and dead connections disappear.
* **History.** Each message starts a save and a cache update that nobody waits
  for, next to edits applied by the manager, history goroutines that fill the
  cache from the table, and expiry. Correct means: bounded, ordered, nothing
  shown that is not stored or being stored, and no lasting disagreement
  between cache and table.
* **Gauges.** Two writers, a count read before it is stored.
* **Sessions.** A session check that has read the row and will cache it, while
  a logout deletes row and entry.
* **Relay.** What is encoded on one side has to be decoded on the other; lost
  and reordered messages between servers.
* **Registry.** Crash between two Redis calls; TTL against heartbeat; a deferred
  `Unregister` that no end of the process runs.
* **Memory cache.** A read takes a second mutex under the first, and Go's
  `RWMutex` lets a waiting writer keep new readers out; the cleanup looks at an
  age under one lock and acts on it under another. Correct means: each call
  takes effect at one moment, no session goes before its time, no call hangs.
* **Files.** Upload goes from browser to MinIO past the server; the completion
  call may come without an object, or twice; events may be dropped.

## 2. Modules

| Module | Models | EXTENDS |
|---|---|---|
| `ChatRoom` | abstract: an ordered broadcast to those in the room | - |
| `Hub` | manager, ticker, history goroutine, handlers and pumps of one server; implements `ChatRoom` | `Room == INSTANCE ChatRoom` |
| `MCHub` | two-connection instances, and two restrictions of `Hub!Next` | `Hub` |
| `HubProofs`, `ChatRoomProofs`, `HubRoomProofs` | invariants of each, and the refinement | `Hub`, `ChatRoom`, `HubProofs` |
| `Gauges`, `MCGauges` | the two gauges | - |
| `ChatHistory`, `MCChatHistory` | table, cached list, the goroutines on them, restarts | - |
| `ChatHistoryProofs` | invariants of the lists, and that the loops of a history sort it | `ChatHistory` |
| `ExpiringCache` | abstract: calls with one moment each on entries with a TTL | - |
| `MemoryCache`, `MCMemoryCache` | the cache in memory, lock by lock; implements `ExpiringCache` | `Cache == INSTANCE ExpiringCache` |
| `MemoryCacheProofs` | invariant of the locks, and the refinement | `MemoryCache` |
| `Sessions`, `MCSessions`, `SessionsProofs` | login, registration, session check, logout as concurrent requests | - |
| `FileStore`, `MCFileStore`, `FileStoreProofs` | file pages, file handlers, object storage | - |
| `ServerRegistry` | keys of the running servers, their TTL and heartbeat | - |
| `Relay` | publishing to Redis, receiving, decoding | - |
| `Cluster`, `MCCluster` | the two together, in processes that end | `ServerRegistry`, `Exchange == INSTANCE Relay` |
| `RegistryProofs` | invariants of the registry, alone and in the cluster | `Cluster` |

How they fit together: `ChatHistory` and `Sessions` take each call of a cache as
one step on an entry that stays until it expires, is invalidated or, in the
list of messages, is lost; `ExpiringCache` says so, and `MemoryCache` is shown to
keep it. `Relay` and `FileStore` take a fan-out to the clients of a server as one
step; its steps are in `Hub`.

### Hub

Each variable is a field or a program counter. `clients`, `onlineUsers`,
`broadcast`, `editMessage` and `fileEvents` are the fields of `Manager`;
`readers` says who holds `ClientsMu.RLock` (the only writer is the manager,
and its write sections are single steps that wait for `readers = {}`); `pc` says
where manager and ticker are, `users[p]` and `todo[p]` hold the user list a
broadcast has copied and the clients it has still to visit. A connection is
`life` (handler, then `ReadPump`: idle, registering, accepted, reading,
leaving, closing, gone), `writer` (`WritePump`), `conn` (socket), the three
channels, and `closed` (they are closed together in one section). `replay`
counts the messages a history goroutine has still to send. `panicked` records
a send on, or a second close of, a closed channel: Go ends the process, so
the model stops.

`posted`, `received` and `shown` are history variables: what was posted, in
which order each browser was sent it, the online list its page shows. `log` is
the order in which the manager has taken up messages and edits. An item is the
number of its place in `posted`; 0 is a replayed message.

`DebugSendTestEvent` is the development route that sends into one client's
channel itself, under `ClientsMu.RLock`, past the queue and the manager.

The room of `ChatRoom` has the log, the members, how far in the log each member has
been served, what it has heard and is still to hear, and whether the line to it is
up. Nothing new is said before every member has been served the last item; to serve
is to queue the item if the queue has room; and what is queued is lost only on a
line that is down. The mapping in `Hub` (`Room`, `RoomSpec`): members are `Clients`,
what is to be heard is `Client.Send` with its capacity, a line is a socket, and a
client is served up to the log's end unless the manager still has it on its way in
a fan-out (`Told`).

One action is one step between two points where another goroutine could look:
`ReceiveRegister`, `AddClient`, `AddOnline`, then `FanOnline` for one client at a
time and `OnlineFannedOut`, and so on, in the order of `Run`. A send with
`select ... default` appends or drops (`TrySend`). A chat text that `ReadPump`
ignores, and a text that meets a full queue, change nothing and are no step.

The ticker is woken at any time. A waiting writer excludes new readers, as Go's
`RWMutex` does (`WriterWaits`).

### ChatHistory

A message is its rank by timestamp, `row[n]` the number of edits the row has
seen, or `NoRow`. A cache entry is `[msg, rev, id]`: a message, its edits, and
whether it carries the ID of its row, which live messages do not. `saver`, `updater` and
`viewer` are the goroutines; each database or cache call is a step that may
fail when `Faults` holds: a failed read is treated like a miss, a failed write
leaves things as they were, just as the callers log and go on. `Expire` is the
TTL (both caches) and the memory cache's cleanup. `Restart` ends the process
at any moment and starts another on the same table: the goroutines are gone,
an edit may be stored and its invalidation not made, and the cached list is there
(Redis) or not (memory). `Old` are the messages the table starts with.

What the table answers (`Recent`) is a set with one list in it. A history is sorted in
place by the two loops of `sendMessageHistory`, one comparison a step: `at` and `against`
are their indices, and the history variable `loaded` keeps the list as it was before.
The filter for empty texts that precedes them is left out.

### Gauges

The maps of the hub, the two gauges, and the steps between reading a length and
setting the gauge to it. A connection slot may be reused, so that a gauge can
drift over a long run.

### Sessions

A request is a slot that serves one handler at a time: `at[r]` is where it is,
`user[r]` the name in its form, `id[r]` the session it makes or its cookie
names. `row[s]` is the row of the table `sessions` (absent, live, past its 24
hours, deleted), `accounts` the table `users`, `cached` the cache's sessions. Each
call of a database or of the cache is one step, in the order of the handler. With
`Faults` a call may fail and leave things as they were, and then the code
goes on or gives up as written: a failed `CreateUserSession` refuses a login
but not a registration, a failed query takes a name for free, the errors of
logout are ignored. `issued`, `registered`, `out` and `late` are history
variables: cookies sent, whose registration made a session, logouts answered,
and requests that came after one. A session ID is never drawn twice.

A cookie comes with any request, also after the logout that cleared it: other
tabs and requests on their way still carry it. `ExpireCached` is the TTL of
either cache.

### FileStore

One chat and one file name, so a key is the user and the second in which the
form was made; two forms of a second have the same key. A file has a key and a size,
which stands for its contents. `objects` is the bucket, with one file to a key.
Per page: `shown` is its list, which may hold two entries of one key until it is
loaded again, `load` and `answer` its one `loadFiles` call,
`inbox` the events the hub has sent it, `timers` the reloads due 500 ms after
one, `up` and `del` its upload and its delete, step by step as the page,
the handler and the storage take turns. When the page reports its upload, the
server asks the storage for the key that the page names: the one the storage
reported or one made up from the browser's clock (`GuessedKey`), which is in no
bucket. `upFile` is what it finds, perhaps another file by then, or what it makes up
(size 0), and announces in the next step.

The hub is abstracted to a queue from which each page gets an event or not
(`FanOut`): `Hub` has the full channels and lost connections behind it. `missed` is
a history variable: the page was not told of a change, or refused a
reload because a list read before was on its way.

### MemoryCache

`value` and `stamp` are the two entries that are read: the list and one session
(sessions of different keys meet only in the lock). `readers` and `writer` are the
goroutines that hold `messagesMu` or `sessionsMu`; a goroutine becomes the
`writer` when it calls `Lock`, which keeps new readers out, and goes on when the
readers are gone. `counting` holds `statsMu`. `job[p]` is the call of a
goroutine and `pc[p]` where it is in it. The cleanup is `Cleanup`, `Sweep` for the
sessions, `Look` under the read lock, `Decide` under none, and then
`InvalidateMessages` by the same steps as any caller. Time passes in
units, as far as `MaxTime`.

In `ExpiringCache` a call begins, takes effect, and ends. The mapping (`Call`) puts
the moment of a read at the look at its age, from when it holds what it will
return; that what it copies afterwards is still that, is what the lock is
for. Only the list may be lost before its time.

### ServerRegistry, Relay, Cluster

`key[s]` is what is left of the TTL of `server:<id>`, `NoExpiry` without one, 0 without
a key. `reg[s]` is where the goroutine is that registers and then beats; every
Redis call is one step and may fail, carried out all the same or not. `tick`
holds the tickers that have fired unheard, as the channel of a Go ticker keeps
one. Nothing is assumed of how long anything takes: `Pass` lets time go by at any
moment, and `beat[s]` remembers whether the last heartbeat was made in time.
`half` remembers the servers that ended or failed between the two calls.

In `Relay`, `pipe[s]` is what Redis has sent to a server and `inbox[s]` is
`RedisMsgCh`. A connection that breaks loses what it has not delivered, and
nothing is kept for a server that is not connected. What matters of a payload
is what it decodes as: `Envelope` makes a string of it, `Decoded` tries a
message, then a file event. `shown[s]` is what the clients of a server were
sent, and as what.

`Cluster` runs both for the same processes: the hub of a server starts when
`Register` has returned, failed or not (`Run`), and a crash ends everything
(`Stop`).

Definitions called `X_Y` are `X` with a plausible fault `Y`; no
specification uses them. They record which mistake in the code each property
would notice.

## 3. Runs

| Configuration | Bounds | Checks |
|---|---|---|
| `HubPresence` | 2 connections of one user, channels of 1, one history message, no items | `TypeOK`, `NoFanOutPanic`, `RangeIsOpen`, `LockOnlyInRange`, `NoGhostOnline`, `SingleTabPresence`, `OfflineByOtherTab` |
| `HubDelivery` | 2 connections, 2 items of any kinds, queues of 2, client channels of 1 | `AgreedOrder`, `PostedOrder`, `RoomSpec` |
| `HubLive` | 2 users, one stays, one comes and goes; one message or file event; fair | `ManagerServes`, `LostConnectionsReaped`, `PresenceConverges` |
| `HubHistoryPanic` | one history message | `HistoryNeverPanics`, violated |
| `Gauges` | 3 connections of 2 users, 4 registrations | `TypeOK`, `GaugesConverge` |
| `ChatHistory` | 3 messages, one of them old, limit 2, one edit each, failures, restarts; fair | `TypeOK`, `CacheBounded`, `NothingAhead`, `HistoryInOrder`, `CacheHeals` |
| `MemoryCache` | 2 callers, the cleanup, one value, 2 moments, TTL 0; fair | `TypeOK`, `LocksBalanced`, `NoDeadlock`, `CacheSpec`, `CallsReturn` |
| `Sessions` | 2 requests at a time, one user, 2 session IDs, failures; fair | `TypeOK`, `NoStraySession`, `OneRegistration`, `DeadStaysDead`, `SessionsEnd` |
| `SessionsLogout` | the same, no failures | `LoggedOutStaysOut`, violated |
| `FileStore` | 2 tabs of one user, 1 second, 2 sizes, 2 things users do, failures | `TypeOK`, `ListIsTrue` |
| `Cluster` | 2 servers, TTL 2, 2 faults, 2 items, `RedisMsgCh` of 1 | `ClusterTypeOK`, `BeatingIsListed`, `NoExpiryIsHalf`, `NothingForged` |
| `RelayIslands` | 2 servers, 2 items, one fault | `ForeignEventsReachLocals`, violated |

What the less obvious properties say:

* `RoomSpec`: whatever the two goroutines, the locks and the bounded channels do,
  each client hears a subsequence of one log, none of it twice and none of what
  was said before it joined, except as history; and every registered client is
  served every item before the manager takes the next, so that it misses one only
  because its channel is full or its socket is down. `AgreedOrder` follows from the
  first half.
* `LockOnlyInRange`: no way out of a range over `Clients` forgets `RUnlock`, so when
  the manager asks for `ClientsMu.Lock` it waits at most for the ticker's range,
  which waits for nothing.
* `NoDeadlock`: in the memory cache whoever waits for a lock waits, through at most
  three locks, for a goroutine that can go on; a waiting writer counts as a holder,
  as it keeps new readers out.
* `OfflineByOtherTab`: closing a tab may take a connected user offline, but
  nothing else does.
* `CacheHeals`: lost updates, stale fills, partial lists, entries without ID and
  edits not invalidated because of a crash last no longer than the list does.
* `HistoryInOrder`: the loops end with the messages that were loaded, none lost or
  doubled, in order of time.
* `SessionsEnd`: every session ends for good, within its 24 hours and the TTL of the
  cache, whether its user logs out or not and whichever of the calls fails whose
  errors the handlers ignore: the row a registration did not get, the row or
  the entry a logout did not delete, the entry a check stored behind a logout.
* `ListIsTrue`: whatever a page makes of events that come late, in another order,
  for files that are not there or that were replaced under their key, it ends with the
  bucket's files as they are; only a refused load, a lost announcement or a failed
  load keeps it from that.
* `CacheSpec`: the memory cache is atomic call by call, and the cleanup takes no
  session that is fresh, although it looks at one time for all.
* `BeatingIsListed`: a heartbeat made in time keeps the server listed until the next
  is late, also when the key had gone. `NoExpiryIsHalf`: a key without a TTL, which
  lists a server for ever, comes only from an end or a failure between the two calls.
* `NothingForged`: no client is shown a file event as a chat message. It holds in
  the code because of the string that lets nothing through, and its mutant, the
  envelope as it was meant, breaks it: the two faults hide each other.

Why these bounds are enough to be interesting:

* Two connections let one leave while a fan-out is on its way to the other, and
  both goroutines can be inside a fan-out. Clients are interchangeable
  (symmetry in the runs of safety properties only). Channels of capacity 1
  overflow in these runs, and none of them would with the code's 256, 32 and 8.
* `HubDelivery` needs two items for an order and a queue of two so that the
  manager's choice between `Broadcast` and `EditMessage` matters. It
  starts from the ticker's idle state and leaves ticks out, as the ticker sends
  neither messages nor events. Online lists are dropped (`OnlineCap = 0`). The
  system stops when all items are delivered and all clients are gone, hence
  `CHECK_DEADLOCK FALSE` there.
* `ChatHistory` needs more messages than the limit, so that the list is
  trimmed, and one edit, so that text can be old. An old message gives the
  table a row that no list has and leaves two to race with each other. A list of
  two is swapped at most once; the proof has the sort of longer ones.
* `MemoryCache` needs two callers so that one reads or writes against the other and
  both against the cleanup, and time that passes once, so that an entry is fresh
  or stale, also within a call. Every read takes a second lock, so two
  callers and a writer are enough for a cycle if there is one. The proof covers
  any number of callers, values and moments.
* `Cluster` has a TTL of two units, the shortest with a heartbeat within it; two
  faults let a server crash half-way and come back, or a connection break and a
  publication fail; two items fill the channel of one. `RelayIslands` stops when
  all items are posted, hence `CHECK_DEADLOCK FALSE`.
* `Sessions` has one user and two requests, so that two registrations compete
  for a name and a check runs against a logout; finished requests make room for
  others without limit. Two session IDs let one session end while another is
  made; every pair of handlers can overlap in any way.
* `HubLive` posts its item while the dead connection waits at `Unregister`: the
  manager may take the item first and then ranges over a client that nobody reads.
* `FileStore` has two pages so that one learns from the other, with all steps of
  two uploads, or of an upload and its delete, interleaved. They are tabs of one
  user and there is one second, so that two uploads share a key, and
  either may delete what the other has uploaded. The system stops when users do, hence `CHECK_DEADLOCK FALSE`. The proof covers any number of all of these.

Histories are empty (`HistoryLen = 0`) in `HubDelivery`, where a replayed message
has no place in the order, and in `HubLive`: the panic of a history goroutine,
a finding of its own, stops the process, and liveness would hold only for lack
of a process. `HubPresence` and the proofs include it.

**Fairness.** Go runs every goroutine that can run, so manager, ticker, pumps and
history goroutines are weakly fair as wholes, and a dead socket makes a blocked
read fail sooner or later (the read deadline of 60 s). No user has to post,
connect or leave. Go's `select` picks at random among ready cases; weak
fairness of the manager as a whole is less than that and enough, as items and
connections are finite. In `ChatHistory` goroutines finish, and an entry that
nobody sets again expires; nobody has to restart the server. In `MemoryCache` a
goroutine that can run does (weakly fair), and one that waits for a mutex gets it
if it comes free again and again (strongly fair): Go's `RWMutex` lets the
readers that wait in before the next writer, and its `Mutex` hands over to a
waiter that has waited for a millisecond. In `Sessions` a request that has come is served to
its end, a row grows older than its 24 hours, and a cached session expires unless it is
set again; nobody has to log in or out.

## 4. What the runs found

The code does not keep three things its texts say; each is a run that ends in a
counterexample.

1. `sendMessageHistory` sends without `ClientsMu`; a client that leaves first
   has its channel closed, and the panic ends the server (`HubHistoryPanic`).
2. A session check that has read the row caches the session after a logout has
   deleted row and entry, and later requests are accepted with it
   (`SessionsLogout`). `SessionsEnd` shows that it ends all the same, with the TTL, and
   `DeadStaysDead` that nothing else revives a session.
3. Servers are islands: what one publishes reaches no client of another, because
   the payload is wrapped as a string and unwrapped as an object
   (`RelayIslands`). Undoing that alone would show file events as chat messages,
   since any object decodes as a message (`NothingForged`).

Three more that reading the code for the model showed, and that a property
bounds from the other side:

* Closing one of two tabs takes a connected user offline; `OfflineByOtherTab`
  shows that nothing else does.
* Two cache updates at a time lose a message from the cached history;
  `CacheHeals` shows that this lasts no longer than the list does.
* The table `messages` that `config/database.go` creates lacks two columns that its
  entity has, so every save fails there (see `ChatHistory` above).

## 5. Proofs

`HubProofs` proves for any finite sets of connections and users, any
capacities, any history length and any number of items:

| Theorem | Says |
|---|---|
| `HubInvariant` | `Spec => [](LockInv /\ PresenceInv)` |
| `HubTypes` | `TypeOK` |
| `FanOutIsSafe` | `NoFanOutPanic` |
| `RangeStaysOpen` | `RangeIsOpen` |
| `ReadLockInRange` | `LockOnlyInRange` |
| `NoGhosts` | `NoGhostOnline` |
| `SingleTabIsExact` | `SingleTabPresence` |
| `OfflineNeedsOtherTab` | `OfflineByOtherTab` |

`NoFanOutPanic` is not inductive: nothing in it says that the clients left in a
range still have open channels. `LockInv` adds that whoever is in a range, and
nobody else, holds the read lock and has only registered clients left
(`RangeHoldsLock`),
that registered clients have open channels (`RegisteredOpen`), and, for the
close, where the client the manager holds is in its life: a client is in the
map only between `AddClient` and its one `DropClient` (`NotYetIn`,
`ClosedHasLeft`, `AddingFits`, `DroppingFits`). `PresenceInv` adds that an entry
belongs to a connection of its user that has been opened (`EntryOfUser`), and
extends `SingleTabPresence` into the middle of an event
(`SingleTabMirrored`). Types are split: `ControlTypeOK` is part of `LockInv`,
`ChannelTypeOK` is proved over it.

The assumptions are `ClientsAssumption` and `CapacityAssumption` of `Hub`.

`ChatRoomProofs` and `HubRoomProofs` carry `AgreedOrder` from the room to the hub:

| Theorem | Says |
|---|---|
| `RoomInvariant` (`ChatRoomProofs`) | what a client has heard and will hear lies in the log in its order, up to where it was served |
| `RoomAgrees` (`ChatRoomProofs`) | `AgreedOrder` of the room |
| `HubRefinesRoom` (`HubRoomProofs`) | `Spec => RoomSpec`: order, and nobody registered passed over |
| `HubAgrees` (`HubRoomProofs`) | `AgreedOrder` of the hub |
| `OrderInvariant` (`HubRoomProofs`) | of each kind, what was posted first is ahead on every way from queue to browser |
| `KindsInOrder` (`HubRoomProofs`) | `PostedOrder` of the hub |

That two streams agree is not provable from the hub's variables step by step; in the
room it follows from one log with each item once, and the refinement needs only
where the manager is in a fan-out and that a client it has still to visit is a
member (`LockInv` of `HubProofs`), and that an item is in one queue or in the log,
not twice. That nobody is passed over is the step `Say`: the manager takes an item
only in its select, where it has nobody left to serve, so `Told` is the end of the
log for every member; what `FanMessage` does to a channel is what `Tell` does to a
queue of that capacity, and a writer gives up what it took only on a dead socket.

`PostedOrder` is about what a browser has received, and nothing in it keeps what is
still to come in order. `OrderInv` says of every list on the way that it has each
kind in the order of posting (`Sound`), and of two lists, one further on than the
other, that the first is ahead of the second (`Ahead`): the log ahead of the
queues of messages and edits, and what a browser gets of file events ahead of
`fileEvents` and, until it is served, of the event at hand (`FileAtHand`). A debug
event goes past the queue with a kind of its own. For messages and edits the room's
theorem does the rest: what a browser receives lies in the log in the log's order
(`RoomAsProved`).

`SessionsProofs` proves for any sets of requests, users and session IDs, with
failing calls or without:

| Theorem | Says |
|---|---|
| `SessionsInvariant` | `Spec => [](IdInv /\ NameInv)` |
| `SessionTypes` | `TypeOK` |
| `NoStrays` | `NoStraySession` |
| `NamesOnce` | `OneRegistration` |
| `DeadForGood` | `DeadStaysDead` |

`IdInv` adds to `NoStraySession` that an ID being made is in the hands of one
request only, not cached, and without a row until its last step
(`MakingIsPrivate`), and that cookies name issued sessions (`NamedIsIssued`).
From it follows `DeadStaysDead`: whoever makes a row live or caches a session
either holds it as a new ID, which a dead session is not, or is at `fill`.
`NameInv` adds to `OneRegistration` that between the insertion of an account
and its session no session of that name exists and no second request is
there (`InsertedOnce`), which rests on the refusal of the table, not on the
check before it. The assumption is `SessionsAssumption`.

`ChatHistoryProofs` proves for any viewers, messages, edits, old messages and limit,
with failing calls or without, and for restarts at any moment:

| Theorem | Says |
|---|---|
| `HistoryInvariant` | the inductive invariant of table, cached list and goroutines |
| `HistoryTypes` | `TypeOK` |
| `ListsAreBounded` | `CacheBounded` |
| `NothingIsAhead` | `NothingAhead` |
| `HistoriesInOrder` | `HistoryInOrder` |

Neither `CacheBounded` nor `NothingAhead` is inductive: both say nothing of the list that
an `updateCache` has read and will write back. `ListsGood` says of that list, of the
cached one and of every history that it is bounded and holds only messages that were
taken, with texts that the table has (`Good`); that texts never go back in the
table rests on a row being made once, of a message that was taken and not yet
saved (`RowsOfTaken`). For `HistoryInOrder`, `SortOK` says of every list that is being
sorted, of any length, that what lies before the outer index is settled, no later than
anything after it; that the message at the index is no later than those the inner
loop has passed (`Settled`); and that the list is the loaded one rearranged, which
a swap keeps (`Swapped`). The assumption is `HistoryAssumption`.

`FileStoreProofs` proves for any pages, users, times, sizes and number of operations:

| Theorem | Says |
|---|---|
| `FileInvariant` | `Spec => [](TypeOK /\ FormHasKey /\ ListIsTrue)` |
| `FileTypes` | `TypeOK` |
| `ListsAreTrue` | `ListIsTrue` |

`ListIsTrue` is inductive over the types, because `Coming` follows a change all the way:
a changed bucket leaves an announcement to make, that an event, that a timer,
that a load, or else the page has missed it. `TypeOK` needs `FormHasKey`: a file is
posted under the key of a form, never under a guessed one, and it takes the place of the
one that had the key, so that a bucket stays a bucket (`BucketTakes`). The
assumption is `FileStoreAssumption`.

`ListIsTrue` excepts pages that missed something, and the code does let them: an
event may be dropped on the way, and `loadFiles` refuses a reload while another
load is in progress, even if that one has read its list before the change. Such
a page stays stale until its next load.

`RegistryProofs` proves for any servers, any TTL of at least two units and any
number of faults:

| Theorem | Says |
|---|---|
| `RegistryInvariant` | the inductive invariant of keys, tickers and heartbeats |
| `BeatingListed` | `BeatingIsListed` |
| `NoExpiryHalf` | `NoExpiryIsHalf` |
| `ClusterListed` | both, in `ClusterSpec` |
| `ClusterInvariant` | the registry's invariant and the one of the exchange, in `ClusterSpec` |
| `ClusterTypes` | `ClusterTypeOK` |
| `NoForgery` | `NothingForged` |

The argument: after a heartbeat in time the key has at least as much TTL left as
the ticker has time to go, and once the ticker has fired at least one unit; the
`Period` is less than the TTL. `ClusterListed` needs no second invariant: every step
of the cluster is a step of the registry or leaves it alone, but for the
bound on faults that both share. `RelayInv` is the invariant of the exchange:
its types, that a server that runs its hub is up, and `NothingForged`, which is
inductive over these because `Decoded` makes nothing of what `Envelope` has made.
The assumptions are `RegistryAssumption`
and `ClusterAssumption`.

`MemoryCacheProofs` proves for any callers, values, TTL and bound of time:

| Theorem | Says |
|---|---|
| `CacheInvariant` | types, `LocksBalanced`, one writer per lock, and what each goroutine's call is at each place |
| `CacheTypes` | `TypeOK` |
| `LocksGivenBack` | `LocksBalanced` |
| `NoCircularWait` | `NoDeadlock` |
| `CacheImplements` | `Spec => CacheSpec` |

The refinement rests on `LocksBalanced`: a write happens when no one reads, so the
calls whose moment is over and that have not copied yet are of the other lock
(`WriteMaps`, `DropMaps`, `SweepMaps`), and a copy is what the check found (`CopyUnseen`).
That the sweep takes no fresh session needs that its time is not later than
the clock (`CleanerInv`). The assumption is `CacheAssumption`.

`NoCircularWait` is the safety half of `CallsReturn`. The places of a call where it
may wait are in an order (`WaitsInOrder`): those who ask for a lock wait for its
writer, a writer for the readers that were there before it, and a reader only for
the one that counts, which waits for nobody. No reader asks for its lock again or
for the other one, and that is the whole reason; the run's mutant, a check that
removes a stale session under its read lock, waits for itself.

Only model-checked:

* liveness, which is outside the prover: `ManagerServes`, `LostConnectionsReaped`,
  `PresenceConverges`, `GaugesConverge`, `CacheHeals`, `SessionsEnd`, `CallsReturn`;
* `TypeOK` of `Gauges`, whose one property worth a proof is `GaugesConverge`;
* the violated properties.

## 6. Plan

Done: all modules above and their proofs. What could follow, in this order:

1. The forms `ReadPump` accepts (`client.go` 66-170) as a pure function.
2. The chat page's script: which text a page ends up with when a history and an edit
   cross, by the ID of a message.

## 7. Not modelled, and why

* Configuration, the schema, routing and rendering are sequential and keep no
  state to relate. Of start-up the order of registry and hub is in `Cluster`.
* Counters and histograms only grow and nothing reads them; the statistics ticker
  copies numbers of the connection pool into gauges.
* `GetHistory`, `AddMessage`, `FlushAll`, `SessionRepository.Cleanup`, the cache's
  `GetStats` and `GetActiveServers` have no caller; `Unregister` is deferred where no
  end of the process runs it; cached users are stored and never read; `models/` is
  imported nowhere.
* The download handlers and the debug handlers that only report change nothing.
* `chat.html`: its script appears as the online list it shows and the order in
  which it is sent items. What it does with an item, by the message's ID, is text
  handling in the browser over state the server does not know; `ChatHistory` ends
  where a history is handed to the channel.
* Text, names and times are abstract. Which text a frame yields is a free choice in
  `ReadChat` and `ReadEdit`.

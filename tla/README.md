# Verification of Pulse

TLA+ models, TLC runs and TLAPS proofs for Pulse, a fleet of Node.js WebSocket
servers that exchange events over Redis Pub/Sub, and its TypeScript client
session. Paths below are relative to the repository root (`src/core/...` is the
repository's `src` directory; `PROJECT.json` writes it `src/src/core/...`).

## 1. Inventory

### Components, their state and operations

| Component | State | Operations |
|---|---|---|
| Connection registry (`core/ConnectionManager.ts`, `core/Connection.ts`) | `connections`, `userConnections`, `pendingConnections`; per connection `rooms`, `lastSeenSeq` | `tryAcquireSlot`, `releasePendingSlot`, `addConnection`, `removeConnection`, `clear` |
| Rooms (`core/RoomManager.ts`) | `rooms`: room -> connections | `joinRoom`, `leaveRoom`, `removeConnectionFromAllRooms` |
| Dispatcher (`core/MessageDispatcher.ts`) | none of its own; a handler that awaits holds its locals | `dispatchRawMessage` and one handler per event type; `handleInboundRedisEvent` |
| Idempotency cache (`core/IdempotencyManager.ts`) | a Map used as LRU cache of ACKs with timestamps and payload hashes | `check`, `recordAck`, `pruneExpired`, `clear` |
| Channels (`redis/ChannelRegistry.ts`, `redis/RedisPubSubManager.ts`) | `refCounts`, `subscribedChannels`; commands in flight | increment/decrement, `subscribe`, `unsubscribe`, `restoreSubscriptions`, `publish` |
| Redis clients (`redis/RedisConnectionManager.ts`) | status of publisher and subscriber | connect, disconnect, events `ready`, `close` |
| Server (`core/PulseServer.ts`) | `isRunning`, `isShuttingDown`, HTTP and WebSocket server, timers | `start`, upgrade handler, close handler, `drain`, `stop`, `cleanupAndFinalize`, `handleRedisReconnect` |
| Presence (`redis/PresenceManager.ts`, `PresenceLuaScripts.ts`, `PresenceEventTracker.ts`) | in Redis a sorted set of leases per user and a hash per room; per node the timestamp of the last event per user | register, remove, flush, count, publish, room roster |
| Client session (`client/PulseClientSession.ts`) | state machine, current socket, timers, `currentSeq`, `inFlightQueue`, `desiredRooms` | `connect`, `disconnect`, `joinRoom`, `leaveRoom`, `sendEnvelope`, `flushRetryQueue`, `resubscribeRooms` |
| Heartbeat (`core/HeartbeatManager.ts`) | sweep timer, `isHeartbeatTimedOut` per connection, fallback timers | `start`, `stop`, `checkHeartbeats` |
| Send path and rate limit (`core/Connection.ts`, `utils/TokenBucket.ts`) | socket state, buffered bytes; tokens, violation count, two timestamps | `send`, `close`, `terminate`; `tryConsume`, `recordViolation` |
| Validation (`events/EventValidator.ts`) | none | `validateIncoming`, `stampForDistribution`, `validateDistributed` |
| Authentication and origins (`auth/Authenticator.ts`, `utils/OriginMatcher.ts`) | none | `generateToken`, `extractToken`, `verifyToken`; `isAllowed` |
| UUIDv7 (`utils/uuidv7.ts`) | `lastMs`, `sequenceCounter` | `generateUUIDv7` |
| Process (`bin/pulse-server.ts`) | whether a fatal error is being handled | signal and error traps, `process.exit` |
| Dashboard (`dashboard/src/hooks/usePulseSocket.ts`, `components/TrafficSandbox.tsx`) | `socketRef`, reconnect timer and counter, subscribed rooms, activity list, stored session | `connect`, `disconnect`, socket events, timers, visibility, mount and unmount |
| Configuration, metrics, chaos tools, benchmarks | see "What is not modelled" | |

### How they interact

A socket's upgrade goes through admission (slots) to `addConnection`. Each
frame starts `dispatchRawMessage`, whose promise nobody awaits: within a process
code runs without interruption up to an `await`, and there the handlers of
other frames, timers and close events run. Room handlers call `RoomManager`,
which informs `ChannelRegistry` when a room gets its first or loses its last
local member; the registry's promise is not awaited either. With Redis presence
the room handlers await a Redis command. Close events clean the registry and
the rooms and start the removal of the presence lease. Messages are published
on the channel of their room or user, and `handleInboundRedisEvent` delivers
them on the other nodes.

### What is hard

* every `await` is a point where the socket may close, another frame of the same
  socket may be handled, or the server may start to drain;
* commands to Redis are in flight while the counts they stand for change; either
  client may be down; commands fail after the state was changed;
* the session shares one state among the events of all the sockets it ever
  opened, and timers fire in any state;
* messages and ACKs are lost with a socket and sent again on another, perhaps to
  another node;
* leases are kept alive by timers, against crashes and lost removals, and room
  rosters in Redis are shared by nodes that know only their own sockets;
* the Redis clients retry for a while and then give up, during `start()`, while
  the server runs, and while it stops;
* pings, sweeps, close frames and fallback timers are late or lost.

`PROJECT.json` lists these as hazards, each at its line, with the properties that
guard it.

### What makes each component correct

* Tables: the room index, the sockets' room sets and the user index agree; a
  closed connection is in no room; the room limit holds; `lastSeenSeq` only grows.
* Cache: an executed event is recognised within its TTL unless the cache had to
  evict it; an ACK is not replayed later, nor for another payload.
* Channels: counts equal holders; a held channel is delivered.
* Messages: every socket gets an event at most once, in the order of its node, and
  no event is lost between the nodes without a failure.
* Server: slots are bounded and not lost; `stop()` leaves no socket open and ends;
  `/readyz` tells the truth; a lost Redis connection comes back.
* Session: a resolved promise was executed; a node executes a message once; every
  promise is settled; `disconnect()` lasts; a lost connection is reopened.
* Presence: live connections keep their lease, dead ones lose it within the TTL,
  and the other nodes' view converges; a roster lists who is there; presence
  events reach only room-mates.
* Heartbeat: a half-open connection is removed within a bound, a responsive one is
  never taken for dead.
* Rate limit: no stretch of time lets through more than burst and rate; abuse
  closes the connection.
* Handshake, validation, ids: a request is judged by what its origin and token mean;
  an event comes out of another node's validator as it went in; ids increase.
* Dashboard: one socket at a time; no attempt hangs; rooms survive reconnects; no
  ACK is missed.

## 2. Plan

1. `Membership` with `MembershipProofs`: the dispatcher's handlers (done).
2. `ChannelSubscriptions` with `ChannelProofs` (done).
3. `Idempotency`, `ClientSession`, `Presence`, with `NodeProofs`, `ClientProofs` and
   `PresenceProofs` (done).
4. `Delivery` with `DeliveryProofs`: publish and fan-out over several nodes, shown to
   implement the abstract contract `EffectivelyOnce` (done).
5. `RedisConnection` and `ServerLifecycle` with `NodeProofs`: one life of the
   process and its Redis clients (done).
6. `RoomRoster`, `SocketHealth`, `Ingress` with `EventValidator` and `Handshake`,
   `Uuidv7`, `DashboardSocket` (done; proofs in `RosterProofs`, `SocketProofs` and
   `ClientProofs`).
7. Left: abstract specifications of a channel and of a roster, and proofs that
   `ChannelSubscriptions` and `RoomRoster` implement them; type correctness of the
   modules section 4 does not name; the effect of `ChannelRegistry.clear()` on the
   counts and a second life of a server object; the ACKs of the room handlers.

## 3. Modules

**Membership.** Variables `connections`, `userConnections`, `members` (the Map
`rooms` of `RoomManager`; an empty set stands for no entry), `rooms` and
`lastSeenSeq` of each `Connection`. `Accepted` is the path of `dispatchRawMessage`
to a handler. `RoomJoin`, `RoomLeave` and `RoomBatchJoin` are the handlers up to
their first `await`; the rest of a waiting handler is a record in `suspended`, and
`Resume` continues the oldest one (all commands go through one Redis client,
which answers in order). The loop of a batch join is `running`; while it runs the
event loop is busy (`LoopFree`) until an iteration awaits. Without presence
nothing awaits. A frame that is refused changes none of the tables and is not an
action.

**Idempotency.** `cache` is the Map in insertion order. A frame is one action,
since `check` and `recordAck` have no `await` between them: `Execute` (new and
accepted), `Reject` (new and refused: `check` may have deleted an expired
entry), `Duplicate` (replay or conflict). A payload is a function from key paths
to values, so that `HashPayload` can do what the replacer array in `hashPayload`
does: a nested key survives only if it is also a top-level key. `lastRun` and
`since` are history.

**ChannelSubscriptions.** `holders` are the connections that joined a room or
belong to a user; `refCount` and `subscribed` are the registry's and the Pub/Sub
manager's; `pending` are commands sent and not answered; `wire` is what Redis
delivers. `Hold` and `Release` are the synchronous parts; `Answer` and `Fail` the
replies, with the registry's rollbacks. The clients go down and up one by one;
`restoreSubscriptions` runs when both are up. A client that is down may also end for
good (`SubscriberGivesUp`, `PublisherGivesUp`, and `ended` remembers it), since
`retryStrategy` stops after `retryMaxAttempts`; a subscriber that ends rejects all
its commands, and `RolledBack` is what the registry's rollbacks leave of the counts.
`AutoResubscribe` says whether the client library restores subscriptions by itself
(external).

**Delivery**, with the abstract specification **EffectivelyOnce**. `Execute` is
`handleRoomMessage` or `handleDirectMessage` of a new event: it sends to the local
sockets, records the event in the node's `cache`, answers the sender and hands a
PUBLISH to the publisher client, unless `publish` refuses (`MayPublish`). `Inbound`
is `handleInboundRedisEvent` with its two filters, `IsEcho` and `IsDuplicate`.
`Join`, `Leave` and `Close` change the tables at once and `Send` a SUBSCRIBE or an
UNSUBSCRIBE when a channel gets its first or loses its last local member; nobody
awaits the command, which stays in `commands` until Redis executes it (`Obey`). So an
UNSUBSCRIBE may take effect when the channel has a local member again. `Subscribed`
says that this cannot happen any more: the node listens and has none under way.
`SendAll` is `Connection.send` to several sockets; the set `slow` says which of
them have a full buffer and are closed. `outbox` are the commands without an
answer, of which Redis has executed the first `pushed`: after `PublisherLost` it
executes them again (the client keeps unanswered commands, with
`maxRetriesPerRequest: null`). Redis and the client library are external: `Push`
goes to the nodes listening at that moment, `SubscriberLost` loses what was under
way. A sender may repeat an event at any time on any socket. `executed`, `resent` and
`audience` are history: the last holds, per event, the sockets that were to get
it when it was executed. The caches never forget here (see `Idempotency`);
presence events, which share the limit of publishes in flight, are left out.
`EffectivelyOnce` has two variables, the accepted events and what each socket
received, and lets an accepted event be sent to any sockets that do not have it.

**RedisConnection** and **ServerLifecycle**, which extends it. `client` is what the
library's two clients are, `status` what `RedisConnectionManager` believes of them.
`Connect` is `connect()`; `Ready`, `LoseClient` and `Refused` are the events of a
client with the handlers that `createClient` attaches and the retry strategy, which
ends a client after `MaxAttempts`; `ConnectTimeout` and the `catch` of `connect()` mark
both clients as failed; `Disconnect`, `Quit` and `Disconnected` are `disconnect()`.
`ServerLifecycle` is one life of the process. `config` (an embedded gateway or not,
Redis or not) is chosen initially. `Start`, `StartServers` and `Listening` are the
stages of `start()`, `ExitEarly` a failed one. With a gateway the upgrade handler
awaits it (`AskGateway`, `Lose`, `GatewayAnswers`, `GatewayAnswersLost`), without one
the handler is a single step (`Upgrade`). A slot that is taken and given back within
a step is not seen; an aborted handshake keeps it until `EarlyClose`. `Stop`,
`HandoffEnds`, `WssClosed`, `HttpClosed` and `TimerFires` are the stages of `stop()`. The
timer and the callback of `http.close` may each start the end (`Conclude`): they wait
for `routexGateway.close()` (counted in `closings`, until `GatewayClosed`) and then run
`cleanupAndFinalize` (`CleanUp`), which waits for the UNSUBSCRIBEs of
`channelRegistry.clear()` (counted in `clearings`, until `RegistryCleared`) and then for
`disconnect()` (`DisconnectRedis`, `Finalize`). The code limits only the last of the
three waits. Which channels a node holds is not part of this module, so `CleanUp`
leaves open whether there is anything to unsubscribe; it never waits while a client is
down, when `unsubscribe` sends nothing. `Fatal` and `Exit` are the traps of
`bin/pulse-server.ts`; `ReadyStatus` is the answer of `/readyz`. Node and `ws` are
external: `wss.close` calls back when its last client is gone, and `http.close` when
its last socket is.

**ClientSession.** The session, its sockets, and the part of the dispatcher that
answers it. An event is the number of the `sendEnvelope` call. `up` and `down` are
the frames on each socket; `Settle` removes an event from the queue and, when it
is the ROOM_BATCH_JOIN of `resubscribeRooms`, does what follows its `await`. Late
events of old sockets act on the shared state, as in the code. The application
makes the calls of a workload (`Workloads`), in order, whenever it likes.

**Presence.** Each node sends commands through one client in order; the commands
of two nodes interleave. `Register`, `Remove` and `Count` are the Lua scripts (each
atomic, each pruning expired leases first), `Renew` the pipeline of
`flushLeaseRenewals`, `Publish` the event with the `PresenceEventTracker` of a
receiving node. `commands` hold what a handler remembers over its awaits. Clocks
are taken as synchronised; `MaxDelay` bounds the time a command takes.

**RoomRoster.** The set of users that Redis keeps per room. `RoomJoin`, `RoomLeave`,
`RoomBatchJoin`, `Open` and `Close` are the handlers up to their first await, and each
command in `commands` carries what its handler needs after the reply. `Execute` is
the command together with that rest: `SADD`, `SREM`, the roster script that prunes
users without a lease, register, remove, count, and the publication of ONLINE and
OFFLINE with `deliverRoomScopedPresence` on the other nodes. Commands fail (`Fail`),
nodes die with theirs (`Crash`). Leases are a set: `Presence` says when they expire.
No code of the server subscribes to the presence channel; the module assumes that
the application does.

**SocketHealth.** One connection between its upgrade and its removal, with explicit
time. Times are kept as ages that stop growing where no comparison in the code can
tell them from larger ones, so that the state space is finite without a bound on
time. `CheckHeartbeats` is a sweep, `Fallback` the timer behind a close, `Sent` the
slow-consumer check of `send`, `Refill`, `TryConsume` and `RecordViolation` the token
bucket, `DispatchRawMessage` the part of the dispatcher before the handlers. The
network may be cut and restored at any time (`Cut`, `Restore`); timers are up to `MaxLag`
late. `excess` and `recent` (how long ago the last violations were) are history,
independent of the bucket's own counters.

**Ingress**, with **EventValidator** and **Handshake**. The way of one message: its
sender's upgrade request (`Upgrade`, origin and token), its frame (`Dispatch`,
`validateIncoming`), the published event (`Distribute`, `stampForDistribution` and the
JSON text) and the other node (`Receive`, `validateDistributed`). A frame is a record
of the values the checks look at, an origin a record of scheme, host labels, port and
spelling, a token a record of what `verifyToken` finds in it. A request has three
places for a token and may use all of them; `Decides` says which token counts.

**Uuidv7.** The generator's millisecond and counter, with a clock that may stand
still or go back. The widths are parameters. `GenerateCustom` is a call with
`customTimestamp`, which leaves the millisecond alone and overwrites the counter; only
`tests/utils/uuidv7.test.ts:33` makes one.

**DashboardSocket.** The hook `usePulseSocket` and the sandbox that mounts it. A socket
is an identifier whose state the browser changes; its handlers are attached or not. A
close that the server begins takes two steps: `ServerCloses` leaves the socket CLOSING,
still in `socketRef` and shown as connected, and `CloseCompletes` fires `onclose`.
`SocketDrops` is a refused connection or a lost network. The clean-up of a socket,
scheduling a reconnect, the timer, tab switches, visibility, rooms, messages with their
ACKs, the burst timer and the stored session are actions or parts of them. The log of
frames and all rendering are left out.

The MC modules give the constants values. `MCNode` also puts `Membership`,
`Idempotency`, `SocketHealth`, `Ingress` and `Uuidv7` side by side; they share no state,
so each is explored while the others are in their initial states.

## 4. Runs

| Run | Shows | Bounds |
|---|---|---|
| `node` | tables agree; bounded, remembering, fresh, payload-safe cache; heartbeat, rate limit; handshake, relay and ids against reference definitions | tables: 2 sockets of one user, 3 rooms, 2 rooms allowed, batches with an invalid and with a repeated room, 2 handlers waiting. Cache: 3 events, capacity 2, TTL 2, time 4, 4 payloads. Connection: interval 4, timeout 4, fallback 1, lag 1, round trip 1 ticks; bucket of 2, 3 violations in 2 ticks, buffer of 1. 11,700 frames, 37 origins against 73 lists, 14 tokens in three places at 6 times, and every combination of no, a valid, an expired and a forged token in the three places; a counter of 2 bits |
| `channels` | counts, delivery, overcount under failures | 2 channels, 2 connections, 3 commands in flight, 2 outages, 2 failures, each client may give up |
| `delivery` | events arrive once, in order, and none is lost; implements `EffectivelyOnce` | 2 nodes, 3 sockets, a room and a direct message, 2 and 1 publishes in flight; joins, leaves, stalls, closes and faults: 2 in all, at most 1 a fault |
| `lifecycle` | admission, readiness, draining, stop, reconnection | 2 sockets, 1 slot, all four configurations, 1 retry, 2 faults of Redis |
| `roster` | rosters keep those present and drop those who left; presence events stay among room-mates | a user with 2 connections on one node and 1 on another, a second user, 1 room, 2 commands queued per node, 3 events (joins, leaves, failures, crashes); the two connections of one node are symmetric |
| `session` | session safety and settling | 2 sockets, 3 sends, queue of 2, 1 retry, four applications |
| `presence` | leases live and ghosts expire | 2 nodes, one connection of a user on each, Ttl 4 > flush 2 + delay 1, 1 failure, time 5 |
| `dashboard` | one socket, no hanging attempt, rooms and ACKs kept | 2 sockets, closed by either side or dropped, a good and a bad URL, 1 room, 2 correlations, 2 attempts, 2 activities, 1 burst batch |
| `ghost_members` | disagreement: a closed connection stays in a room | tables as in `node` |
| `room_limit` | disagreement: more rooms than allowed | tables as in `node` |
| `session_stranded` | disagreement: no reconnect | 2 sockets |
| `presence_view` | disagreement: views do not converge | 2 nodes, no failure |

Why the bounds suffice for what is asked: two handlers waiting and a third running are
all the interleavings of one connection's tables; three events are the least that evict
from a cache of two; a retry needs one socket to die and a second to open; a lease must
outlive its first term (time 5 = 1 + Ttl) to need its renewal; a second failure is
needed before overcounts could add up; two events on two channels executed by two nodes
are the least for reordering and for duplicates from both sides, and different limits
per node let one node queue two commands and the other refuse its second; two moves are
the least to leave a room and join it again while the UNSUBSCRIBE is under way; one slot
is the least two upgrades compete for, and two faults the least that make a client give
up after it was connected; a roster goes wrong across nodes only with a connection on
each, and within a node only with two. Symmetry is used in `roster` only, which checks
no liveness.

Deadlock is not checked where the system may stop: bounded applications finish
(`session`), a server stops (`lifecycle`), the clock ends (`presence`), every
socket has closed (`node`, `ghost_members`, `room_limit`), every event has arrived
(`delivery`), the events are used up (`roster`).

**Fairness.** `channels`: Redis answers a client that is connected, and a client that
is not has been connected again or has given up in the end (it makes at most
`retryMaxAttempts` attempts), which of the two is open. `lifecycle`: `start()` goes on,
timers fire, callbacks of Node run, and a client that is still trying reaches Redis
or answers QUIT in the end. Nothing is assumed of WebSocket clients. Nor is
anything assumed of the gateway and of the replies to the UNSUBSCRIBEs of `clear()`,
for which `stop()` waits without a limit: `StopResolves` has as its premise that these
waits do not last for ever. QUIT is covered by a timer of its own. `session`: only the ACK
timers fire; neither the network nor a node owes anything. `dashboard`: the reconnect
timer fires and the browser settles every socket, one way or the other. The other
runs check safety only.

Each property has a mutant: an operator next to the original, marked `Mutant:`,
that changes it the way a plausible slip would. The property fails with it. The
type invariant is proved for `Membership`, `ChannelSubscriptions`, `Delivery`, `ClientSession`
(`TypeOK`) and `DashboardSocket` (`HookTypeOK`); where another module defines one, it
serves as documentation.

### Disagreements kept as runs

`PROJECT.json` quotes the line each one contradicts.

* **ghost_members**: a socket closes while `handleRoomBatchJoin` awaits
  `addRoomMember`; the loop goes on and adds the closed connection to the next room,
  after the clean-up that would have removed it (`MessageDispatcher.ts:690`).
* **room_limit**: the loop of a batch join compares with the number of rooms it read
  before its awaits, so that a join handled meanwhile takes the connection past
  `maxRoomsPerConnection` (`MessageDispatcher.ts:685`).
* **session_stranded**: the close handler reconnects only from CONNECTED and clears
  the connection timeout, so a socket that closes while the session authenticates
  or resubscribes leaves nothing scheduled.
* **presence_view**: an OFFLINE stamped in the same millisecond as the ONLINE is
  dropped as stale; across nodes the older transition can carry the newer stamp.

### Other disagreements the models show

They follow from the modules as they stand; no run is kept for them. Definitions
named here are in the modules, with a comment that they do not hold.

Membership and rooms:

* A handler that waited writes its `seq` over a later one (`MessageDispatcher.ts:607`;
  `LastSeenMonotonic`).
* A join waits twice and a leave once, so that the ACK of a join may come after that
  of a later leave (`MessageDispatcher.ts:614`).
* Leaving a room on one node removes the user from the roster although another node
  has a connection of the user in it (`MessageDispatcher.ts:730`;
  `RosterKeepsPresent` says that only another node can do this). Leaving a room that
  was never joined does the same. Closing removes nothing: the entry stays until the
  lease is gone and somebody reads the roster.
* ONLINE and OFFLINE events usually name no room, because the user has not joined yet
  or has already left, so room-mates on other nodes are seldom told
  (`PULSE_PROJECT_SPEC.md:158` lets the other nodes update their view "in real
  time"; `README.md:263`).

Messages, channels and sessions:

* `hashPayload` does not see differences inside nested objects
  (`ConflictDetected` says what it does see).
* `pruneExpired` stops at the first unexpired entry, though refreshed entries make
  the Map unordered by time.
* The registry rolls its count back when SUBSCRIBE fails, but `subscribedChannels`
  keeps the channel, so the next first holder sends nothing (`RetrySubscribes`;
  `ChannelRegistry.ts:172` "so subsequent attempts can retry").
* `unsubscribe` sends nothing while a client is down, so an unheld channel may stay
  subscribed when the client library resubscribes by itself
  (`RedisPubSubManager.ts:156`).
* The UNSUBSCRIBE of a last leave can take effect after a new join and before its
  SUBSCRIBE (`ChannelRegistry.ts:207`): what is published between the two does not reach
  the new member (`Subscribed` in `NothingLost`).
* A subscriber that gives up for good leaves its channels counted or rolled back, and
  nothing subscribes to them again (`EventuallyListening` names it).
* A message whose ACK was lost is executed again by another node after a
  reconnect: the idempotency cache is per node (`OncePerNode` is what holds).
  The sockets still get it once: `DeliversOnce`.
* A retry carries its old `seq` after frames with larger ones. When its timer fires
  on a new socket before the rejoin, the large `seq` makes the node refuse the
  ROOM_BATCH_JOIN as out of order, and the session's rooms are lost
  (`PulseClientSession.ts:388`); with a full queue that ROOM_BATCH_JOIN is refused with
  BUFFER_FULL (`PulseClientSession.ts:341`).
* `PulseClientSession` never answers SYS_PING (`README.md:295`: "Clients must
  reply"), so an
  idle session is reaped; `Answers` in `SocketHealth` is the dashboard's client.
* A session whose resubscription times out after its socket closed calls itself
  CONNECTED.
* After `PublisherLost` the repeated commands can reach a node that was not
  subscribed the first time behind later ones, so events of one node can arrive
  out of order; `OrderKept` leaves out nodes in `resent` for that reason.

Server:

* A TCP connection that is lost while the gateway decides has emitted `close` before
  `onEarlyClose` listens for it, so its slot is never given back (`SlotsAccounted`,
  `PulseServer.ts:450`).
* An upgrade waiting at the gateway when draining starts is admitted and gets no
  SYS_SHUTDOWN (`PulseServer.ts:379`); `NobodyLeftOpen` says that it is closed with the
  others.
* `stop()` hangs when the gateway never closes (`PulseServer.ts:1108`, `:1124`) or Redis
  never answers an UNSUBSCRIBE of `clear()` (`PulseServer.ts:1178`): the shutdown timer
  only starts these waits. After an uncaught error the emergency timer of
  `bin/pulse-server.ts` ends the process; after a signal nothing does.
* A Redis client gives up after `retryMaxAttempts` (10 by default, about ten seconds)
  and nothing connects it again, and when one client fails during `connect()` the
  other stays marked as failed although it is ready
  (`RedisConnectionManager.ts:201` and `:96`). So the server does not recover from
  every outage (`RedisRecovers`; `README.md:264` "When Redis connectivity is
  restored, local leases are automatically re-synchronized").
* When the shutdown timer ends `stop()`, the HTTP server may still listen while
  `isShuttingDown` is reset: without Redis `/readyz` then answers READY for a server
  that has stopped (`ReadyIsTrue` is about a running one).
* A connection closed with 1008 for abuse is counted as a slow consumer
  (`PulseServer.ts:972`).

Rate limit, handshake and ids:

* `recordViolation` speaks of a sliding window (`TokenBucket.ts:42`) but counts a chain
  of violations each within the window of the one before (`AbuseWithinWindow`).
* A pattern with a port (`https://*.d:8443`) matches nothing but itself, and an empty
  list refuses every origin (`OriginMatcher.ts:47`) although line 33 says that it
  allows all; `HandshakeSound` follows the code.
* A request with an expired token in its query and a valid one in its Bearer header
  is refused: `extractToken` takes the first place in use (`Authenticator.ts:56`).
* A counter that runs over while the clock is behind makes ids go back
  (`IdsIncrease` names the exception; the comment says "preserve monotonicity"). After
  a call with `customTimestamp` the next id may fall below earlier ones of the same
  millisecond (`uuidv7.ts:50`).
* A `timestamp` of 1e999 is Infinity, which JSON cannot carry: other nodes see their
  own time.

Dashboard:

* Between the server's close frame and `onclose` the sandbox shows a connected socket
  while `sendRaw` refuses (`usePulseSocket.ts:378`); `NeverStuck` says that the hook still
  hears of the end.
* The burst timer goes on with the new socket after a reconnect
  (`usePulseSocket.ts:529`); a SYS_ERROR of the rate limit has no correlationId, so
  its message stays pending (line 251); two messages of one millisecond share their
  correlationId (`TrafficSandbox.tsx:412`); the stored session survives exhausted
  reconnects (line 324); `connect` with another URL keeps an open socket
  (`usePulseSocket.ts:352`).

Timers of presence: the safeguard TTL of the keys is 120 s while `presenceTtlMs` has
no upper bound (`PresenceManager.ts:84`), so a longer lease would be cut short; the
model has no such TTL.

## 5. Proofs

The proofs hold for every value of the constants that satisfies the assumptions of the
modules (`MembershipAssumption`, `ChannelAssumption`, `DeliveryAssumption`,
`LifecycleAssumption`, `RedisAssumption`, `ClientAssumption`, `PresenceAssumption`,
`IdempotencyAssumption`, `HealthAssumption`, `TimingAssumption`, `ValidatorAssumption`,
`UuidAssumption`, `DashboardAssumption`, `RosterAssumption`): finite sets of
connections, sockets, rooms or channels, and limits that are natural numbers. A theorem
that needs more of the configuration says so in its ASSUME. Components whose proofs
share a module or a run have names of their own for Init, Next and Spec (`CacheSpec` of
`Idempotency`, `HealthSpec` of `SocketHealth`, `HookSpec` of `DashboardSocket`). TLC
checked each invariant below before it was proved. Every safety invariant and every
action property that a passing run checks is proved.

**MembershipProofs**

* `TypeCorrect`: `Spec => []TypeOK`.
* `TablesCorrect`: `Spec => [](TablesAgree /\ UserIndexExact)`. Neither is
  inductive alone: that a join cannot bring a closed connection into the index
  (outside a batch) needs that exactly the open sockets are registered, and that
  a task in `suspended` or `running` belongs to a connection that was once opened.
  `TablesInv` adds these facts (`Started`) and the types.
* `SyncSafe` and `SyncSeqMonotonic`: without presence `NoGhostMembers`, `RoomLimit`
  and `LastSeenMonotonic` hold. The strengthening `SyncInv` says that nothing waits
  and that what a running batch read is still true (`LoopFresh`): its socket is
  registered, `count + added` is the number of its rooms, its `seq` is not
  behind. Without the assumption they fail (section 4).

**ChannelProofs**

* `TypeCorrect`: `Spec => []TypeOK`.
* `Overcount`: `Spec => []OvercountBounded`.
* `CountsExact`: `Spec => []RefCountExact`.
* `HeldIsDelivered`: `Spec => []Listening`. The strengthening `ListenInv` relates a held
  channel to the last command about it that is in flight: either it is on the
  wire or some command will put it there, and no later one takes it away, unless
  a client is down and `restoreSubscriptions` is still to come.

**DeliveryProofs**

* `TypeCorrect`: `Spec => []TypeOK`, the limit of publishes in flight included.
* `EffectivelyOnceHolds`: `Spec => DeliversOnce`, the refinement. It rests on
  `OnceInv`: a node remembers what its sockets have (`Known`), so that the cache
  check is enough to send nothing twice, and only executed events travel between
  the nodes (`Honest`). `Execute` maps to `Accept`, `Inbound` to `Forward` or a
  stutter, all else to a stutter.
* `NothingIsLost`: `Spec => []NothingLost`. The strengthening `LossInv` says of a
  socket still waiting for an event that its node is `Subscribed` to the channel, finds
  the socket in its tables and does not know the event yet, besides that the event is
  under way. That no UNSUBSCRIBE is under way is kept because none is sent while the
  socket is in the tables; without the last fact the duplicate check could drop the
  event.
* `OrderIsKept`: `Spec => []OrderKept`. `OrderInv` follows an event on its way: the events of
  a node that never published again stand in `outbox` and `inbox` in the order it executed
  them (`Lined`), and an event that is still to come to a node is later than
  everything its sockets have from there (`Passed`). That a publisher repeats its
  commands breaks the first, which is why `OrderKept` excludes nodes in `resent`.

**NodeProofs**, the life of a node

* `Admission` and `SlotsReturned`: `Spec => []AdmissionBound` and
  `Spec => []DirectSlotsAccounted`, from `SlotInv`. The count of slots is inductive only
  together with the fact that, without a gateway, nobody waits for one and every
  pending slot belongs to an aborted handshake; sizes of sets are related by
  `ConnectionCount`.
* `NobodyIsLeftOpen`: `Spec => []NobodyLeftOpen`. `OpenInv` says that an open socket is
  registered, so that the end of the hand-off closes it, and that the WebSocket server is
  open, so that a late verdict of the gateway opens nothing after that.
* `ReadinessTrue`: `Spec => []ReadyIsTrue`. `StageInv` says which flags and servers go
  with each stage of `start()` and `stop()` (in particular that `isShuttingDown` holds
  until both servers are out of use), `MarkedInv` that a client marked as connected
  is ready, which every event of a client and `disconnect()` has to keep.

**NodeProofs**, the idempotency cache

* `CacheInvariant`: the inductive invariant `CacheInv`. `Remembered` alone is not
  inductive, since the cache evicts its first entry: `Ordered` says that each event
  later in the Map was used since the ones before it, so that the first of a full
  cache has `Capacity` others in `since`, and `Recorded` that an entry is the last
  execution of its event.
* `RecentIsRemembered`, `ReplayIsFresh`, `ConflictIsDetected`: `CacheSpec =>
  []Remembered`, `[]AckFresh`, `[]ConflictDetected`. The last one assumes that the paths
  of payloads are sequences (`PathsAreSequences`), which is what makes a path of length
  one a top-level key.

**ClientProofs**

* `SessionInvariant` and `SessionTypes`: `SessionInv` says that frames and queue entries
  carry events as they were sent, and that a node acknowledges only what some node
  has executed (`Truthful`).
* `AckIsTrue`, `MessageRunsOnce`, `ClosedStaysClosed`: `Spec => []AckedWasExecuted`,
  `[]OncePerNode`, `[]StaysClosed`, whichever late events of old sockets act on the
  session.
* For the dashboard, `DashboardInvariant`, `DashboardTypes` and `OneSocketAtATime`,
  `NoAttemptHangs`, `RoomsAreRestored`, `NoAckIsMissed` for `NoOrphanSocket`,
  `NeverStuck`, `RoomsRestored`, `NoMissedAck`, all from `HookSpec`. `Held` is what
  makes the first two inductive: the socket in `socketRef` has its handlers and has not
  closed, though it may be closing, and a timer runs only while the hook is mounted,
  wants a connection and knows where to.

**PresenceProofs**

* `GhostsAlwaysExpire`: `Spec => []GhostsExpire`. A command that waits was sent with a time
  of the past, and one that will set the lease of a connection that is gone was
  sent before it went (`CmdOK`), so that no delay can revive it.
* `LeasesAreRenewed`: `Spec => []LeaseWhileOpen`, if `InTime`: a command is executed within
  a flush interval, and interval and delay together are less than the TTL (the
  defaults are 15 s and 60 s). `LeaseInv` says that a live connection is always covered:
  by its registration, by a renewal under way, or by a lease that outlasts the
  next flush and its delay.

**RosterProofs**

* `UpdatesAreScoped`: `Spec => []PresenceScoped`. `RosterBase` says of every
  command under way that it belongs to a connection of its node that was opened
  and that a publication names only rooms its user is or was in.
* `LeaversAreDropped`: `Spec => []RosterDropsLeavers`. `LeaversInv` adds a debt of each node: a
  command that will add a user to a room is followed in the same queue by one that
  removes it, unless a connection of the node is in the room or is gone. Without it
  the last command about the user could be the one that adds it.
* `PresentAreKept`: `Spec => []RosterKeepsPresent`. `PresentInv` says of an open connection in
  a room that its own join is still in the queue with no removal behind it, or that no
  removal is under way, the entry is there (or another node took it) and the
  connection has its lease, without which the roster script would prune the entry;
  for that, a connection's registration precedes its other commands.

**SocketProofs**

* `HealthInvariant`: `HealthInv`, the conjunction of the strengthenings below.
* `HalfOpenIsReaped`: `HealthSpec => []HalfOpenReaped`. `ReapInv` bounds the age of the
  last sign of life by the next sweep, or after the time-out by the fallback timer.
* `ResponsiveIsKept`: `HealthSpec => ResponsiveKept`, for a client that answers
  (`Answers`). `PingInv`: the last sweep saw no reason to ping, or an answer is due
  before the time-out, which is `TimingAssumption`.
* `RateLimitHolds` and `AbuseIsClosed`: `HealthSpec => []RateBounded` and
  `[]AbuseCloses`. What was let through above the rate and what the bucket can still
  give are together at most the capacity (`RateInv`); the k-th last violation is within
  the window only if the chain the code counts has k links (`AbuseInv`).
* `IdsAlwaysIncrease` (`IdsIncrease`), for every width of the counter, with calls of both
  kinds.
* `HandshakeIsSound` (`[]HandshakeSound`), for every set of requests whose origins are
  spelt in some set T of labels, with any tokens in any of the three places
  (`TokenDecides`), and `RelayIsFaithful` (`[]RelayFaithful`): both compare what the
  code decides with a reference definition, check by check.

Only model-checked: liveness (`EventuallyListening`, `StopResolves`,
`ReconnectsUnlessGivenUp`, `EverySendSettles`, `AttemptsEnd`), which rests on fairness and
ENABLED and is out of the prover's reach. The four disagreements of section 4 are
counterexamples of TLC.

## 6. What is not modelled

* The safeguard TTL of the presence keys; the effect of `ChannelRegistry.clear()` on the
  counts; a second `stop()`
  while the first is under way; a restart of the same server object; the ACKs of the
  room handlers.
* The delays of backoff, hand-off and timers: a timer may fire at any time while
  it is armed. In `Presence` and `SocketHealth` time is explicit.
* Signatures of tokens, the random bits of ids, the wording of errors, the content of
  payloads.
* `subscribePresence` exists in the registry and the Pub/Sub manager, but no code
  in the server calls it (see `RoomRoster`).
* Configuration, metrics, and HTTP endpoints other than `/readyz`: no state the
  messaging path depends on. Chaos proxy, chaos scenarios and benchmarks: they drive
  the server from outside, and the faults they inject are actions of the modules.
  Of the dashboard, rendering and the telemetry hook. The RouteX gateway is external;
  its verdict is a choice.

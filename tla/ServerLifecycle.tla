--------------------------- MODULE ServerLifecycle ---------------------------
(***************************************************************************)
(* One life of a PulseServer process: start() with its Redis connection,   *)
(* the HTTP upgrade handler with its admission slots                       *)
(* (ConnectionManager.tryAcquireSlot and releasePendingSlot), the status   *)
(* endpoints, drain, the staged stop, cleanupAndFinalize, and the signal   *)
(* and error traps of bin/pulse-server.                                    *)
(*                                                                         *)
(* The upgrade handler runs without interruption from the request to the   *)
(* registered connection unless an embedded RouteX gateway is configured:  *)
(* then it awaits the gateway's verdict first.  A handshake that the       *)
(* WebSocket library aborts keeps its slot until the close event.          *)
(***************************************************************************)
EXTENDS RedisConnection

CONSTANTS
  Sockets,          \* TCP connections that ask for an upgrade
  MaxConnections,   \* maxConnections
  Configurations    \* what may be configured: an embedded gateway, Redis

ASSUME LifecycleAssumption ==
  /\ IsFiniteSet(Sockets)
  /\ MaxConnections \in Nat \ {0}
  /\ Configurations \subseteq [gateway : BOOLEAN, redis : BOOLEAN]

VARIABLES
  config,             \* which of routexGateway and Redis there is; never changes
  socket,             \* where each TCP connection is
  connections,        \* ConnectionManager.connections
  pendingConnections, \* ConnectionManager.pendingConnections
  isRunning, isShuttingDown,
  notified,           \* sockets that were sent SYS_SHUTDOWN
  presenceManager,    \* it exists
  fatal,              \* an uncaught error is being handled
  stage,              \* how far start() or stop() got
  wss,                \* the WebSocket server
  http,               \* the HTTP server
  shutdownTimer,      \* armed or not
  closings,           \* callbacks of stop() that await routexGateway.close()
  clearings,          \* calls of cleanupAndFinalize that await an UNSUBSCRIBE
  cleanups,           \* those that got past channelRegistry.clear()
  disconnects         \* and those that got to await disconnect()

tables == <<socket, connections, pendingConnections>>
flags == <<config, isRunning, isShuttingDown, notified, fatal>>
finishing == <<closings, clearings, cleanups, disconnects>>
servers == <<stage, wss, http, shutdownTimer, finishing>>
links == <<redisVars, presenceManager>>
vars == <<tables, flags, servers, links>>

States == {"idle",      \* has not asked yet
           "gateway",   \* the handler awaits routexGateway.handleUpgrade
           "lost",      \* the same, and the TCP connection is already closed
           "aborting",  \* handshake aborted, close event still to come
           "open",      \* WebSocket open
           "closing",   \* close frame 1001 sent
           "gone"}

WsClients == {s \in Sockets : socket[s] \in {"open", "closing"}}

Init ==
  /\ config \in Configurations
  /\ socket = [s \in Sockets |-> "idle"]
  /\ connections = {} /\ pendingConnections = 0
  /\ isRunning = FALSE /\ isShuttingDown = FALSE /\ notified = {}
  /\ stage = "created" /\ wss = "none" /\ http = "none"
  /\ shutdownTimer = FALSE
  /\ closings = 0 /\ clearings = 0 /\ cleanups = 0 /\ disconnects = 0
  /\ presenceManager = FALSE /\ fatal = FALSE /\ RedisInit

-----------------------------------------------------------------------------
(***************************************************************************)
(* Start                                                                   *)
(***************************************************************************)

\* start() up to `await redisPubSubManager.connect()`.
Start ==
  /\ stage = "created" /\ stage' = "redis"
  /\ IF config.redis THEN Connect ELSE UNCHANGED redisVars
  /\ UNCHANGED <<tables, flags, presenceManager, wss, http, shutdownTimer,
                 finishing>>

\* connect() resolved, or rejected and the server goes on in local mode: the
\* presence manager, the servers, listen().
StartServers ==
  /\ stage = "redis" /\ waiting = {}
  /\ stage' = "listening" /\ wss' = "open"
  /\ presenceManager' = (presenceManager \/ IsConnected)
  /\ UNCHANGED <<tables, flags, redisVars, http, shutdownTimer, finishing>>

\* The callback of listen().
Listening ==
  /\ stage = "listening" /\ stage' = "up"
  /\ http' = "listening" /\ isRunning' = TRUE
  /\ UNCHANGED <<tables, config, isShuttingDown, notified, fatal, links, wss,
                 shutdownTimer, finishing>>

\* process.exit: the sockets close, and nothing is left that could take a step.
ProcessExit ==
  /\ stage' = "exited" /\ wss' = "closed" /\ http' = "closed"
  /\ socket' = [s \in Sockets |-> "gone"]
  /\ connections' = {} /\ pendingConnections' = 0
  /\ shutdownTimer' = FALSE
  /\ closings' = 0 /\ clearings' = 0 /\ cleanups' = 0 /\ disconnects' = 0
  /\ client' = Both("none") /\ waiting' = {} /\ fatal' = FALSE
  /\ UNCHANGED <<config, isRunning, isShuttingDown, notified, presenceManager,
                 status, retries, quitting, faults>>

\* start() rejects because the gateway is not ready or the port is taken, or a
\* signal comes before the server runs, when stop() returns at once: exit.
ExitEarly == stage \in {"redis", "listening"} /\ ProcessExit

\* The ready event of a client.  When it makes both connected, the reconnect
\* handler creates a presence manager that start() could not create.
RedisReady(r) ==
  /\ Ready(r)
  /\ presenceManager' = (presenceManager \/ IsConnected')
  /\ UNCHANGED <<tables, flags, servers>>

\* Everything else that happens to the clients by itself.
RedisEvent ==
  /\ \/ \E r \in Roles : LoseClient(r) \/ Refused(r)
     \/ ConnectTimeout
  /\ UNCHANGED <<tables, flags, servers, presenceManager>>

RedisQuit(r) == Quit(r) /\ UNCHANGED <<tables, flags, servers, presenceManager>>

\* What /readyz answers.
ReadyStatus ==
  IF isShuttingDown THEN "DRAINING"
  ELSE IF config.redis /\ ~IsConnected THEN "NOT_READY" ELSE "READY"

-----------------------------------------------------------------------------
(***************************************************************************)
(* Upgrades                                                                *)
(***************************************************************************)

Moves(s, to) == socket' = [socket EXCEPT ![s] = to]

\* Mutant: one more is let in.
SlotFreeOffByOne ==
  Cardinality(connections) + pendingConnections <= MaxConnections

\* tryAcquireSlot.
SlotFree == Cardinality(connections) + pendingConnections < MaxConnections

\* handleUpgrade completes: addConnection gives the pending slot back.
Accept(s, from) ==
  /\ socket[s] = from /\ SlotFree /\ wss = "open"
  /\ Moves(s, "open")
  /\ connections' = connections \cup {s}
  /\ UNCHANGED <<pendingConnections, flags, servers, links>>

\* Mutant: the slot of an aborted handshake is not taken.
AbortWithoutSlot(s, from) ==
  /\ socket[s] = from /\ SlotFree
  /\ Moves(s, "aborting")
  /\ UNCHANGED <<connections, pendingConnections, flags, servers, links>>

\* handleUpgrade aborts: bad handshake headers, or the WebSocket server is
\* closing.  The slot is kept until onEarlyClose.
Abort(s, from) ==
  /\ socket[s] = from /\ SlotFree
  /\ Moves(s, "aborting")
  /\ pendingConnections' = pendingConnections + 1
  /\ UNCHANGED <<connections, flags, servers, links>>

\* Forbidden origin, no slot free, or authentication failed (the slot is
\* released at once): an HTTP answer and the end of the socket.
Refuse(s, from) ==
  /\ socket[s] = from
  /\ Moves(s, "gone")
  /\ UNCHANGED <<connections, pendingConnections, flags, servers, links>>

\* A request that the HTTP server takes and the draining check lets through.
Ask(s) == socket[s] = "idle" /\ http = "listening" /\ ~isShuttingDown

\* The handler without a gateway: one step.
Upgrade(s) ==
  /\ ~config.gateway /\ Ask(s)
  /\ Accept(s, "idle") \/ Abort(s, "idle") \/ Refuse(s, "idle")

\* 503 while draining.
RefuseDraining(s) == http = "listening" /\ isShuttingDown /\ Refuse(s, "idle")

\* With a gateway the handler stops at `await routexGateway.handleUpgrade`.
AskGateway(s) ==
  /\ config.gateway /\ Ask(s)
  /\ Moves(s, "gateway")
  /\ UNCHANGED <<connections, pendingConnections, flags, servers, links>>

\* The peer resets the TCP connection while the gateway decides.
Lose(s) ==
  /\ socket[s] = "gateway"
  /\ Moves(s, "lost")
  /\ UNCHANGED <<connections, pendingConnections, flags, servers, links>>

\* The gateway handled or refused the request, or it passes it on and the
\* handler goes through admission.
GatewayAnswers(s) ==
  Refuse(s, "gateway") \/ Accept(s, "gateway") \/ Abort(s, "gateway")

\* The same for a socket whose close event has been emitted already: when the
\* handler takes a slot and listens for close, nothing happens any more.
GatewayAnswersLost(s) ==
  \/ Refuse(s, "lost")
  \/ /\ socket[s] = "lost" /\ SlotFree
     /\ Moves(s, "gone")
     /\ pendingConnections' = pendingConnections + 1
     /\ UNCHANGED <<connections, flags, servers, links>>

\* onEarlyClose: releasePendingSlot.
EarlyClose(s) ==
  /\ socket[s] = "aborting"
  /\ Moves(s, "gone")
  /\ pendingConnections' = IF pendingConnections > 0 THEN pendingConnections - 1 ELSE 0
  /\ UNCHANGED <<connections, flags, servers, links>>

\* The close event of a WebSocket, whoever started the close.
CloseSocket(s) ==
  /\ socket[s] \in {"open", "closing"}
  /\ Moves(s, "gone")
  /\ connections' = connections \ {s}
  /\ UNCHANGED <<pendingConnections, flags, servers, links>>

-----------------------------------------------------------------------------
(***************************************************************************)
(* Shutdown                                                                *)
(***************************************************************************)

\* The effect of drain(): refuse upgrades, send SYS_SHUTDOWN to everyone.
Draining ==
  /\ isShuttingDown' = TRUE
  /\ notified' = IF isShuttingDown THEN notified ELSE notified \cup connections

Drain ==
  /\ stage = "up" /\ ~isShuttingDown
  /\ Draining
  /\ UNCHANGED <<tables, config, isRunning, fatal, servers, links>>

\* stop() up to the hand-off window, on a signal or a caller's behalf.
Stop ==
  /\ stage = "up" /\ isRunning
  /\ Draining
  /\ stage' = "handoff"
  /\ UNCHANGED <<tables, config, isRunning, fatal, links, wss, http,
                 shutdownTimer, finishing>>

\* An uncaught error: the emergency timer is armed and stop() called.
Fatal ==
  /\ stage = "up" /\ isRunning
  /\ Draining
  /\ stage' = "handoff" /\ fatal' = TRUE
  /\ UNCHANGED <<tables, config, isRunning, links, wss, http, shutdownTimer,
                 finishing>>

\* Mutant: no timer guards against sockets that never close.
HandoffUnguarded ==
  /\ stage = "handoff"
  /\ stage' = "closing" /\ wss' = "closing"
  /\ socket' = [s \in Sockets |-> IF s \in connections /\ socket[s] = "open"
                                    THEN "closing" ELSE socket[s]]
  /\ UNCHANGED <<connections, pendingConnections, flags, links, http,
                 shutdownTimer, finishing>>

\* Mutant: only the sockets that were told of the shutdown are closed.
HandoffOfNotified ==
  /\ stage = "handoff"
  /\ stage' = "closing" /\ wss' = "closing" /\ shutdownTimer' = TRUE
  /\ socket' = [s \in Sockets |-> IF s \in connections \cap notified /\ socket[s] = "open"
                                    THEN "closing" ELSE socket[s]]
  /\ UNCHANGED <<connections, pendingConnections, flags, links, http, finishing>>

\* The window ends, because no connection is left or its time is up: the rest
\* is closed with 1001 and the WebSocket server stops taking upgrades.
HandoffEnds ==
  /\ stage = "handoff"
  /\ stage' = "closing" /\ wss' = "closing" /\ shutdownTimer' = TRUE
  /\ socket' = [s \in Sockets |-> IF s \in connections /\ socket[s] = "open"
                                    THEN "closing" ELSE socket[s]]
  /\ UNCHANGED <<connections, pendingConnections, flags, links, http, finishing>>

\* wss.close calls back when its last client is gone: httpServer.close.
WssClosed ==
  /\ wss = "closing" /\ WsClients = {}
  /\ wss' = "closed" /\ http' = "closing"
  /\ UNCHANGED <<tables, flags, links, stage, shutdownTimer, finishing>>

\* cleanupAndFinalize up to its first await: channelRegistry.clear() waits for
\* an UNSUBSCRIBE when the node holds a channel and both clients are connected.
CleanUp ==
  \/ IsConnected /\ clearings' = clearings + 1 /\ UNCHANGED <<cleanups, disconnects>>
  \/ cleanups' = cleanups + 1 /\ UNCHANGED <<clearings, disconnects>>

\* A callback of stop(): `await routexGateway.close()` when there is a gateway,
\* then cleanupAndFinalize.
Conclude ==
  IF config.gateway
    THEN closings' = closings + 1 /\ UNCHANGED <<clearings, cleanups, disconnects>>
    ELSE CleanUp /\ UNCHANGED closings

\* httpServer.close calls back when its last socket is gone: clearTimeout.
HttpClosed ==
  /\ http = "closing"
  /\ \A s \in Sockets : socket[s] \in {"idle", "lost", "gone"}
  /\ http' = "closed" /\ shutdownTimer' = FALSE
  /\ Conclude
  /\ UNCHANGED <<tables, flags, links, stage, wss>>

\* The shutdown timer fires first, with servers still open.
TimerFires ==
  /\ shutdownTimer
  /\ shutdownTimer' = FALSE
  /\ Conclude
  /\ UNCHANGED <<tables, flags, links, stage, wss, http>>

\* routexGateway.close() settles.  Nothing limits how long it takes.
GatewayClosed ==
  /\ closings > 0
  /\ closings' = closings - 1
  /\ CleanUp
  /\ UNCHANGED <<tables, flags, links, stage, wss, http, shutdownTimer>>

\* Redis answers the last UNSUBSCRIBE of clear(), or the subscriber's end fails
\* it.  Nothing limits how long that takes.
RegistryCleared ==
  /\ clearings > 0
  /\ clearings' = clearings - 1 /\ cleanups' = cleanups + 1
  /\ UNCHANGED <<tables, flags, links, stage, wss, http, shutdownTimer, closings,
                 disconnects>>

\* cleanupAndFinalize past channelRegistry.clear(): disconnect().
DisconnectRedis ==
  /\ cleanups > 0
  /\ cleanups' = cleanups - 1 /\ disconnects' = disconnects + 1
  /\ IF config.redis THEN Disconnect ELSE UNCHANGED redisVars
  /\ UNCHANGED <<tables, flags, presenceManager, stage, wss, http, shutdownTimer,
                 closings, clearings>>

\* disconnect() is done: the tables are cleared, the flags reset, and stop()
\* resolves.
Finalize ==
  /\ disconnects > 0 /\ HasQuit
  /\ disconnects' = disconnects - 1
  /\ IF config.redis THEN Disconnected ELSE UNCHANGED redisVars
  /\ connections' = {}
  /\ isRunning' = FALSE /\ isShuttingDown' = FALSE
  /\ stage' = "stopped"
  /\ UNCHANGED <<socket, pendingConnections, config, fatal, presenceManager,
                 notified, wss, http, shutdownTimer, closings, clearings, cleanups>>

\* bin/pulse-server exits when stop() resolves or, after an uncaught error,
\* when the emergency timer fires.
Exit == (stage = "stopped" \/ fatal) /\ ProcessExit

Next ==
  \/ \E s \in Sockets :
       \/ Upgrade(s) \/ RefuseDraining(s)
       \/ AskGateway(s) \/ Lose(s) \/ GatewayAnswers(s) \/ GatewayAnswersLost(s)
       \/ EarlyClose(s) \/ CloseSocket(s)
  \/ Start \/ StartServers \/ Listening \/ ExitEarly
  \/ \E r \in Roles : RedisReady(r) \/ RedisQuit(r)
  \/ RedisEvent
  \/ Drain \/ Stop \/ Fatal \/ HandoffEnds
  \/ WssClosed \/ HttpClosed \/ TimerFires
  \/ GatewayClosed \/ RegistryCleared \/ DisconnectRedis \/ Finalize
  \/ Exit

Spec == Init /\ [][Next]_vars

\* Timers fire and callbacks run, and a Redis that is reachable again is
\* connected to; clients owe nothing, and neither do the gateway (GatewayClosed)
\* and Redis (RegistryCleared).
FairSpec ==
  /\ Spec
  /\ WF_vars(Start \/ StartServers \/ Listening)
  /\ WF_vars(HandoffEnds) /\ WF_vars(TimerFires)
  /\ WF_vars(WssClosed) /\ WF_vars(HttpClosed)
  /\ WF_vars(DisconnectRedis) /\ WF_vars(Finalize)
  /\ \A r \in Roles :
       WF_vars(RedisReady(r)) /\ WF_vars(RedisQuit(r))

-----------------------------------------------------------------------------
(***************************************************************************)
(* Properties                                                              *)
(***************************************************************************)

\* States, tables and counters have their types.
TypeOK ==
  /\ config \in Configurations /\ RedisTypeOK
  /\ socket \in [Sockets -> States]
  /\ connections \in SUBSET Sockets
  /\ pendingConnections \in 0..Cardinality(Sockets)
  /\ isRunning \in BOOLEAN /\ isShuttingDown \in BOOLEAN
  /\ notified \in SUBSET Sockets
  /\ stage \in {"created", "redis", "listening", "up", "handoff", "closing",
                "stopped", "exited"}
  /\ wss \in {"none", "open", "closing", "closed"}
  /\ http \in {"none", "listening", "closing", "closed"}
  /\ shutdownTimer \in BOOLEAN /\ presenceManager \in BOOLEAN /\ fatal \in BOOLEAN
  /\ closings \in 0..2 /\ clearings \in 0..2
  /\ cleanups \in 0..2 /\ disconnects \in 0..2

\* Registered and pending connections together never exceed maxConnections,
\* however many upgrades and aborts overlap.
AdmissionBound ==
  Cardinality(connections) + pendingConnections <= MaxConnections

\* Every slot belongs to a handshake that is still to end: a slot is never lost.
\* With a gateway it does not hold (GatewayAnswersLost).
SlotsAccounted ==
  pendingConnections = Cardinality({s \in Sockets : socket[s] = "aborting"})

\* The same for a server without a gateway, whose handler never waits between
\* the request and the listener for the socket's close event.
DirectSlotsAccounted == ~config.gateway => SlotsAccounted

\* stop() leaves nobody behind: when the WebSocket server stops taking upgrades,
\* every socket it has admitted has been sent the close frame, also one whose
\* upgrade was asked for before draining and answered by the gateway after it.
NobodyLeftOpen ==
  wss \in {"closing", "closed"} => \A s \in Sockets : socket[s] # "open"

\* stop() resolves, or the process ends, even when clients never answer the
\* close frame and Redis never answers QUIT, unless the gateway never closes or
\* Redis never answers the UNSUBSCRIBEs of clear(): those two it waits for
\* without a limit.
StopResolves ==
  []<>(closings = 0) /\ []<>(clearings = 0) =>
    (stage = "handoff" ~> stage \in {"stopped", "exited"})

\* While the server runs, a READY answer of /readyz is true: upgrades are taken
\* and both Redis clients are connected, whatever happened to them since start().
ReadyIsTrue ==
  http = "listening" /\ isRunning /\ ReadyStatus = "READY" =>
    /\ wss = "open"
    /\ config.redis => \A r \in Roles : client[r] = "ready"

\* A running server that is cut off from Redis gets its connections back, unless
\* a client gave up retrying or connect() marked a connected client as failed.
ReconnectsUnlessGivenUp ==
  (stage = "up" /\ config.redis /\ ~IsConnected)
    ~> (IsConnected \/ GaveUp \/ Mismarked \/ stage # "up")

\* The same without the exceptions, as the repository's README promises.  It does
\* not hold.
RedisRecovers ==
  (stage = "up" /\ config.redis /\ ~IsConnected) ~> (IsConnected \/ stage # "up")
=============================================================================

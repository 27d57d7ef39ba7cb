------------------------------ MODULE NodeProofs ------------------------------
(***************************************************************************)
(* Proofs about one node.                                                  *)
(*                                                                         *)
(* Its life (ServerLifecycle and RedisConnection), for every number of     *)
(* sockets, slots, retries and faults and every configuration; and its     *)
(* idempotency cache (Idempotency), for every finite set of events, every  *)
(* set of payloads, every capacity and TTL: an event executed within the   *)
(* TTL is known unless Capacity others were used after it, and an ACK is   *)
(* replayed only within the TTL and for the payload that was executed.     *)
(***************************************************************************)
EXTENDS ServerLifecycle, Idempotency, FiniteSetTheorems, SequenceTheorems,
  WellFoundedInduction, TLAPS

-----------------------------------------------------------------------------
(***************************************************************************)
(* Slots                                                                   *)
(***************************************************************************)

Aborting == {s \in Sockets : socket[s] = "aborting"}

\* What the counting of slots rests on: the types of the tables, the bound, and,
\* without a gateway, that nobody waits for one and every pending slot belongs to
\* an aborted handshake.
SlotInv ==
  /\ connections \in SUBSET Sockets
  /\ pendingConnections \in Nat
  /\ socket \in [Sockets -> States]
  /\ AdmissionBound
  /\ ~config.gateway => /\ \A s \in Sockets : socket[s] \notin {"gateway", "lost"}
                        /\ pendingConnections = Cardinality(Aborting)

\* Sizes of the set of connections around a step of one socket.
LEMMA ConnectionCount ==
  ASSUME NEW C \in SUBSET Sockets, NEW s \in Sockets
  PROVE  /\ IsFiniteSet(C) /\ Cardinality(C) \in Nat
         /\ Cardinality(C \cup {s}) <= Cardinality(C) + 1
         /\ s \notin C => Cardinality(C \cup {s}) = Cardinality(C) + 1
         /\ Cardinality(C \ {s}) <= Cardinality(C)
         /\ s \in C => Cardinality(C \ {s}) = Cardinality(C) - 1
<1>1. IsFiniteSet(C)
  BY LifecycleAssumption, FS_Subset
<1>2. Cardinality(C) \in Nat
  BY <1>1, FS_CardinalityType
<1>3. /\ s \notin C => Cardinality(C \cup {s}) = Cardinality(C) + 1
      /\ s \in C => Cardinality(C \cup {s}) = Cardinality(C)
  BY <1>1, FS_AddElement
<1>4. /\ s \in C => Cardinality(C \ {s}) = Cardinality(C) - 1
      /\ s \notin C => Cardinality(C \ {s}) = Cardinality(C)
  BY <1>1, FS_RemoveElement
<1> QED
  BY <1>1, <1>2, <1>3, <1>4

LEMMA SlotInit == Init => SlotInv
<1> SUFFICES ASSUME Init PROVE SlotInv
  OBVIOUS
<1>1. Cardinality({}) = 0
  BY FS_EmptySet
<1>2. Aborting = {}
  BY DEF Init, Aborting
<1> QED
  BY <1>1, <1>2, LifecycleAssumption DEF Init, SlotInv, AdmissionBound, States

\* The tables and the configuration stay as they are.
LEMMA SlotStutter ==
  ASSUME SlotInv, UNCHANGED <<tables, config>>
  PROVE  SlotInv'
<1>1. Aborting' = Aborting
  BY DEF tables, Aborting
<1> QED
  BY <1>1 DEF SlotInv, AdmissionBound, tables

\* An upgrade ends with a registered connection.
LEMMA SlotAccept ==
  ASSUME SlotInv, NEW s \in Sockets, NEW from \in {"idle", "gateway"}, Accept(s, from)
  PROVE  SlotInv'
<1>1. Aborting' = Aborting
  BY DEF Accept, Moves, Aborting, SlotInv
<1>2. Cardinality(connections') <= Cardinality(connections) + 1
      /\ Cardinality(connections) \in Nat /\ Cardinality(connections') \in Nat
  <2>1. connections \in SUBSET Sockets /\ connections' \in SUBSET Sockets
    BY DEF SlotInv, Accept
  <2>2. connections' = connections \cup {s}
    BY DEF Accept
  <2> QED
    BY <2>1, <2>2, ConnectionCount
<1>3. AdmissionBound'
  BY <1>2, LifecycleAssumption DEF Accept, SlotFree, AdmissionBound, SlotInv
<1> QED
  BY <1>1, <1>3 DEF SlotInv, Accept, Moves, States, flags

\* An upgrade is aborted and keeps its slot.
LEMMA SlotAbort ==
  ASSUME SlotInv, NEW s \in Sockets, NEW from \in {"idle", "gateway"}, Abort(s, from)
  PROVE  SlotInv'
<1>1. Aborting' = Aborting \cup {s} /\ s \notin Aborting /\ Aborting \in SUBSET Sockets
  BY DEF Abort, Moves, Aborting, SlotInv
<1>2. Cardinality(Aborting') = Cardinality(Aborting) + 1
  BY <1>1, ConnectionCount
<1>3. Cardinality(connections) \in Nat
  BY ConnectionCount DEF SlotInv
<1>4. AdmissionBound'
  BY <1>3, LifecycleAssumption DEF Abort, SlotFree, AdmissionBound, SlotInv
<1> QED
  BY <1>2, <1>4 DEF SlotInv, Abort, Moves, States, flags

\* An upgrade is refused.
LEMMA SlotRefuse ==
  ASSUME SlotInv, NEW s \in Sockets, NEW from \in {"idle", "gateway", "lost"}, Refuse(s, from)
  PROVE  SlotInv'
<1>1. Aborting' = Aborting
  BY DEF Refuse, Moves, Aborting, SlotInv
<1> QED
  BY <1>1 DEF SlotInv, AdmissionBound, Refuse, Moves, States, flags

\* Every step keeps the slot invariant.
LEMMA SlotStep ==
  ASSUME SlotInv, [Next]_vars
  PROVE  SlotInv'
<1>1. ASSUME NEW s \in Sockets, Upgrade(s) PROVE SlotInv'
  BY <1>1, SlotAccept, SlotAbort, SlotRefuse DEF Upgrade
<1>2. ASSUME NEW s \in Sockets, RefuseDraining(s) PROVE SlotInv'
  BY <1>2, SlotRefuse DEF RefuseDraining
<1>3. ASSUME NEW s \in Sockets, AskGateway(s) PROVE SlotInv'
  <2>1. Aborting' = Aborting
    BY <1>3 DEF AskGateway, Ask, Moves, Aborting, SlotInv
  <2> QED
    BY <1>3, <2>1 DEF AskGateway, Ask, Moves, SlotInv, AdmissionBound, States, flags
<1>4. ASSUME NEW s \in Sockets, Lose(s) PROVE SlotInv'
  <2>1. Aborting' = Aborting
    BY <1>4 DEF Lose, Moves, Aborting, SlotInv
  <2> QED
    BY <1>4, <2>1 DEF Lose, Moves, SlotInv, AdmissionBound, States, flags
<1>5. ASSUME NEW s \in Sockets, GatewayAnswers(s) PROVE SlotInv'
  BY <1>5, SlotAccept, SlotAbort, SlotRefuse DEF GatewayAnswers
<1>6. ASSUME NEW s \in Sockets, GatewayAnswersLost(s) PROVE SlotInv'
  <2>1. CASE Refuse(s, "lost")
    BY <2>1, SlotRefuse
  <2>2. CASE ~Refuse(s, "lost")
    <3>1. /\ socket[s] = "lost" /\ SlotFree /\ Moves(s, "gone")
          /\ pendingConnections' = pendingConnections + 1
          /\ UNCHANGED <<connections, config>>
      BY <1>6, <2>2 DEF GatewayAnswersLost, flags
    <3>2. Cardinality(connections) \in Nat
      BY ConnectionCount DEF SlotInv
    <3>3. AdmissionBound'
      BY <3>1, <3>2, LifecycleAssumption DEF SlotFree, AdmissionBound, SlotInv
    <3> QED
      BY <3>1, <3>3 DEF SlotInv, Moves, States
  <2> QED
    BY <2>1, <2>2
<1>7. ASSUME NEW s \in Sockets, EarlyClose(s) PROVE SlotInv'
  <2>1. Aborting' = Aborting \ {s} /\ s \in Aborting /\ Aborting \in SUBSET Sockets
    BY <1>7 DEF EarlyClose, Moves, Aborting, SlotInv
  <2>2. Cardinality(Aborting') = Cardinality(Aborting) - 1 /\ Cardinality(Aborting) \in Nat
        /\ Cardinality(Aborting') \in Nat
    BY <2>1, ConnectionCount
  <2>3. Cardinality(connections) \in Nat
    BY ConnectionCount DEF SlotInv
  <2>4. AdmissionBound' /\ pendingConnections' \in Nat
    BY <1>7, <2>3, LifecycleAssumption DEF EarlyClose, AdmissionBound, SlotInv
  <2>5. ~config.gateway => pendingConnections' = Cardinality(Aborting')
    BY <1>7, <2>2 DEF EarlyClose, SlotInv
  <2> QED
    BY <1>7, <2>4, <2>5 DEF EarlyClose, SlotInv, Moves, States, flags
<1>8. ASSUME NEW s \in Sockets, CloseSocket(s) PROVE SlotInv'
  <2>1. Aborting' = Aborting
    BY <1>8 DEF CloseSocket, Moves, Aborting, SlotInv
  <2>2. connections' = connections \ {s} /\ connections \in SUBSET Sockets
        /\ connections' \in SUBSET Sockets
    BY <1>8 DEF CloseSocket, SlotInv
  <2>3. Cardinality(connections') <= Cardinality(connections)
        /\ Cardinality(connections) \in Nat /\ Cardinality(connections') \in Nat
    BY <2>2, ConnectionCount
  <2>4. AdmissionBound'
    BY <1>8, <2>3, LifecycleAssumption DEF CloseSocket, AdmissionBound, SlotInv
  <2> QED
    BY <1>8, <2>1, <2>4 DEF CloseSocket, SlotInv, Moves, States, flags
<1>9. ASSUME ProcessExit PROVE SlotInv'
  <2>1. Aborting' = {}
    BY <1>9 DEF ProcessExit, Aborting
  <2>2. Cardinality({}) = 0
    BY FS_EmptySet
  <2> QED
    BY <1>9, <2>1, <2>2, LifecycleAssumption
    DEF ProcessExit, SlotInv, AdmissionBound, States
<1>10. ASSUME HandoffEnds PROVE SlotInv'
  <2>1. Aborting' = Aborting
    BY <1>10 DEF HandoffEnds, Aborting, SlotInv
  <2> QED
    BY <1>10, <2>1 DEF HandoffEnds, SlotInv, AdmissionBound, States, flags
<1>11. ASSUME Finalize PROVE SlotInv'
  <2>1. Aborting' = Aborting
    BY <1>11 DEF Finalize, Aborting
  <2>2. Cardinality({}) = 0 /\ Cardinality(connections) \in Nat
    BY FS_EmptySet, ConnectionCount DEF SlotInv
  <2> QED
    BY <1>11, <2>1, <2>2, LifecycleAssumption DEF Finalize, SlotInv, AdmissionBound
<1>12. CASE Start \/ StartServers \/ Listening \/ RedisEvent \/ Drain \/ Stop \/ Fatal
  BY <1>12, SlotStutter
  DEF Start, StartServers, Listening, RedisEvent, Drain, Stop, Fatal, flags
<1>13. CASE \/ WssClosed \/ HttpClosed \/ TimerFires
            \/ GatewayClosed \/ RegistryCleared \/ DisconnectRedis
  BY <1>13, SlotStutter
  DEF WssClosed, HttpClosed, TimerFires, GatewayClosed, RegistryCleared, DisconnectRedis, flags
<1>14. ASSUME NEW r \in Roles, RedisReady(r) \/ RedisQuit(r) PROVE SlotInv'
  BY <1>14, SlotStutter DEF RedisReady, RedisQuit, flags
<1>15. CASE UNCHANGED vars
  BY <1>15, SlotStutter DEF vars, flags
<1> QED
  BY <1>1, <1>2, <1>3, <1>4, <1>5, <1>6, <1>7, <1>8, <1>9, <1>10, <1>11, <1>12,
     <1>13, <1>14, <1>15 DEF Next, ExitEarly, Exit

\* Registered and pending connections never exceed maxConnections, however many
\* upgrades overlap and however they end (tryAcquireSlot, releasePendingSlot).
THEOREM Admission == Spec => []AdmissionBound
<1>1. SlotInv => AdmissionBound
  BY DEF SlotInv
<1> QED
  BY <1>1, SlotInit, SlotStep, PTL DEF Spec

\* Without a gateway every pending slot belongs to a handshake that is still to
\* end: onEarlyClose gives each of them back.
THEOREM SlotsReturned == Spec => []DirectSlotsAccounted
<1>1. SlotInv => DirectSlotsAccounted
  BY DEF SlotInv, DirectSlotsAccounted, SlotsAccounted, Aborting
<1> QED
  BY <1>1, SlotInit, SlotStep, PTL DEF Spec

-----------------------------------------------------------------------------
(***************************************************************************)
(* Readiness                                                               *)
(***************************************************************************)

\* How far start() or stop() got says which servers are open and which flags are
\* set; in particular the flags stay set until both servers are irrelevant.
StageInv ==
  /\ stage \in {"created", "redis", "listening"} => http = "none" /\ ~isRunning
  /\ stage = "created" => wss = "none"
  /\ stage \in {"listening", "up"} => wss = "open"
  /\ stage \in {"handoff", "closing"} => isShuttingDown
  /\ stage = "stopped" => ~isRunning
  /\ stage \in {"closing", "stopped", "exited"} => wss \in {"closing", "closed"}
  /\ stage = "exited" => http = "closed" /\ wss = "closed"
  /\ wss = "closing" \/ http = "closing" => stage \in {"closing", "stopped"}
  /\ stage \notin {"closing", "stopped"} =>
       ~shutdownTimer /\ closings = 0 /\ clearings = 0 /\ cleanups = 0 /\ disconnects = 0
  /\ stage \in {"created", "redis", "listening", "up", "handoff", "closing", "stopped", "exited"}
  /\ closings \in Nat /\ clearings \in Nat /\ cleanups \in Nat /\ disconnects \in Nat

\* A client that is marked as connected is ready, as long as the process lives.
MarkedInv ==
  /\ client \in [Roles -> Clients] /\ status \in [Roles -> Statuses]
  /\ stage # "exited" => \A r \in Roles : status[r] = "connected" => client[r] = "ready"

LEMMA ReadyInit == Init => StageInv /\ MarkedInv
  BY DEF Init, RedisInit, StageInv, MarkedInv, Both, Clients, Statuses

LEMMA StageStep ==
  ASSUME StageInv, [Next]_vars
  PROVE  StageInv'
<1>1. CASE UNCHANGED <<isRunning, isShuttingDown, servers>>
  BY <1>1 DEF StageInv, servers, finishing
<1>2. ASSUME NEW s \in Sockets,
             \/ Upgrade(s) \/ RefuseDraining(s) \/ AskGateway(s) \/ Lose(s)
             \/ GatewayAnswers(s) \/ GatewayAnswersLost(s) \/ EarlyClose(s) \/ CloseSocket(s)
      PROVE  StageInv'
  BY <1>1, <1>2 DEF Upgrade, RefuseDraining, AskGateway, Lose, GatewayAnswers,
       GatewayAnswersLost, EarlyClose, CloseSocket, Accept, Abort, Refuse, flags
<1>3. CASE RedisEvent \/ \E r \in Roles : RedisReady(r) \/ RedisQuit(r)
  BY <1>1, <1>3 DEF RedisEvent, RedisReady, RedisQuit, flags
<1>4. CASE Start
  BY <1>4 DEF Start, StageInv, flags, finishing
<1>5. CASE StartServers
  BY <1>5 DEF StartServers, StageInv, flags, finishing
<1>6. CASE Listening
  BY <1>6 DEF Listening, StageInv, finishing
<1>7. CASE ProcessExit
  BY <1>7 DEF ProcessExit, StageInv
<1>8. CASE Drain
  BY <1>8 DEF Drain, Draining, StageInv, servers, finishing
<1>9. CASE Stop \/ Fatal
  BY <1>9 DEF Stop, Fatal, Draining, StageInv, finishing
<1>10. CASE HandoffEnds
  BY <1>10 DEF HandoffEnds, StageInv, flags, finishing
<1>11. CASE WssClosed
  BY <1>11 DEF WssClosed, StageInv, flags, finishing
<1>12. CASE HttpClosed
  BY <1>12 DEF HttpClosed, Conclude, CleanUp, StageInv, flags
<1>13. CASE TimerFires
  BY <1>13 DEF TimerFires, Conclude, CleanUp, StageInv, flags
<1>14. CASE GatewayClosed
  BY <1>14 DEF GatewayClosed, CleanUp, StageInv, flags
<1>15. CASE RegistryCleared
  BY <1>15 DEF RegistryCleared, StageInv, flags
<1>16. CASE DisconnectRedis
  BY <1>16 DEF DisconnectRedis, StageInv, flags
<1>17. CASE Finalize
  BY <1>17 DEF Finalize, StageInv
<1>18. CASE UNCHANGED vars
  BY <1>1, <1>18 DEF vars, flags
<1> QED
  BY <1>2, <1>3, <1>4, <1>5, <1>6, <1>7, <1>8, <1>9, <1>10, <1>11, <1>12, <1>13,
     <1>14, <1>15, <1>16, <1>17, <1>18 DEF Next, ExitEarly, Exit

LEMMA MarkedStep ==
  ASSUME StageInv, MarkedInv, [Next]_vars
  PROVE  MarkedInv'
<1>1. ASSUME UNCHANGED <<client, status>>, stage' = "exited" \/ stage # "exited"
      PROVE  MarkedInv'
  BY <1>1 DEF MarkedInv
<1>2. ASSUME NEW s \in Sockets,
             \/ Upgrade(s) \/ RefuseDraining(s) \/ AskGateway(s) \/ Lose(s)
             \/ GatewayAnswers(s) \/ GatewayAnswersLost(s) \/ EarlyClose(s) \/ CloseSocket(s)
      PROVE  MarkedInv'
  BY <1>1, <1>2 DEF Upgrade, RefuseDraining, AskGateway, Lose, GatewayAnswers,
       GatewayAnswersLost, EarlyClose, CloseSocket, Accept, Abort, Refuse, servers, links, redisVars
<1>3. ASSUME NEW r \in Roles, RedisReady(r) PROVE MarkedInv'
  BY <1>3 DEF RedisReady, Ready, MarkedInv, Clients, Statuses, servers
<1>4. ASSUME NEW r \in Roles, RedisQuit(r) PROVE MarkedInv'
  BY <1>4 DEF RedisQuit, Quit, MarkedInv, Clients, Statuses, servers
<1>5. CASE RedisEvent
  <2>1. ASSUME NEW r \in Roles, LoseClient(r) PROVE MarkedInv'
    <3>1. CloseStatus(r) \in Statuses \ {"connected"}
      BY DEF CloseStatus, Statuses
    <3> QED
      BY <1>5, <2>1, <3>1 DEF RedisEvent, LoseClient, Closed, MarkedInv, Clients, servers
  <2>2. ASSUME NEW r \in Roles, Refused(r) PROVE MarkedInv'
    <3>1. CloseStatus(r) \in Statuses \ {"connected"}
      BY DEF CloseStatus, Statuses
    <3> QED
      BY <1>5, <2>2, <3>1 DEF RedisEvent, Refused, Closed, MarkedInv, Clients, Statuses, Both, servers
  <2>3. CASE ConnectTimeout
    BY <1>5, <2>3 DEF RedisEvent, ConnectTimeout, MarkedInv, Statuses, Both, servers
  <2> QED
    BY <1>5, <2>1, <2>2, <2>3 DEF RedisEvent
<1>6. CASE Start
  BY <1>1, <1>6 DEF Start, Connect, MarkedInv, Both, Clients, Statuses, redisVars
<1>7. CASE ProcessExit
  BY <1>7 DEF ProcessExit, MarkedInv, Both, Clients
<1>8. CASE DisconnectRedis
  BY <1>1, <1>8 DEF DisconnectRedis, Disconnect, MarkedInv, Both, Statuses, redisVars, StageInv
<1>9. CASE Finalize
  BY <1>1, <1>9 DEF Finalize, Disconnected, MarkedInv, Both, Clients, Statuses, redisVars, StageInv
<1>10. CASE StartServers \/ Listening \/ Drain \/ Stop \/ Fatal \/ HandoffEnds
  BY <1>1, <1>10 DEF StartServers, Listening, Drain, Stop, Fatal, HandoffEnds, links, redisVars, servers
<1>11. CASE WssClosed \/ HttpClosed \/ TimerFires \/ GatewayClosed \/ RegistryCleared
  BY <1>1, <1>11
  DEF WssClosed, HttpClosed, TimerFires, GatewayClosed, RegistryCleared, links, redisVars,
      StageInv
<1>12. CASE UNCHANGED vars
  BY <1>12 DEF vars, MarkedInv, links, redisVars, servers
<1> QED
  BY <1>2, <1>3, <1>4, <1>5, <1>6, <1>7, <1>8, <1>9, <1>10, <1>11, <1>12 DEF Next, ExitEarly, Exit

\* While the server runs, READY on /readyz means that upgrades are taken and that
\* both Redis clients are connected, whatever the clients went through.
THEOREM ReadinessTrue == Spec => []ReadyIsTrue
<1>1. StageInv /\ MarkedInv => ReadyIsTrue
  BY DEF StageInv, MarkedInv, ReadyIsTrue, ReadyStatus, IsConnected
<1> QED
  BY <1>1, ReadyInit, StageStep, MarkedStep, PTL DEF Spec

-----------------------------------------------------------------------------
(***************************************************************************)
(* The close frame                                                         *)
(***************************************************************************)

\* An open socket is registered, which is how the hand-off finds it, and the
\* WebSocket server, which let it in, is still open.
OpenInv ==
  /\ socket \in [Sockets -> States]
  /\ \A s \in Sockets : socket[s] = "open" => s \in connections /\ wss = "open"

LEMMA OpenInit == Init => OpenInv
  BY DEF Init, OpenInv, States

\* A step of one socket.
LEMMA OpenMove ==
  ASSUME OpenInv, NEW s \in Sockets,
         \/ Upgrade(s) \/ RefuseDraining(s) \/ AskGateway(s) \/ Lose(s)
         \/ GatewayAnswers(s) \/ GatewayAnswersLost(s) \/ EarlyClose(s) \/ CloseSocket(s)
  PROVE  OpenInv'
<1>1. ASSUME NEW from \in {"idle", "gateway"}, Accept(s, from) PROVE OpenInv'
  BY <1>1 DEF Accept, Moves, OpenInv, States, servers
<1>2. ASSUME NEW to \in States \ {"open"}, Moves(s, to), UNCHANGED wss,
             connections' \in {connections, connections \ {s}}
      PROVE  OpenInv'
  BY <1>2 DEF Moves, OpenInv
<1>3. ASSUME NEW from \in {"idle", "gateway", "lost"}, Abort(s, from) \/ Refuse(s, from)
      PROVE  OpenInv'
  BY <1>2, <1>3 DEF Abort, Refuse, States, servers
<1>4. CASE Upgrade(s) \/ RefuseDraining(s) \/ GatewayAnswers(s)
  BY <1>1, <1>3, <1>4 DEF Upgrade, RefuseDraining, GatewayAnswers
<1>5. CASE AskGateway(s) \/ Lose(s) \/ EarlyClose(s) \/ CloseSocket(s)
  BY <1>2, <1>5 DEF AskGateway, Lose, EarlyClose, CloseSocket, States, servers
<1>6. CASE GatewayAnswersLost(s)
  BY <1>2, <1>3, <1>6 DEF GatewayAnswersLost, States, servers
<1> QED
  BY <1>4, <1>5, <1>6

LEMMA OpenStep ==
  ASSUME StageInv, OpenInv, [Next]_vars
  PROVE  OpenInv'
<1>1. ASSUME UNCHANGED <<socket, connections, wss>> PROVE OpenInv'
  BY <1>1 DEF OpenInv
<1>2. CASE \/ Start \/ Listening \/ RedisEvent \/ Drain \/ Stop \/ Fatal
           \/ \E r \in Roles : RedisReady(r) \/ RedisQuit(r)
  BY <1>1, <1>2
  DEF Start, Listening, RedisEvent, Drain, Stop, Fatal, RedisReady, RedisQuit, tables, servers
<1>3. CASE HttpClosed \/ TimerFires \/ GatewayClosed \/ RegistryCleared \/ DisconnectRedis
  BY <1>1, <1>3
  DEF HttpClosed, TimerFires, GatewayClosed, RegistryCleared, DisconnectRedis, tables
<1>4. CASE StartServers
  BY <1>4 DEF StartServers, OpenInv, tables
<1>5. CASE ProcessExit
  BY <1>5 DEF ProcessExit, OpenInv, States
<1>6. CASE HandoffEnds
  BY <1>6 DEF HandoffEnds, OpenInv, States
<1>7. CASE WssClosed
  BY <1>7 DEF WssClosed, OpenInv, tables
<1>8. CASE Finalize
  BY <1>8 DEF Finalize, OpenInv, StageInv
<1>9. CASE UNCHANGED vars
  BY <1>1, <1>9 DEF vars, tables, servers
<1> QED
  BY <1>2, <1>3, <1>4, <1>5, <1>6, <1>7, <1>8, <1>9, OpenMove DEF Next, ExitEarly, Exit

\* When the WebSocket server stops taking upgrades every socket it has admitted
\* has been sent the close frame: the draining flag is read before the await of
\* the gateway, but the hand-off closes whoever is registered when it ends.
THEOREM NobodyIsLeftOpen == Spec => []NobodyLeftOpen
<1>1. OpenInv => NobodyLeftOpen
  BY DEF OpenInv, NobodyLeftOpen
<1> QED
  BY <1>1, ReadyInit, StageStep, OpenInit, OpenStep, PTL DEF Spec

-----------------------------------------------------------------------------
(***************************************************************************)
(* The cache: the inductive invariant                                      *)
(***************************************************************************)

Cached == [id : EventIds, payload : Payloads, ts : Nat]
Run == [ts : Nat, payload : Payloads]

Typed ==
  /\ cache \in Seq(Cached)
  /\ now \in Nat
  /\ lastRun \in [EventIds -> Run \cup {Never}]
  /\ since \in [EventIds -> SUBSET EventIds]

\* s holds each event once, and behind an entry only events used after it.
Ordered(s, used) ==
  \A i, j \in DOMAIN s :
    i < j => s[i].id # s[j].id /\ s[j].id \in used[s[i].id]

\* An entry stands for the last execution of its event, at its time.
Recorded(s, runs) ==
  \A i \in DOMAIN s : runs[s[i].id] = [ts |-> s[i].ts, payload |-> s[i].payload]

Holds(s, id) == \E i \in DOMAIN s : s[i].id = id

\* An event that was executed, has not expired and after which fewer than
\* Capacity others were used.
Recent(id) ==
  /\ lastRun[id] # Never
  /\ now - lastRun[id].ts <= Ttl
  /\ Cardinality(since[id]) < Capacity

RecentsHeld == \A id \in EventIds : Recent(id) => Holds(cache, id)

CacheInv ==
  /\ Typed
  /\ Ordered(cache, since) /\ Recorded(cache, lastRun)
  /\ RecentsHeld

-----------------------------------------------------------------------------
(***************************************************************************)
(* What deleting entries leaves                                            *)
(***************************************************************************)

LEMMA Constants == IsFiniteSet(EventIds) /\ Capacity \in Nat /\ Capacity > 0 /\ Ttl \in Nat
  BY IdempotencyAssumption

LEMMA LeastOf ==
  ASSUME NEW S, S \subseteq Nat, S # {}
  PROVE  Min(S) \in S /\ \A y \in S : Min(S) <= y
<1> DEFINE R == OpToRel(<, Nat)
<1>1. \A x, y \in Nat : x < y => <<x, y>> \in R
  BY DEF OpToRel
<1>2. IsWellFoundedOn(R, Nat)
  BY NatLessThanWellFounded
<1> HIDE DEF R
<1>3. PICK x \in S : \A y \in S : ~ (<<y, x>> \in R)
  BY <1>2, WFMin
<1>4. ASSUME NEW y \in S PROVE x <= y
  <2>1. ~(y < x)
    BY <1>1, <1>3
  <2>2. x \in Nat /\ y \in Nat
    BY <1>3
  <2> QED
    BY <2>1, <2>2
<1> QED
  BY <1>3, <1>4 DEF Min

\* The entries of t are entries of s, in the same order.
Thinned(s, t) ==
  /\ t \in Seq(Cached)
  /\ \A i \in DOMAIN t : \E k \in DOMAIN s : t[i] = s[k]
  /\ \A i, j \in DOMAIN t :
       i < j => \E k, l \in DOMAIN s : k < l /\ t[i] = s[k] /\ t[j] = s[l]

LEMMA RemoveAtThins ==
  ASSUME NEW s \in Seq(Cached), NEW p \in DOMAIN s
  PROVE  /\ Thinned(s, RemoveAt(s, p))
         /\ \A i \in DOMAIN RemoveAt(s, p) : \E k \in DOMAIN s : k # p /\ RemoveAt(s, p)[i] = s[k]
         /\ \A k \in DOMAIN s : k # p => \E i \in DOMAIN RemoveAt(s, p) : RemoveAt(s, p)[i] = s[k]
<1> DEFINE a == SubSeq(s, 1, p - 1)
           b == SubSeq(s, p + 1, Len(s))
           t == a \o b
           g(i) == IF i < p THEN i ELSE i + 1
<1>1. DOMAIN s = 1..Len(s) /\ Len(s) \in Nat /\ p \in Int /\ 1 <= p /\ p <= Len(s)
  OBVIOUS
<1>2. \A i \in 1..Len(s) : s[i] \in Cached
  OBVIOUS
<1>3. a \in Seq(Cached) /\ Len(a) = p - 1 /\ \A i \in 1..(p - 1) : a[i] = s[i]
  <2>1. 1 \in Int /\ p - 1 \in Int /\ \A i \in 1..(p - 1) : s[i] \in Cached
    BY <1>1, <1>2
  <2>2. /\ a \in Seq(Cached) /\ Len(a) = IF 1 <= p - 1 THEN (p - 1) - 1 + 1 ELSE 0
        /\ \A i \in 1..((p - 1) - 1 + 1) : a[i] = s[1 + i - 1]
    BY <2>1, SubSeqProperties
  <2> HIDE DEF a
  <2>3. (p - 1) - 1 + 1 = p - 1 /\ (1 <= p - 1 \/ p - 1 = 0) /\ \A i \in 1..(p - 1) : 1 + i - 1 = i
    BY <1>1
  <2> QED
    BY <2>2, <2>3
<1>4. b \in Seq(Cached) /\ Len(b) = Len(s) - p /\ \A i \in 1..(Len(s) - p) : b[i] = s[p + i]
  <2>1. p + 1 \in Int /\ Len(s) \in Int /\ \A i \in (p + 1)..Len(s) : s[i] \in Cached
    BY <1>1, <1>2
  <2>2. /\ b \in Seq(Cached) /\ Len(b) = IF p + 1 <= Len(s) THEN Len(s) - (p + 1) + 1 ELSE 0
        /\ \A i \in 1..(Len(s) - (p + 1) + 1) : b[i] = s[(p + 1) + i - 1]
    BY <2>1, SubSeqProperties
  <2> HIDE DEF b
  <2>3. /\ Len(s) - (p + 1) + 1 = Len(s) - p /\ (p + 1 <= Len(s) \/ Len(s) - p = 0)
        /\ \A i \in 1..(Len(s) - p) : (p + 1) + i - 1 = p + i
    BY <1>1
  <2> QED
    BY <2>2, <2>3
<1> HIDE DEF a, b
<1>5. /\ t \in Seq(Cached) /\ Len(t) = Len(a) + Len(b)
      /\ \A i \in 1..Len(a) + Len(b) : t[i] = IF i <= Len(a) THEN a[i] ELSE b[i - Len(a)]
  BY <1>3, <1>4, ConcatProperties
<1> HIDE DEF t
<1>6. Len(t) = Len(s) - 1 /\ DOMAIN t = 1..(Len(s) - 1)
  BY <1>1, <1>3, <1>4, <1>5
<1>7. ASSUME NEW i \in DOMAIN t PROVE g(i) \in DOMAIN s /\ g(i) # p /\ t[i] = s[g(i)]
  <2>1. i \in Int /\ 1 <= i /\ i <= Len(s) - 1
    BY <1>1, <1>6
  <2>2. t[i] = IF i <= p - 1 THEN a[i] ELSE b[i - (p - 1)]
    BY <1>1, <1>3, <1>4, <1>5, <2>1
  <2>3. CASE i < p
    <3>1. i \in 1..(p - 1) /\ i <= p - 1
      BY <1>1, <2>1, <2>3
    <3> QED
      BY <1>1, <1>3, <2>1, <2>2, <2>3, <3>1
  <2>4. CASE ~(i < p)
    <3>1. i - (p - 1) \in 1..(Len(s) - p) /\ ~(i <= p - 1) /\ p + (i - (p - 1)) = i + 1
      BY <1>1, <2>1, <2>4
    <3>2. t[i] = s[i + 1]
      BY <1>4, <2>2, <3>1
    <3> QED
      BY <1>1, <2>1, <2>4, <3>2
  <2> QED
    BY <2>3, <2>4
<1>8. ASSUME NEW i \in DOMAIN t, NEW j \in DOMAIN t, i < j PROVE g(i) < g(j)
  BY <1>1, <1>6, <1>8
<1>9. ASSUME NEW k \in DOMAIN s, k # p PROVE \E i \in DOMAIN t : t[i] = s[k]
  <2>1. CASE k < p
    <3>1. k \in DOMAIN t /\ g(k) = k
      BY <1>1, <1>6, <2>1
    <3> QED
      BY <1>7, <3>1
  <2>2. CASE ~(k < p)
    <3>1. k - 1 \in DOMAIN t /\ g(k - 1) = k
      BY <1>1, <1>6, <1>9, <2>2
    <3> QED
      BY <1>7, <3>1
  <2> QED
    BY <2>1, <2>2
<1> HIDE DEF g
<1>10. Thinned(s, t)
  BY <1>5, <1>7, <1>8 DEF Thinned
<1>11. t = RemoveAt(s, p)
  BY DEF RemoveAt, t, a, b
<1> QED
  BY <1>7, <1>9, <1>10, <1>11

LEMMA SuffixThins ==
  ASSUME NEW s \in Seq(Cached), NEW m \in DOMAIN s
  PROVE  /\ Thinned(s, SubSeq(s, m, Len(s)))
         /\ Len(SubSeq(s, m, Len(s))) = Len(s) - m + 1
         /\ \A k \in DOMAIN s : m <= k =>
              \E i \in DOMAIN SubSeq(s, m, Len(s)) : SubSeq(s, m, Len(s))[i] = s[k]
<1> DEFINE t == SubSeq(s, m, Len(s))
<1>1. DOMAIN s = 1..Len(s) /\ Len(s) \in Nat /\ m \in Int /\ 1 <= m /\ m <= Len(s)
  OBVIOUS
<1>2. \A i \in m..Len(s) : s[i] \in Cached
  BY <1>1
<1>3. /\ t \in Seq(Cached) /\ Len(t) = Len(s) - m + 1
      /\ \A i \in 1..(Len(s) - m + 1) : t[i] = s[m + i - 1]
  BY <1>1, <1>2, SubSeqProperties
<1> HIDE DEF t
<1>4. DOMAIN t = 1..(Len(s) - m + 1)
  BY <1>3
<1>5. ASSUME NEW i \in DOMAIN t PROVE m + i - 1 \in DOMAIN s /\ t[i] = s[m + i - 1]
  BY <1>1, <1>3, <1>4
<1>6. ASSUME NEW i \in DOMAIN t, NEW j \in DOMAIN t, i < j PROVE m + i - 1 < m + j - 1
  BY <1>1, <1>4, <1>6
<1>7. Thinned(s, t)
  BY <1>3, <1>5, <1>6 DEF Thinned
<1>8. ASSUME NEW k \in DOMAIN s, m <= k PROVE \E i \in DOMAIN t : t[i] = s[k]
  <2>1. k - m + 1 \in DOMAIN t /\ m + (k - m + 1) - 1 = k
    BY <1>1, <1>4, <1>8
  <2> QED
    BY <1>5, <2>1
<1> QED
  BY <1>3, <1>7, <1>8 DEF t

\* Order, distinctness and what is recorded survive deletions.
LEMMA ThinnedKeeps ==
  ASSUME NEW s, NEW t, Thinned(s, t), NEW used, NEW runs, Ordered(s, used), Recorded(s, runs)
  PROVE  Ordered(t, used) /\ Recorded(t, runs)
<1>1. ASSUME NEW i \in DOMAIN t, NEW j \in DOMAIN t, i < j
      PROVE  t[i].id # t[j].id /\ t[j].id \in used[t[i].id]
  <2>1. PICK k \in DOMAIN s, l \in DOMAIN s : k < l /\ t[i] = s[k] /\ t[j] = s[l]
    BY <1>1 DEF Thinned
  <2> QED
    BY <2>1 DEF Ordered
<1>2. Recorded(t, runs)
  BY DEF Thinned, Recorded
<1> QED
  BY <1>1, <1>2 DEF Ordered

\* The histories after the event of entry e is used.
Used(e, used, runs, used2, runs2) ==
  /\ \A id \in EventIds \ {e.id} : used2[id] = used[id] \cup {e.id} /\ runs2[id] = runs[id]
  /\ runs2[e.id] = [ts |-> e.ts, payload |-> e.payload]

\* The entry of an event that is used goes to the end: everything before it is
\* older than it.
LEMMA AppendKeeps ==
  ASSUME NEW t \in Seq(Cached), NEW e \in Cached, ~Holds(t, e.id), NEW used, NEW runs, NEW used2, NEW runs2,
         Ordered(t, used), Recorded(t, runs), Used(e, used, runs, used2, runs2)
  PROVE  Ordered(Append(t, e), used2) /\ Recorded(Append(t, e), runs2)
<1> DEFINE r == Append(t, e)
<1>1. /\ r \in Seq(Cached) /\ Len(r) = Len(t) + 1
      /\ \A i \in 1..Len(t) : r[i] = t[i]
      /\ r[Len(t) + 1] = e
  BY AppendProperties
<1> HIDE DEF r
<1>2. DOMAIN r = 1..(Len(t) + 1) /\ DOMAIN t = 1..Len(t) /\ Len(t) \in Nat
  BY <1>1
<1>3. \A i \in DOMAIN t : t[i].id \in EventIds \ {e.id}
  <2>1. \A i \in DOMAIN t : t[i] \in Cached
    OBVIOUS
  <2> QED
    BY <2>1 DEF Holds, Cached
<1>4. ASSUME NEW i \in DOMAIN r, NEW j \in DOMAIN r, i < j
      PROVE  r[i].id # r[j].id /\ r[j].id \in used2[r[i].id]
  <2>1. i \in DOMAIN t /\ r[i] = t[i]
    BY <1>1, <1>2, <1>4
  <2>2. used2[t[i].id] = used[t[i].id] \cup {e.id}
    BY <1>3, <2>1 DEF Used
  <2>3. CASE j \in DOMAIN t
    <3>1. r[j] = t[j]
      BY <1>1, <1>2, <2>3
    <3>2. t[i].id # t[j].id /\ t[j].id \in used[t[i].id]
      BY <1>4, <2>1, <2>3 DEF Ordered
    <3> QED
      BY <2>1, <2>2, <3>1, <3>2
  <2>4. CASE j \notin DOMAIN t
    <3>1. j = Len(t) + 1
      BY <1>2, <2>4
    <3> QED
      BY <1>1, <1>3, <2>1, <2>2, <3>1
  <2> QED
    BY <2>3, <2>4
<1>5. ASSUME NEW i \in DOMAIN r PROVE runs2[r[i].id] = [ts |-> r[i].ts, payload |-> r[i].payload]
  <2>1. CASE i \in DOMAIN t
    <3>1. r[i] = t[i] /\ runs2[t[i].id] = runs[t[i].id]
      BY <1>1, <1>2, <1>3, <2>1 DEF Used
    <3> QED
      BY <2>1, <3>1 DEF Recorded
  <2>2. CASE i \notin DOMAIN t
    <3>1. i = Len(t) + 1
      BY <1>2, <2>2
    <3> QED
      BY <1>1, <3>1 DEF Used
  <2> QED
    BY <2>1, <2>2
<1> QED
  BY <1>4, <1>5 DEF Ordered, Recorded, r

LEMMA AppendHolds ==
  ASSUME NEW t \in Seq(Cached), NEW e \in Cached
  PROVE  /\ Append(t, e) \in Seq(Cached)
         /\ \A id : Holds(Append(t, e), id) <=> (Holds(t, id) \/ id = e.id)
<1> DEFINE r == Append(t, e)
<1>1. /\ r \in Seq(Cached) /\ Len(r) = Len(t) + 1
      /\ \A i \in 1..Len(t) : r[i] = t[i]
      /\ r[Len(t) + 1] = e
  BY AppendProperties
<1> HIDE DEF r
<1>2. DOMAIN r = 1..(Len(t) + 1) /\ DOMAIN t = 1..Len(t) /\ Len(t) \in Nat
  BY <1>1
<1>3. \A i \in DOMAIN r : (i \in DOMAIN t /\ r[i] = t[i]) \/ r[i] = e
  BY <1>1, <1>2
<1>4. (\A i \in DOMAIN t : i \in DOMAIN r /\ r[i] = t[i]) /\ Len(t) + 1 \in DOMAIN r
  BY <1>1, <1>2
<1> QED
  BY <1>1, <1>3, <1>4 DEF Holds, r

\* A full cache has Capacity events in it.
LEMMA FullCache ==
  ASSUME NEW s \in Seq(Cached), NEW used, Ordered(s, used), NEW T, IsFiniteSet(T),
         \A i \in DOMAIN s : s[i].id \in T
  PROVE  Len(s) <= Cardinality(T)
<1> DEFINE f == [i \in 1..Len(s) |-> s[i].id]
<1>1. DOMAIN s = 1..Len(s) /\ Len(s) \in Nat
  OBVIOUS
<1>2. f \in [1..Len(s) -> T]
  BY <1>1
<1>3. ASSUME NEW i \in 1..Len(s), NEW j \in 1..Len(s), f[i] = f[j] PROVE i = j
  <2>1. i < j \/ j < i \/ i = j
    BY <1>1
  <2>2. s[i].id = s[j].id /\ i \in DOMAIN s /\ j \in DOMAIN s
    BY <1>1, <1>3
  <2>3. ~(i < j) /\ ~(j < i)
    BY <2>2, Zenon DEF Ordered
  <2> QED
    BY <2>1, <2>3
<1>4. IsFiniteSet(1..Len(s)) /\ Cardinality(1..Len(s)) = Len(s)
  <2>1. 1 \in Int /\ Len(s) \in Int
    BY <1>1
  <2>2. /\ IsFiniteSet(1..Len(s))
        /\ Cardinality(1..Len(s)) = IF 1 > Len(s) THEN 0 ELSE Len(s) - 1 + 1
    BY <2>1, FS_Interval, Zenon
  <2> QED
    BY <1>1, <2>2
<1>5. Cardinality(T) \in Nat
  BY FS_CardinalityType
<1>6. ASSUME Cardinality(T) < Len(s) PROVE FALSE
  <2> HIDE DEF f
  <2>1. \E x, y \in 1..Len(s) : x # y /\ f[x] = f[y]
    BY <1>2, <1>4, <1>6, FS_PigeonHole
  <2> QED
    BY <1>3, <2>1
<1> QED
  BY <1>1, <1>5, <1>6

LEMMA TailThins ==
  ASSUME NEW s \in Seq(Cached), s # <<>>
  PROVE  /\ Thinned(s, Tail(s)) /\ Len(Tail(s)) = Len(s) - 1
         /\ \A i \in DOMAIN Tail(s) : i + 1 \in DOMAIN s /\ 1 < i + 1 /\ Tail(s)[i] = s[i + 1]
         /\ \A k \in DOMAIN s : k # 1 => \E i \in DOMAIN Tail(s) : Tail(s)[i] = s[k]
<1> DEFINE t == Tail(s)
<1>1. t \in Seq(Cached) /\ Len(t) = Len(s) - 1 /\ \A i \in 1..Len(t) : t[i] = s[i + 1]
  BY HeadTailProperties
<1> HIDE DEF t
<1>2. DOMAIN s = 1..Len(s) /\ Len(s) \in Nat /\ DOMAIN t = 1..(Len(s) - 1)
  BY <1>1
<1>3. ASSUME NEW i \in DOMAIN t PROVE i + 1 \in DOMAIN s /\ 1 < i + 1 /\ t[i] = s[i + 1]
  BY <1>1, <1>2
<1>4. ASSUME NEW i \in DOMAIN t, NEW j \in DOMAIN t, i < j PROVE i + 1 < j + 1
  BY <1>2, <1>4
<1>5. Thinned(s, t)
  BY <1>1, <1>3, <1>4 DEF Thinned
<1>6. ASSUME NEW k \in DOMAIN s, k # 1 PROVE \E i \in DOMAIN t : t[i] = s[k]
  <2>1. k - 1 \in DOMAIN t /\ (k - 1) + 1 = k
    BY <1>2, <1>6
  <2> QED
    BY <1>3, <2>1
<1> QED
  BY <1>1, <1>3, <1>5, <1>6 DEF t

-----------------------------------------------------------------------------
(***************************************************************************)
(* The steps of the cache                                                  *)
(***************************************************************************)

\* The entry of an event is the one at its position, and without it the cache
\* holds the others.
LEMMA EntryRemoved ==
  ASSUME CacheInv, NEW id \in EventIds, Holds(cache, id)
  PROVE  LET t == RemoveAt(cache, Position(id))
         IN /\ Position(id) \in DOMAIN cache /\ cache[Position(id)].id = id
            /\ \A i \in DOMAIN cache : cache[i].id = id => i = Position(id)
            /\ Thinned(cache, t) /\ ~Holds(t, id)
            /\ \A x : x # id /\ Holds(cache, x) => Holds(t, x)
<1> DEFINE p == Position(id)
           t == RemoveAt(cache, p)
<1>1. cache \in Seq(Cached) /\ Ordered(cache, since)
  BY DEF CacheInv, Typed
<1>2. p \in DOMAIN cache /\ cache[p].id = id
  BY DEF Position, Holds
<1> HIDE DEF p
<1>3. ASSUME NEW i \in DOMAIN cache, cache[i].id = id PROVE i = p
  <2>1. i < p \/ p < i \/ i = p
    <3>1. i \in Int /\ p \in Int
      BY <1>1, <1>2
    <3> QED
      BY <3>1
  <2>2. ~(i < p) /\ ~(p < i)
    BY <1>1, <1>2, <1>3, Zenon DEF Ordered
  <2> QED
    BY <2>1, <2>2
<1>4. /\ Thinned(cache, t)
      /\ \A i \in DOMAIN t : \E k \in DOMAIN cache : k # p /\ t[i] = cache[k]
      /\ \A k \in DOMAIN cache : k # p => \E i \in DOMAIN t : t[i] = cache[k]
  BY <1>1, <1>2, RemoveAtThins
<1> HIDE DEF t
<1>5. ~Holds(t, id)
  BY <1>3, <1>4 DEF Holds
<1>6. \A x : x # id /\ Holds(cache, x) => Holds(t, x)
  BY <1>2, <1>4 DEF Holds
<1> QED
  BY <1>2, <1>3, <1>4, <1>5, <1>6 DEF p, t

LEMMA EntryDropped ==
  ASSUME CacheInv, NEW id \in EventIds
  PROVE  /\ Thinned(cache, Dropped(id)) /\ ~Holds(Dropped(id), id)
         /\ \A x : x # id /\ Holds(cache, x) => Holds(Dropped(id), x)
<1>1. CASE Holds(cache, id)
  <2>1. Dropped(id) = RemoveAt(cache, Position(id))
    BY <1>1 DEF Holds, Dropped
  <2> QED
    BY <1>1, <2>1, EntryRemoved
<1>2. CASE ~Holds(cache, id)
  <2>1. Dropped(id) = cache
    BY <1>2 DEF Holds, Dropped
  <2>2. cache \in Seq(Cached)
    BY DEF CacheInv, Typed
  <2>3. Thinned(cache, cache)
    BY <2>2 DEF Thinned
  <2> QED
    BY <1>2, <2>1, <2>3
<1> QED
  BY <1>1, <1>2

\* An event that check does not report as a duplicate is not recent, or was not
\* held: its entry has expired.
LEMMA UnknownIsExpired ==
  ASSUME CacheInv, NEW id \in EventIds, ~Known(id)
  PROVE  ~Recent(id)
<1> SUFFICES ASSUME Recent(id) PROVE FALSE
  OBVIOUS
<1>1. PICK i \in DOMAIN cache : cache[i].id = id
  BY DEF CacheInv, RecentsHeld, Holds
<1>2. lastRun[id] = [ts |-> cache[i].ts, payload |-> cache[i].payload]
  BY <1>1 DEF CacheInv, Recorded
<1>3. now - cache[i].ts > Ttl /\ now - cache[i].ts <= Ttl
  BY <1>1, <1>2 DEF Known, Expired, Recent
<1>4. now \in Nat /\ cache[i].ts \in Nat /\ Ttl \in Nat
  <2>1. cache[i] \in Cached /\ now \in Nat
    BY <1>1 DEF CacheInv, Typed
  <2> QED
    BY <2>1, Constants DEF Cached
<1> QED
  BY <1>3, <1>4

\* Using an event: the history of the others grows.
LEMMA SinceGrows ==
  ASSUME Typed, NEW id \in EventIds, Touched(id)
  PROVE  /\ since' \in [EventIds -> SUBSET EventIds]
         /\ \A x \in EventIds \ {id} :
              /\ since'[x] = since[x] \cup {id} /\ IsFiniteSet(since'[x])
              /\ Cardinality(since'[x]) \in Nat
              /\ Cardinality(since'[x]) < Capacity => Cardinality(since[x]) < Capacity
<1>1. since \in [EventIds -> SUBSET EventIds]
  BY DEF Typed
<1>2. since' \in [EventIds -> SUBSET EventIds]
  BY <1>1 DEF Touched
<1>3. ASSUME NEW x \in EventIds \ {id}
      PROVE  /\ since'[x] = since[x] \cup {id} /\ IsFiniteSet(since'[x])
             /\ Cardinality(since'[x]) \in Nat
             /\ Cardinality(since'[x]) < Capacity => Cardinality(since[x]) < Capacity
  <2>1. since'[x] = since[x] \cup {id}
    BY DEF Touched
  <2>2. IsFiniteSet(since'[x])
    <3>1. since'[x] \in SUBSET EventIds
      BY <1>2
    <3> QED
      BY <3>1, FS_Subset, Constants
  <2>3. IsFiniteSet(since[x]) /\ Cardinality(since[x]) <= Cardinality(since'[x])
    <3>1. since[x] \in SUBSET since'[x]
      BY <2>1
    <3> QED
      BY <2>2, <3>1, FS_Subset
  <2>4. Cardinality(since[x]) \in Nat /\ Cardinality(since'[x]) \in Nat
    BY <2>2, <2>3, FS_CardinalityType
  <2> QED
    BY <2>1, <2>2, <2>3, <2>4, Constants
<1> QED
  BY <1>2, <1>3

\* A deletion that takes no recent event.
LEMMA ThinStep ==
  ASSUME CacheInv, Thinned(cache, cache'), UNCHANGED <<now, lastRun, since>>,
         \A x \in EventIds : Recent(x) /\ Holds(cache, x) => Holds(cache', x)
  PROVE  CacheInv'
<1>1. /\ now' = now /\ lastRun' = lastRun /\ since' = since /\ Typed
      /\ Ordered(cache, since) /\ Recorded(cache, lastRun) /\ RecentsHeld
  BY DEF CacheInv
<1>2. Ordered(cache', since) /\ Recorded(cache', lastRun)
  BY <1>1, ThinnedKeeps
<1>3. Typed'
  BY <1>1 DEF Typed, Thinned
<1>4. RecentsHeld'
  BY <1>1 DEF RecentsHeld, Recent, Holds
<1> QED
  BY <1>1, <1>2, <1>3, <1>4 DEF CacheInv, Ordered, Recorded

\* A new event is recorded.  A full cache loses its first entry, whose event all
\* the others were used after: Capacity of them, with the new one.
LEMMA ExecuteStep ==
  ASSUME CacheInv, NEW id \in EventIds, NEW p \in Payloads, Execute(id, p)
  PROVE  CacheInv'
<1> DEFINE d == Dropped(id)
           e == [id |-> id, payload |-> p, ts |-> now]
           t == IF Len(d) >= Capacity THEN Tail(d) ELSE d
<1>1. /\ Typed /\ Ordered(cache, since) /\ Recorded(cache, lastRun) /\ RecentsHeld
      /\ now \in Nat /\ lastRun \in [EventIds -> Run \cup {Never}]
  BY DEF CacheInv, Typed
<1>2. /\ Thinned(cache, d) /\ ~Holds(d, id)
      /\ \A x : x # id /\ Holds(cache, x) => Holds(d, x)
  BY EntryDropped
<1>3. e \in Cached /\ e.id = id /\ e.ts = now /\ e.payload = p
  BY <1>1 DEF Cached
<1>4. /\ cache' = Append(t, e) /\ now' = now /\ Touched(id)
      /\ lastRun' = [lastRun EXCEPT ![id] = [ts |-> now, payload |-> p]]
  BY DEF Execute, RecordAck
<1> HIDE DEF d, e
<1>5. d \in Seq(Cached) /\ Ordered(d, since) /\ Recorded(d, lastRun) /\ Len(d) \in Nat
  <2>1. d \in Seq(Cached)
    BY <1>2 DEF Thinned
  <2> QED
    BY <1>1, <1>2, <2>1, ThinnedKeeps
<1>6. t \in Seq(Cached) /\ Ordered(t, since) /\ Recorded(t, lastRun) /\ ~Holds(t, id)
  <2>1. CASE Len(d) >= Capacity
    <3>1. t = Tail(d) /\ d # <<>>
      BY <1>5, <2>1, Constants
    <3>2. Thinned(d, Tail(d))
      BY <1>5, <3>1, TailThins
    <3>3. Ordered(Tail(d), since) /\ Recorded(Tail(d), lastRun)
      BY <1>5, <3>2, ThinnedKeeps
    <3>4. Tail(d) \in Seq(Cached) /\ ~Holds(Tail(d), id)
      BY <1>2, <3>2 DEF Thinned, Holds
    <3> QED
      BY <3>1, <3>3, <3>4
  <2>2. CASE ~(Len(d) >= Capacity)
    BY <1>2, <1>5, <2>2
  <2> QED
    BY <2>1, <2>2
<1>7. /\ since' \in [EventIds -> SUBSET EventIds]
      /\ \A x \in EventIds \ {id} :
           /\ since'[x] = since[x] \cup {id} /\ IsFiniteSet(since'[x])
           /\ Cardinality(since'[x]) \in Nat
           /\ Cardinality(since'[x]) < Capacity => Cardinality(since[x]) < Capacity
  BY <1>1, <1>4, SinceGrows
<1>8. /\ lastRun'[id] = [ts |-> e.ts, payload |-> e.payload]
      /\ \A x \in EventIds \ {id} : lastRun'[x] = lastRun[x]
      /\ lastRun' \in [EventIds -> Run \cup {Never}]
  BY <1>1, <1>3, <1>4 DEF Run
<1>9. Ordered(cache', since') /\ Recorded(cache', lastRun')
  <2> HIDE DEF t
  <2>1. Ordered(Append(t, e), since') /\ Recorded(Append(t, e), lastRun')
    <3>1. \A x \in EventIds \ {e.id} : since'[x] = since[x] \cup {e.id} /\ lastRun'[x] = lastRun[x]
      BY <1>3, <1>7, <1>8
    <3>2. lastRun'[e.id] = [ts |-> e.ts, payload |-> e.payload] /\ ~Holds(t, e.id)
      BY <1>3, <1>6, <1>8
    <3>3. Used(e, since, lastRun, since', lastRun')
      BY <3>1, <3>2 DEF Used
    <3> QED
      BY <1>3, <1>6, <3>2, <3>3, AppendKeeps
  <2> QED
    BY <1>4, <2>1
<1>10. cache' \in Seq(Cached) /\ \A x : Holds(cache', x) <=> (Holds(t, x) \/ x = id)
  <2> HIDE DEF t
  <2> QED
    BY <1>3, <1>4, <1>6, AppendHolds
<1>11. ASSUME NEW x \in EventIds, x # id, Recent(x)' PROVE Holds(t, x)
  <2>1. Cardinality(since'[x]) < Capacity /\ Recent(x)
    BY <1>4, <1>7, <1>8, <1>11 DEF Recent
  <2>2. Holds(d, x)
    BY <1>1, <1>2, <1>11, <2>1 DEF RecentsHeld
  <2>3. CASE Len(d) >= Capacity
    <3>1. t = Tail(d) /\ d # <<>>
      BY <1>5, <2>3, Constants
    <3>2. PICK k \in DOMAIN d : d[k].id = x
      BY <2>2 DEF Holds
    <3>3. /\ Len(Tail(d)) = Len(d) - 1
          /\ \A i \in DOMAIN Tail(d) : i + 1 \in DOMAIN d /\ 1 < i + 1 /\ Tail(d)[i] = d[i + 1]
          /\ \A l \in DOMAIN d : l # 1 => \E i \in DOMAIN Tail(d) : Tail(d)[i] = d[l]
      BY <1>5, <3>1, TailThins
    <3>4. CASE k # 1
      BY <3>1, <3>2, <3>3, <3>4 DEF Holds
    <3>5. CASE k = 1
      <4>1. \A i \in DOMAIN Tail(d) : Tail(d)[i].id \in since[x]
        BY <1>5, <3>2, <3>3, <3>5 DEF Ordered
      <4>2. \A y : Holds(cache', y) => y \in since'[x]
        <5>1. \A y : Holds(t, y) => y \in since[x]
          BY <3>1, <4>1 DEF Holds
        <5> HIDE DEF t
        <5>2. since'[x] = since[x] \cup {id}
          BY <1>7, <1>11
        <5> QED
          BY <1>10, <5>1, <5>2
      <4>3. \A i \in DOMAIN cache' : cache'[i].id \in since'[x]
        BY <4>2 DEF Holds
      <4>4. Len(cache') <= Cardinality(since'[x])
        BY <1>7, <1>9, <1>10, <1>11, <4>3, FullCache
      <4>5. Len(cache') = Len(d)
        <5>1. Len(Append(t, e)) = Len(t) + 1
          <6> HIDE DEF t
          <6> QED
            BY <1>3, <1>6, AppendProperties
        <5>2. Len(t) = Len(d) - 1
          BY <3>1, <3>3
        <5> HIDE DEF t
        <5> QED
          BY <1>4, <1>5, <5>1, <5>2
      <4> QED
        BY <1>5, <1>7, <1>11, <2>1, <2>3, <4>4, <4>5, Constants
    <3> QED
      BY <3>4, <3>5
  <2>4. CASE ~(Len(d) >= Capacity)
    BY <2>2, <2>4
  <2> QED
    BY <2>3, <2>4
<1>12. RecentsHeld'
  <2>1. \A x \in EventIds : Recent(x)' => Holds(cache', x)
    BY <1>10, <1>11
  <2> QED
    BY <2>1 DEF RecentsHeld, Holds
<1>13. Typed'
  BY <1>1, <1>4, <1>7, <1>8, <1>10 DEF Typed
<1> QED
  BY <1>9, <1>12, <1>13 DEF CacheInv, Ordered, Recorded

\* A duplicate moves its entry to the end.
LEMMA DuplicateStep ==
  ASSUME CacheInv, NEW id \in EventIds, NEW p \in Payloads, Duplicate(id, p)
  PROVE  CacheInv'
<1> DEFINE t == RemoveAt(cache, Position(id))
           e == cache[Position(id)]
<1>1. /\ Typed /\ Ordered(cache, since) /\ Recorded(cache, lastRun) /\ RecentsHeld
      /\ cache \in Seq(Cached)
  BY DEF CacheInv, Typed
<1>2. Holds(cache, id)
  BY DEF Duplicate, IsReplay, IsConflict, Known, Holds
<1>3. /\ Position(id) \in DOMAIN cache /\ e.id = id
      /\ Thinned(cache, t) /\ ~Holds(t, id)
      /\ \A x : x # id /\ Holds(cache, x) => Holds(t, x)
  BY <1>2, EntryRemoved
<1>4. cache' = Append(t, e) /\ now' = now /\ lastRun' = lastRun /\ Touched(id)
  BY DEF Duplicate, Refreshed
<1>5. e \in Cached /\ lastRun[id] = [ts |-> e.ts, payload |-> e.payload]
  BY <1>1, <1>3 DEF Recorded
<1> HIDE DEF t, e
<1>6. t \in Seq(Cached) /\ Ordered(t, since) /\ Recorded(t, lastRun)
  BY <1>1, <1>3, ThinnedKeeps DEF Thinned
<1>7. /\ since' \in [EventIds -> SUBSET EventIds]
      /\ \A x \in EventIds \ {id} :
           /\ since'[x] = since[x] \cup {id}
           /\ Cardinality(since'[x]) < Capacity => Cardinality(since[x]) < Capacity
  BY <1>1, <1>4, SinceGrows
<1>8. Ordered(cache', since') /\ Recorded(cache', lastRun')
  <2>1. Ordered(Append(t, e), since') /\ Recorded(Append(t, e), lastRun)
    <3>1. Used(e, since, lastRun, since', lastRun)
      BY <1>3, <1>5, <1>7 DEF Used
    <3> QED
      BY <1>3, <1>5, <1>6, <3>1, AppendKeeps
  <2> QED
    BY <1>4, <2>1
<1>9. cache' \in Seq(Cached) /\ \A x : Holds(cache', x) <=> (Holds(t, x) \/ x = id)
  BY <1>3, <1>4, <1>5, <1>6, AppendHolds
<1>10. \A x \in EventIds : Recent(x)' => Holds(cache', x)
  <2>1. ASSUME NEW x \in EventIds, x # id, Recent(x)' PROVE Holds(cache', x)
    <3>1. Recent(x)
      BY <1>4, <1>7, <2>1 DEF Recent
    <3> QED
      BY <1>1, <1>3, <1>9, <2>1, <3>1 DEF RecentsHeld
  <2> QED
    BY <1>9, <2>1
<1>11. RecentsHeld'
  BY <1>10 DEF RecentsHeld, Holds
<1>12. Typed'
  BY <1>1, <1>4, <1>7, <1>9 DEF Typed
<1> QED
  BY <1>8, <1>11, <1>12 DEF CacheInv, Ordered, Recorded

\* pruneExpired deletes from the front up to the first entry that is unexpired.
LEMMA PruneStep ==
  ASSUME CacheInv, PruneExpired
  PROVE  CacheInv'
<1> DEFINE live == {i \in DOMAIN cache : ~Expired(cache[i])}
<1>1. cache \in Seq(Cached) /\ Recorded(cache, lastRun) /\ now \in Nat
  BY DEF CacheInv, Typed
<1>2. UNCHANGED <<now, lastRun, since>> /\ cache' = Pruned
  BY DEF PruneExpired
<1>3. ASSUME NEW x \in EventIds, Recent(x), NEW k \in DOMAIN cache, cache[k].id = x PROVE k \in live
  <2>1. lastRun[x] = [ts |-> cache[k].ts, payload |-> cache[k].payload] /\ cache[k] \in Cached
    BY <1>1, <1>3 DEF Recorded
  <2>2. now - cache[k].ts <= Ttl
    BY <1>3, <2>1 DEF Recent
  <2>3. cache[k].ts \in Nat /\ Ttl \in Nat
    BY <2>1, Constants DEF Cached
  <2> QED
    BY <1>1, <2>2, <2>3 DEF Expired
<1>4. live \subseteq DOMAIN cache /\ DOMAIN cache \subseteq Nat
  BY <1>1
<1>5. CASE live = {}
  <2>1. cache' = <<>>
    BY <1>2, <1>5 DEF Pruned
  <2>2. Thinned(cache, cache')
    BY <2>1 DEF Thinned
  <2> HIDE DEF live
  <2> QED
    BY <1>2, <1>3, <1>5, <2>2, ThinStep DEF Holds
<1>6. CASE live # {}
  <2> DEFINE m == Min(live)
  <2>1. cache' = SubSeq(cache, m, Len(cache))
    BY <1>2, <1>6 DEF Pruned
  <2> HIDE DEF live
  <2>2. m \in live /\ \A y \in live : m <= y
    BY <1>4, <1>6, LeastOf
  <2> HIDE DEF m
  <2>3. /\ Thinned(cache, cache')
        /\ \A k \in DOMAIN cache : m <= k => \E i \in DOMAIN cache' : cache'[i] = cache[k]
    BY <1>1, <1>4, <2>1, <2>2, SuffixThins
  <2>4. \A x \in EventIds : Recent(x) /\ Holds(cache, x) => Holds(cache', x)
    BY <1>3, <2>2, <2>3 DEF Holds
  <2> QED
    BY <1>2, <2>3, <2>4, ThinStep
<1> QED
  BY <1>5, <1>6

LEMMA CacheInitially == CacheInit => CacheInv
<1> SUFFICES ASSUME CacheInit PROVE CacheInv
  OBVIOUS
<1>1. Typed /\ DOMAIN cache = {}
  BY DEF CacheInit, Typed
<1>2. \A id \in EventIds : lastRun[id] = Never
  BY DEF CacheInit
<1> QED
  BY <1>1, <1>2 DEF CacheInv, Ordered, Recorded, RecentsHeld, Recent

LEMMA CacheStep == CacheInv /\ [CacheNext]_cacheVars => CacheInv'
<1> SUFFICES ASSUME CacheInv, [CacheNext]_cacheVars PROVE CacheInv'
  OBVIOUS
<1>1. /\ Typed /\ Ordered(cache, since) /\ Recorded(cache, lastRun) /\ RecentsHeld
      /\ cache \in Seq(Cached) /\ now \in Nat
  BY DEF CacheInv, Typed
<1>2. CASE Tick
  <2>1. now' = now + 1 /\ cache' = cache /\ lastRun' = lastRun /\ since' = since
    BY <1>2 DEF Tick
  <2>2. Typed'
    BY <1>1, <2>1 DEF Typed
  <2>3. ASSUME NEW id \in EventIds, Recent(id)' PROVE Recent(id)
    <3>1. lastRun[id] # Never /\ (now + 1) - lastRun[id].ts <= Ttl /\ Cardinality(since[id]) < Capacity
      BY <2>1, <2>3 DEF Recent
    <3>2. lastRun[id] \in Run
      BY <1>1, <3>1 DEF Typed
    <3>3. lastRun[id].ts \in Nat
      BY <3>2 DEF Run
    <3> QED
      BY <1>1, <3>1, <3>3, Constants DEF Recent
  <2>4. RecentsHeld'
    BY <1>1, <2>1, <2>3 DEF RecentsHeld, Holds
  <2> QED
    BY <1>1, <2>1, <2>2, <2>4 DEF CacheInv, Ordered, Recorded
<1>3. CASE PruneExpired
  BY <1>3, PruneStep
<1>4. CASE Clear
  <2>1. /\ cache' = <<>> /\ now' = now
        /\ lastRun' = [id \in EventIds |-> Never] /\ since' = [id \in EventIds |-> {}]
    BY <1>4 DEF Clear
  <2>2. Typed'
    BY <1>1, <2>1 DEF Typed
  <2>3. DOMAIN cache' = {} /\ \A id \in EventIds : lastRun'[id] = Never
    BY <2>1
  <2> QED
    BY <2>2, <2>3 DEF CacheInv, Ordered, Recorded, RecentsHeld, Recent, Never
<1>5. ASSUME NEW id \in EventIds, Reject(id) PROVE CacheInv'
  <2>1. cache' = Dropped(id) /\ ~Known(id) /\ UNCHANGED <<now, lastRun, since>>
    BY <1>5 DEF Reject
  <2>2. Thinned(cache, cache') /\ \A x : x # id /\ Holds(cache, x) => Holds(cache', x)
    BY <2>1, EntryDropped
  <2>3. ~Recent(id)
    BY <2>1, UnknownIsExpired
  <2> QED
    BY <2>1, <2>2, <2>3, ThinStep
<1>6. CASE UNCHANGED cacheVars
  BY <1>1, <1>6 DEF cacheVars, CacheInv, Typed, Ordered, Recorded, RecentsHeld, Recent, Holds
<1> QED
  BY <1>2, <1>3, <1>4, <1>5, <1>6, ExecuteStep, DuplicateStep DEF CacheNext

-----------------------------------------------------------------------------
(***************************************************************************)
(* Theorems                                                                *)
(***************************************************************************)

\* The cache of IdempotencyManager always holds each event once, in the order in
\* which the events were used, with the time and payload of its last execution,
\* and holds every recent event.
THEOREM CacheInvariant == CacheSpec => []CacheInv
  BY CacheInitially, CacheStep, PTL DEF CacheSpec

\* A held event that has not expired is known.
LEMMA HeldIsKnown ==
  ASSUME CacheInv, NEW id \in EventIds, Recent(id)
  PROVE  Known(id)
  BY UnknownIsExpired

\* What a replay implies about the execution it answers for.
LEMMA ReplayOfLastRun ==
  ASSUME CacheInv, NEW id \in EventIds, NEW p \in Payloads, IsReplay(id, p)
  PROVE  /\ lastRun[id] # Never /\ now - lastRun[id].ts <= Ttl
         /\ lastRun[id].payload \in Payloads
         /\ HashPayload(p) = HashPayload(lastRun[id].payload)
<1> DEFINE k == Position(id)
<1>1. Known(id) /\ HashPayload(p) = HashPayload(cache[k].payload)
  BY DEF IsReplay
<1>2. PICK i \in DOMAIN cache : cache[i].id = id /\ ~Expired(cache[i])
  BY <1>1 DEF Known
<1>3. i = k
  BY <1>2, EntryRemoved DEF Holds
<1> HIDE DEF k
<1>4. lastRun[id] = [ts |-> cache[i].ts, payload |-> cache[i].payload]
  BY <1>2 DEF CacheInv, Recorded
<1>5. cache[i] \in Cached /\ now \in Nat
  BY <1>2 DEF CacheInv, Typed
<1>6. cache[i].ts \in Nat /\ cache[i].payload \in Payloads /\ Ttl \in Nat
  BY <1>5, Constants DEF Cached
<1>7. now - cache[i].ts <= Ttl
  BY <1>2, <1>5, <1>6 DEF Expired
<1>8. lastRun[id].ts = cache[i].ts /\ lastRun[id].payload = cache[i].payload
  BY <1>4
<1>9. lastRun[id] # Never
  <2>1. Never.ts = -1
    BY DEF Never
  <2>2. cache[i].ts # -1
    BY <1>6
  <2> QED
    BY <1>8, <2>1, <2>2
<1> QED
  BY <1>1, <1>3, <1>6, <1>7, <1>8, <1>9

\* Effectively once: an event that MessageDispatcher executed within the TTL is
\* still known, unless Capacity others were recorded or replayed after it.
THEOREM RecentIsRemembered == CacheSpec => []Remembered
<1>1. CacheInv => Remembered
  BY HeldIsKnown DEF Remembered, Recent
<1> QED
  BY <1>1, CacheInvariant, PTL

\* A cached ACK is replayed only within the TTL of the execution it stands for:
\* retries refresh the LRU position and never the time.
THEOREM ReplayIsFresh == CacheSpec => []AckFresh
<1>1. CacheInv => AckFresh
  BY ReplayOfLastRun DEF AckFresh
<1> QED
  BY <1>1, CacheInvariant, PTL

\* Payloads as JSON objects: a key path is a sequence of keys.
PathsAreSequences(Keys) == \A p \in Payloads : DOMAIN p \subseteq Seq(Keys)

\* What equal hashes say about the top-level values of two payloads.
LEMMA HashCoversFlat ==
  ASSUME NEW Keys, NEW p, NEW q, DOMAIN p \subseteq Seq(Keys), HashPayload(p) = HashPayload(q),
         NEW path \in DOMAIN p, Len(path) = 1
  PROVE  path \in DOMAIN q /\ p[path] = q[path]
<1> DEFINE top(f) == {h[1] : h \in DOMAIN f}
           kept(f) == {h \in DOMAIN f : ToSet(h) \subseteq top(f)}
           F == [h \in kept(p) |-> p[h]]
           G == [h \in kept(q) |-> q[h]]
<1>1. F = G
  BY DEF HashPayload
<1>2. path \in kept(p)
  <2>1. path \in Seq(Keys)
    OBVIOUS
  <2>2. DOMAIN path = {1}
    BY <2>1
  <2>3. ToSet(path) = {path[1]}
    BY <2>2 DEF ToSet
  <2> QED
    BY <2>3
<1>3. path \in kept(q)
  BY <1>1, <1>2
<1>4. F[path] = p[path] /\ G[path] = q[path]
  BY <1>2, <1>3
<1> QED
  BY <1>1, <1>3, <1>4

\* An ACK is replayed only for a payload that agrees with the executed one on
\* every top-level key and value outside nested objects, for every set of
\* payloads: anything else of that kind is answered with EVENT_ID_CONFLICT.
THEOREM ConflictIsDetected ==
  ASSUME NEW Keys, PathsAreSequences(Keys)
  PROVE  CacheSpec => []ConflictDetected
<1>1. CacheInv => ConflictDetected
  <2> SUFFICES ASSUME CacheInv, NEW id \in EventIds, NEW p \in Payloads, IsReplay(id, p),
                      NEW path \in DOMAIN p \cup DOMAIN lastRun[id].payload, Len(path) = 1
               PROVE  /\ path \in DOMAIN p \cap DOMAIN lastRun[id].payload
                      /\ p[path] = lastRun[id].payload[path]
    BY DEF ConflictDetected
  <2> DEFINE q == lastRun[id].payload
  <2>1. q \in Payloads /\ HashPayload(p) = HashPayload(q)
    BY ReplayOfLastRun
  <2>2. DOMAIN p \subseteq Seq(Keys) /\ DOMAIN q \subseteq Seq(Keys)
    BY <2>1 DEF PathsAreSequences
  <2> HIDE DEF q
  <2>3. CASE path \in DOMAIN p
    BY <2>1, <2>2, <2>3, HashCoversFlat DEF q
  <2>4. CASE path \in DOMAIN q
    <3>1. path \in DOMAIN p /\ q[path] = p[path]
      BY <2>1, <2>2, <2>4, HashCoversFlat
    <3> QED
      BY <2>4, <3>1 DEF q
  <2> QED
    BY <2>3, <2>4 DEF q
<1> QED
  BY <1>1, CacheInvariant, PTL
==============================================================================

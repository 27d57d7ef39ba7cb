------------------------------ MODULE RoomRoster ------------------------------
(***************************************************************************)
(* Room presence across nodes: the set of users Redis keeps for each room  *)
(* (addRoomMember, removeRoomMember, and the roster script that prunes     *)
(* it), the room handlers and the close event that change it, and the      *)
(* fan-out of ONLINE and OFFLINE events to the sockets of other nodes.     *)
(*                                                                         *)
(* A node sends its commands through one Redis client, in order; a step    *)
(* Execute is the command and the handling of its reply.  Leases are a set *)
(* here: Presence shows that a live connection keeps its lease and that a  *)
(* dead one loses it (Expire).  Every node is taken to be subscribed to    *)
(* the presence channel, which is left to the application to do.           *)
(***************************************************************************)
EXTENDS Naturals, FiniteSets, Sequences

CONSTANTS
  Nodes, Users, Conns, Rooms,
  NodeOf, UserOf,   \* where and whose each connection is
  Established,      \* the connections that are open from the start
  Batches,          \* the lists of rooms a ROOM_BATCH_JOIN may carry
  MaxQueue,         \* bound on the commands of a node when it takes a request
  MaxEvents         \* bound on joins, leaves, failed commands and crashes

ASSUME RosterAssumption ==
  /\ IsFiniteSet(Conns) /\ Established \subseteq Conns
  /\ Batches \subseteq Seq(Rooms) \ {<<>>}
  /\ NodeOf \in [Conns -> Nodes] /\ UserOf \in [Conns -> Users]
  /\ MaxQueue \in Nat \ {0} /\ MaxEvents \in Nat

VARIABLES
  up,         \* the nodes that have not crashed
  phase,      \* "new", "open", "gone" for each connection
  joined,     \* the rooms of each connection
  lease,      \* the connections with an unexpired lease
  members,    \* the users in each room's set in Redis
  commands,   \* commands each node has sent and Redis has not executed
  events,     \* joins, leaves, failed commands and crashes so far
  failed,     \* whether a command has failed
  removedBy,  \* history: the node that last removed a user from a room's set
  wasIn,      \* history: the users that ever joined a room
  told        \* the sockets the last step sent a PRESENCE_UPDATE, and about whom

local == <<up, phase, joined, wasIn>>
redis == <<lease, members, removedBy>>
counters == <<events, failed>>
vars == <<local, redis, commands, counters, told>>

NoNode == "none"
Nobody == [conns |-> {}, user |-> NoNode]

\* A command: op, the connection and user it is about, and rooms: a sequence for
\* joins and leaves, the set an event names for publish.
Cmd(o, c, u, rs) == [op |-> o, conn |-> c, user |-> u, rooms |-> rs]

Registered(n) == {c \in Conns : NodeOf[c] = n /\ phase[c] = "open"}

Init ==
  /\ up = Nodes /\ phase = [c \in Conns |-> IF c \in Established THEN "open" ELSE "new"]
  /\ joined = [c \in Conns |-> {}] /\ wasIn = [r \in Rooms |-> {}]
  /\ lease = Established /\ members = [r \in Rooms |-> {}]
  /\ removedBy = [r \in Rooms |-> [u \in Users |-> NoNode]]
  /\ commands = [n \in Nodes |-> <<>>]
  /\ events = 0 /\ failed = FALSE /\ told = Nobody

-----------------------------------------------------------------------------
(***************************************************************************)
(* What a node does by itself                                              *)
(***************************************************************************)

Send(n, cmd) == commands' = [commands EXCEPT ![n] = Append(@, cmd)]

Bounded == events < MaxEvents /\ events' = events + 1

\* A request of an open connection.
Takes(c) ==
  /\ phase[c] = "open"
  /\ Len(commands[NodeOf[c]]) < MaxQueue
  /\ Bounded

\* handleAuthenticatedConnection: registerConnection.
Open(c) ==
  /\ phase[c] = "new" /\ NodeOf[c] \in up /\ Len(commands[NodeOf[c]]) < MaxQueue
  /\ phase' = [phase EXCEPT ![c] = "open"]
  /\ Send(NodeOf[c], Cmd("register", c, UserOf[c], <<>>))
  /\ told' = Nobody
  /\ UNCHANGED <<up, joined, wasIn, redis, counters>>

\* The tables of a join, and addRoomMember up to its await.  After the reply
\* the handler goes on with `next`, the rooms of a batch that are left, or
\* reads the roster.
Joining(c, r, queue, op, next) ==
  /\ joined' = [joined EXCEPT ![c] = @ \cup {r}]
  /\ wasIn' = [wasIn EXCEPT ![r] = @ \cup {UserOf[c]}]
  /\ commands' = [commands EXCEPT ![NodeOf[c]] =
       Append(queue, Cmd(op, c, UserOf[c], <<r>> \o next))]

\* handleRoomJoin.
RoomJoin(c, r) ==
  /\ Takes(c)
  /\ Joining(c, r, commands[NodeOf[c]], "join", <<>>)
  /\ told' = Nobody
  /\ UNCHANGED <<up, phase, redis, failed>>

\* handleRoomBatchJoin, its first room.
RoomBatchJoin(c, b) ==
  /\ Takes(c)
  /\ Joining(c, Head(b), commands[NodeOf[c]], "batch", Tail(b))
  /\ told' = Nobody
  /\ UNCHANGED <<up, phase, redis, failed>>

\* Mutant: any other connection of the user keeps the entry.
HasOtherAnywhere(c, r) ==
  \E d \in Registered(NodeOf[c]) \ {c} : UserOf[d] = UserOf[c]

\* Mutant: the user's other connections are not looked at.
HasOtherNever(c, r) == FALSE

\* The user has another connection of this node in the room.
HasOther(c, r) ==
  \E d \in Registered(NodeOf[c]) \ {c} : UserOf[d] = UserOf[c] /\ r \in joined[d]

\* handleRoomLeave, also of a room the connection is not in.
RoomLeave(c, r) ==
  /\ Takes(c)
  /\ joined' = [joined EXCEPT ![c] = @ \ {r}]
  /\ IF HasOther(c, r) THEN UNCHANGED commands
       ELSE Send(NodeOf[c], Cmd("leave", c, UserOf[c], <<r>>))
  /\ told' = Nobody
  /\ UNCHANGED <<up, phase, wasIn, redis, failed>>

\* The close event: the connection leaves the local tables, and removeConnection
\* starts.  The room sets in Redis are left alone.
Close(c) ==
  /\ phase[c] = "open"
  /\ phase' = [phase EXCEPT ![c] = "gone"]
  /\ joined' = [joined EXCEPT ![c] = {}]
  /\ Send(NodeOf[c], Cmd("remove", c, UserOf[c], <<>>))
  /\ told' = Nobody
  /\ UNCHANGED <<up, wasIn, redis, counters>>

\* The process dies, and with it the commands it had not got through.
Crash(n) ==
  /\ n \in up /\ Bounded
  /\ up' = up \ {n}
  /\ phase' = [c \in Conns |-> IF NodeOf[c] = n THEN "gone" ELSE phase[c]]
  /\ joined' = [c \in Conns |-> IF NodeOf[c] = n THEN {} ELSE joined[c]]
  /\ commands' = [commands EXCEPT ![n] = <<>>]
  /\ told' = Nobody
  /\ UNCHANGED <<wasIn, redis, failed>>

Sent(c, o) == \E i \in DOMAIN commands[NodeOf[c]] :
  commands[NodeOf[c]][i].op = o /\ commands[NodeOf[c]][i].conn = c

\* The lease of a connection that is gone runs out ...
Expire(c) ==
  /\ c \in lease /\ phase[c] = "gone" /\ ~Sent(c, "remove")
  /\ lease' = lease \ {c}
  /\ told' = Nobody
  /\ UNCHANGED <<local, members, removedBy, commands, counters>>

\* ... and the renewal loop restores the one of a live connection.
Renewal(c) ==
  /\ c \notin lease /\ phase[c] = "open" /\ ~Sent(c, "register")
  /\ lease' = lease \cup {c}
  /\ told' = Nobody
  /\ UNCHANGED <<local, members, removedBy, commands, counters>>

-----------------------------------------------------------------------------
(***************************************************************************)
(* Redis executes the oldest command of a node                             *)
(***************************************************************************)

Online(u) == {c \in lease : UserOf[c] = u}

Rest(n) == Tail(commands[n])
Becomes(n, queue) == commands' = [commands EXCEPT ![n] = queue]

\* The rest of a join handler, once addRoomMember has settled: the loop of a
\* batch joins its next room, whether or not the socket is still open.
AfterAdd(n, cmd) ==
  LET c == cmd.conn
      next == Tail(cmd.rooms)
  IN IF next # <<>>
       THEN Joining(c, Head(next), Rest(n), "batch", Tail(next))
       ELSE /\ Becomes(n, IF cmd.op = "batch" THEN Rest(n)
                          ELSE Append(Rest(n), Cmd("roster", c, cmd.user, cmd.rooms)))
            /\ UNCHANGED <<joined, wasIn>>

\* SADD.
Add(n, cmd) ==
  LET r == Head(cmd.rooms)
  IN /\ members' = [members EXCEPT ![r] = @ \cup {cmd.user}]
     /\ removedBy' = [removedBy EXCEPT ![r][cmd.user] = NoNode]
     /\ AfterAdd(n, cmd)
     /\ told' = Nobody
     /\ UNCHANGED <<up, phase, lease>>

\* SREM.
Srem(n, cmd) ==
  LET r == Head(cmd.rooms)
  IN /\ members' = [members EXCEPT ![r] = @ \ {cmd.user}]
     /\ removedBy' = [removedBy EXCEPT ![r][cmd.user] = n]
     /\ Becomes(n, Rest(n)) /\ told' = Nobody
     /\ UNCHANGED <<local, lease>>

\* GET_ROOM_PRESENCE_ROSTER_LUA: users without a lease are removed; the ACK
\* carries the others.
Roster(n, cmd) ==
  LET r == Head(cmd.rooms)
  IN /\ members' = [members EXCEPT ![r] = {u \in @ : Online(u) # {}}]
     /\ Becomes(n, Rest(n)) /\ told' = Nobody
     /\ UNCHANGED <<local, lease, removedBy>>

\* What the lease scripts do; a transition goes on to getUserConnectionCount.
Lease(n, cmd, leases, transition) ==
  /\ lease' = leases
  /\ Becomes(n, IF transition THEN Append(Rest(n), Cmd("count", cmd.conn, cmd.user, <<>>))
                               ELSE Rest(n))
  /\ told' = Nobody
  /\ UNCHANGED <<local, members, removedBy>>

\* REGISTER_PRESENCE_LUA: the first lease is a transition.
Register(n, cmd) == Lease(n, cmd, lease \cup {cmd.conn}, Online(cmd.user) = {})

\* REMOVE_PRESENCE_LUA: an empty set is one, also when it was empty before.
Remove(n, cmd) == Lease(n, cmd, lease \ {cmd.conn}, Online(cmd.user) \ {cmd.conn} = {})

\* roomsProvider: the rooms of the user's connections on this node.
RoomsOf(n, u) == UNION {joined[c] : c \in {d \in Registered(n) : UserOf[d] = u}}

\* After the count, also one that failed, the event is put together and published.
Counted(n, cmd) ==
  Becomes(n, Append(Rest(n), Cmd("publish", cmd.conn, cmd.user, RoomsOf(n, cmd.user))))

Count(n, cmd) ==
  /\ Counted(n, cmd)
  /\ told' = Nobody
  /\ UNCHANGED <<local, redis>>

\* Mutant: without a hint the event goes to every room of the node.
SharedRoomsAll(m, u, hint) == IF hint # {} THEN hint ELSE Rooms

\* The rooms whose members are told: the rooms the event names, or else the
\* local rooms the user is in.
SharedRooms(m, u, hint) == IF hint # {} THEN hint ELSE RoomsOf(m, u)

\* PUBLISH, and deliverRoomScopedPresence on every other node.
Publish(n, cmd) ==
  /\ told' = [conns |-> {c \in Conns : /\ NodeOf[c] \in up \ {n} /\ phase[c] = "open"
                                       /\ joined[c] \cap SharedRooms(NodeOf[c], cmd.user, cmd.rooms) # {}},
              user |-> cmd.user]
  /\ Becomes(n, Rest(n))
  /\ UNCHANGED <<local, redis>>

Execute(n) ==
  /\ commands[n] # <<>>
  /\ LET cmd == Head(commands[n])
     IN \/ cmd.op \in {"join", "batch"} /\ Add(n, cmd)
        \/ cmd.op = "leave" /\ Srem(n, cmd)
        \/ cmd.op = "roster" /\ Roster(n, cmd)
        \/ cmd.op = "register" /\ Register(n, cmd)
        \/ cmd.op = "remove" /\ Remove(n, cmd)
        \/ cmd.op = "count" /\ Count(n, cmd)
        \/ cmd.op = "publish" /\ Publish(n, cmd)
  /\ UNCHANGED counters

\* A command fails: every caller logs it and goes on.
Fail(n) ==
  /\ commands[n] # <<>>
  /\ Bounded /\ failed' = TRUE
  /\ LET cmd == Head(commands[n])
     IN \/ cmd.op \in {"join", "batch"} /\ AfterAdd(n, cmd)
        \/ cmd.op = "count" /\ Counted(n, cmd) /\ UNCHANGED <<joined, wasIn>>
        \/ /\ cmd.op \notin {"join", "batch", "count"}
           /\ Becomes(n, Rest(n)) /\ UNCHANGED <<joined, wasIn>>
  /\ told' = Nobody
  /\ UNCHANGED <<up, phase, redis>>

Next ==
  \/ \E c \in Conns :
       \/ Open(c) \/ Close(c) \/ Expire(c) \/ Renewal(c)
       \/ \E r \in Rooms : RoomJoin(c, r) \/ RoomLeave(c, r)
       \/ \E b \in Batches : RoomBatchJoin(c, b)
  \/ \E n \in Nodes : Execute(n) \/ Fail(n) \/ Crash(n)

Spec == Init /\ [][Next]_vars

-----------------------------------------------------------------------------
(***************************************************************************)
(* Properties                                                              *)
(***************************************************************************)

\* Commands under way that add or remove a user's entry in a room.
Pending(u, r) ==
  \E n \in Nodes : \E i \in DOMAIN commands[n] :
    LET cmd == commands[n][i]
    IN cmd.op \in {"join", "batch", "leave"} /\ cmd.user = u /\ r \in {cmd.rooms[j] : j \in DOMAIN cmd.rooms}

\* A user with an open connection in a room is in the room's roster, unless a
\* node without that connection removed the entry: other connections of the same
\* node that leave, and rosters that are read and pruned, never do (until a
\* command fails).
RosterKeepsPresent ==
  ~failed =>
    \A c \in Conns : \A r \in joined[c] :
      phase[c] = "open" /\ ~Pending(UserOf[c], r) =>
        \/ UserOf[c] \in members[r]
        \/ removedBy[r][UserOf[c]] \in Nodes \ {NodeOf[c]}

\* A user whose connections have all left a room, on whatever nodes, is not in its
\* roster any more (until a command fails).  A user with a connection that closed
\* or crashed, in whatever room, is left out: closing removes nothing, and how long
\* the entry stays depends on the lease.
RosterDropsLeavers ==
  ~failed =>
    \A r \in Rooms : \A u \in members[r] :
      \/ Pending(u, r)
      \/ \E c \in Conns : UserOf[c] = u /\ (phase[c] = "gone" \/ r \in joined[c])

\* A PRESENCE_UPDATE reaches only sockets in a room that the user is or was in,
\* although its rooms are read after two awaits and used on another node.
PresenceScoped ==
  \A c \in told.conns : \E r \in joined[c] : told.user \in wasIn[r]
=============================================================================

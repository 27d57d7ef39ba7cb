------------------------------ MODULE Membership ------------------------------
(***************************************************************************)
(* The tables one Pulse node keeps about its sockets, and the dispatcher   *)
(* handlers that change them:                                              *)
(*                                                                         *)
(*   ConnectionManager.connections / userConnections                       *)
(*   RoomManager.rooms          (room -> connections)                      *)
(*   Connection.rooms           (connection -> rooms)                      *)
(*   Connection.lastSeenSeq                                                *)
(*                                                                         *)
(* Node.js runs a handler without interruption up to its next await.  A    *)
(* ROOM_JOIN, ROOM_LEAVE or ROOM_BATCH_JOIN handler awaits a Redis command *)
(* when the node has a PresenceManager, and nothing serialises the frames  *)
(* of one socket: dispatchRawMessage is called once per frame and its      *)
(* promise is not awaited.  A handler that waits is an element of          *)
(* suspended; all its commands go through one Redis client, which answers  *)
(* in order, so suspended is a FIFO queue.                                 *)
(*                                                                         *)
(* The calls that joinRoom and leaveRoom make to the ChannelRegistry       *)
(* change none of these tables and none of these tables' code reads what   *)
(* they change: see ChannelSubscriptions.                                  *)
(***************************************************************************)
EXTENDS Naturals, FiniteSets, Sequences

CONSTANTS
  Conns,            \* connection ids; a generated UUIDv7 is never reused
  Users,
  UserOf,           \* the user each connection authenticated as
  Rooms,            \* room ids that pass the length and character checks
  BadRooms,         \* room ids that do not
  Batches,          \* the rooms arrays a ROOM_BATCH_JOIN may carry
  MaxRooms,         \* maxRoomsPerConnection
  MaxSeq,           \* bound on client sequence numbers
  MaxSuspended,     \* bound on handlers waiting at the same time
  PresenceEnabled   \* whether the node has a PresenceManager

ASSUME MembershipAssumption ==
  /\ IsFiniteSet(Conns) /\ IsFiniteSet(Rooms)
  /\ UserOf \in [Conns -> Users]
  /\ BadRooms \cap Rooms = {}
  /\ Batches \subseteq Seq(Rooms \cup BadRooms)
  /\ MaxRooms \in Nat \ {0}
  /\ MaxSeq \in Nat \ {0}
  /\ MaxSuspended \in Nat
  /\ PresenceEnabled \in BOOLEAN

VARIABLES
  phase,            \* life of each socket: "new", "open", "closed"
  connections,      \* ConnectionManager.connections
  userConnections,  \* ConnectionManager.userConnections
  members,          \* RoomManager.rooms; an empty set stands for no entry
  rooms,            \* Connection.rooms
  lastSeenSeq,      \* Connection.lastSeenSeq
  suspended,        \* handlers waiting at an await, oldest command first
  running           \* the batch join whose loop is being executed, or Idle

tables == <<connections, userConnections, members, rooms>>
vars == <<phase, connections, userConnections, members, rooms,
          lastSeenSeq, suspended, running>>

Seqs == 0..MaxSeq           \* 0 stands for an envelope without seq

Task == [kind  : {"join", "leave", "batch"},
         conn  : Conns,
         seq   : Seqs,
         todo  : Seq(Rooms \cup BadRooms),  \* rest of the batch loop
         count : Nat,                       \* currentCount, read once
         added : Nat]                       \* newlyAdded

Idle == [kind |-> "idle"]

WaitTask(k, c, q) ==
  [kind |-> k, conn |-> c, seq |-> q, todo |-> <<>>, count |-> 0, added |-> 0]

-----------------------------------------------------------------------------
Init ==
  /\ phase = [c \in Conns |-> "new"]
  /\ connections = {}
  /\ userConnections = [u \in Users |-> {}]
  /\ members = [r \in Rooms |-> {}]
  /\ rooms = [c \in Conns |-> {}]
  /\ lastSeenSeq = [c \in Conns |-> 0]
  /\ suspended = <<>>
  /\ running = Idle

\* The event loop picks the next callback only when no handler is executing.
LoopFree == running = Idle

\* Room for one more waiting handler (bound of the model, not of the code).
MayWait == PresenceEnabled => Len(suspended) < MaxSuspended

\* A frame of an open socket that gets past the sequence check.
Accepted(c, q) ==
  /\ LoopFree
  /\ phase[c] = "open"
  /\ q # 0 => q >= lastSeenSeq[c]

\* `if (envelope.seq !== undefined) sender.lastSeenSeq = envelope.seq`
SetSeq(c, q) ==
  lastSeenSeq' = IF q = 0 THEN lastSeenSeq ELSE [lastSeenSeq EXCEPT ![c] = q]

\* RoomManager.joinRoom followed by Connection.joinRoom.
JoinTables(c, r) ==
  /\ members' = [members EXCEPT ![r] = @ \cup {c}]
  /\ rooms' = [rooms EXCEPT ![c] = @ \cup {r}]

\* Mutant: Connection.leaveRoom is forgotten.
LeaveIndexOnly(c, r) ==
  members' = [members EXCEPT ![r] = @ \ {c}] /\ UNCHANGED rooms

\* RoomManager.leaveRoom followed by Connection.leaveRoom.
LeaveTables(c, r) ==
  /\ members' = [members EXCEPT ![r] = @ \ {c}]
  /\ rooms' = [rooms EXCEPT ![c] = @ \ {r}]

\* ConnectionManager.addConnection.
AddConnection(c) ==
  /\ connections' = connections \cup {c}
  /\ userConnections' = [userConnections EXCEPT ![UserOf[c]] = @ \cup {c}]

\* ConnectionManager.removeConnection of a registered connection.
RemoveConnection(c) ==
  /\ connections' = connections \ {c}
  /\ userConnections' = [userConnections EXCEPT ![UserOf[c]] = @ \ {c}]

\* RoomManager.removeConnectionFromAllRooms: the rooms the socket knows, then
\* the safety sweep over every room of the index.
RemoveConnectionFromAllRooms(c) ==
  members' = [r \in Rooms |-> members[r] \ {c}]

-----------------------------------------------------------------------------
\* handleAuthenticatedConnection: addConnection on a fresh connection id.
Connect(c) ==
  /\ LoopFree
  /\ phase[c] = "new"
  /\ phase' = [phase EXCEPT ![c] = "open"]
  /\ AddConnection(c)
  /\ UNCHANGED <<members, rooms, lastSeenSeq, suspended, running>>

\* The socket's close event.  Connection.rooms is left as it is.
Close(c) ==
  /\ LoopFree
  /\ phase[c] = "open"
  /\ phase' = [phase EXCEPT ![c] = "closed"]
  /\ RemoveConnection(c)
  /\ RemoveConnectionFromAllRooms(c)
  /\ UNCHANGED <<rooms, lastSeenSeq, suspended, running>>

\* ROOM_MESSAGE of a member, DIRECT_MESSAGE, SYS_PING and SYS_PONG: of these
\* tables they change only lastSeenSeq.
Traffic(c, q) ==
  /\ Accepted(c, q)
  /\ q # 0
  /\ SetSeq(c, q)
  /\ UNCHANGED <<phase, tables, suspended, running>>

\* The room limit of handleRoomJoin: a room the socket is in already is free.
HasCapacity(c, r) == r \in rooms[c] \/ Cardinality(rooms[c]) < MaxRooms

\* handleRoomJoin up to `await addRoomMember`, or to its end without presence.
RoomJoin(c, r, q) ==
  /\ Accepted(c, q)
  /\ MayWait
  /\ HasCapacity(c, r)
  /\ JoinTables(c, r)
  /\ IF PresenceEnabled
       THEN /\ suspended' = Append(suspended, WaitTask("join", c, q))
            /\ UNCHANGED lastSeenSeq
       ELSE SetSeq(c, q) /\ UNCHANGED suspended
  /\ UNCHANGED <<phase, connections, userConnections, running>>

\* Another local connection of the user is in the room.
HasOther(c, r) == \E d \in userConnections[UserOf[c]] \ {c} : r \in rooms[d]

\* handleRoomLeave up to `await removeRoomMember`, which it reaches only when
\* HasOther is false.
RoomLeave(c, r, q) ==
  /\ Accepted(c, q)
  /\ MayWait
  /\ LeaveTables(c, r)
  /\ IF PresenceEnabled /\ ~HasOther(c, r)
       THEN /\ suspended' = Append(suspended, WaitTask("leave", c, q))
            /\ UNCHANGED lastSeenSeq
       ELSE SetSeq(c, q) /\ UNCHANGED suspended
  /\ UNCHANGED <<phase, connections, userConnections, running>>

\* handleRoomBatchJoin up to its loop: the limit is checked and the number of
\* rooms is read once.
RoomBatchJoin(c, b, q) ==
  /\ Accepted(c, q)
  /\ MayWait
  /\ Cardinality(rooms[c]) < MaxRooms
  /\ running' = [kind |-> "batch", conn |-> c, seq |-> q, todo |-> b,
                 count |-> Cardinality(rooms[c]), added |-> 0]
  /\ UNCHANGED <<phase, tables, lastSeenSeq, suspended>>

\* The loop meets a room id that fails the checks: continue.
BatchSkip ==
  /\ ~LoopFree
  /\ running.todo # <<>>
  /\ Head(running.todo) \in BadRooms
  /\ running' = [running EXCEPT !.todo = Tail(@)]
  /\ UNCHANGED <<phase, tables, lastSeenSeq, suspended>>

\* The limit as the loop computes it, from the count read before the loop.
BatchFull(t) == t.count + t.added >= MaxRooms

\* The loop meets a new room and the limit: break.
BatchBreak ==
  /\ ~LoopFree
  /\ running.todo # <<>>
  /\ Head(running.todo) \in Rooms \ rooms[running.conn]
  /\ BatchFull(running)
  /\ running' = [running EXCEPT !.todo = <<>>]
  /\ UNCHANGED <<phase, tables, lastSeenSeq, suspended>>

\* One iteration that joins a room; with presence it ends in
\* `await addRoomMember`.
BatchJoinOne ==
  LET c == running.conn
      r == Head(running.todo)
      isNew == r \notin rooms[c]
      rest == [running EXCEPT !.todo = Tail(@),
                              !.added = IF isNew THEN @ + 1 ELSE @]
  IN
  /\ ~LoopFree
  /\ running.todo # <<>>
  /\ r \in Rooms
  /\ isNew => ~BatchFull(running)
  /\ JoinTables(c, r)
  /\ IF PresenceEnabled
       THEN suspended' = Append(suspended, rest) /\ running' = Idle
       ELSE running' = rest /\ UNCHANGED suspended
  /\ UNCHANGED <<phase, connections, userConnections, lastSeenSeq>>

\* The end of the batch handler.
BatchEnd ==
  /\ ~LoopFree
  /\ running.todo = <<>>
  /\ SetSeq(running.conn, running.seq)
  /\ running' = Idle
  /\ UNCHANGED <<phase, tables, suspended>>

\* The oldest Redis command is answered (or fails, which addRoomMember and
\* removeRoomMember swallow) and its handler goes on.  What a join still does
\* after this, reading the roster and sending the ACK, changes no table.
Resume ==
  LET t == Head(suspended)
  IN
  /\ LoopFree
  /\ suspended # <<>>
  /\ suspended' = Tail(suspended)
  /\ IF t.kind = "batch"
       THEN running' = t /\ UNCHANGED lastSeenSeq
       ELSE SetSeq(t.conn, t.seq) /\ UNCHANGED running
  /\ UNCHANGED <<phase, tables>>

Next ==
  \/ \E c \in Conns :
       \/ Connect(c)
       \/ Close(c)
       \/ \E q \in Seqs :
            \/ Traffic(c, q)
            \/ \E r \in Rooms : RoomJoin(c, r, q) \/ RoomLeave(c, r, q)
            \/ \E b \in Batches : RoomBatchJoin(c, b, q)
  \/ BatchSkip \/ BatchBreak \/ BatchJoinOne \/ BatchEnd
  \/ Resume

Spec == Init /\ [][Next]_vars

-----------------------------------------------------------------------------
(***************************************************************************)
(* Properties                                                              *)
(***************************************************************************)

\* Every table has the type of the Map or Set it stands for.
TypeOK ==
  /\ phase \in [Conns -> {"new", "open", "closed"}]
  /\ connections \in SUBSET Conns
  /\ userConnections \in [Users -> SUBSET Conns]
  /\ members \in [Rooms -> SUBSET Conns]
  /\ rooms \in [Conns -> SUBSET Rooms]
  /\ lastSeenSeq \in [Conns -> Seqs]
  /\ suspended \in Seq(Task)
  /\ running \in Task \cup {Idle}

\* The room index and the sockets' own room sets agree, whatever handlers are
\* waiting: a registered connection is in RoomManager.rooms exactly for the
\* rooms in Connection.rooms (handleRoomMessage authorises with the one and
\* delivers with the other), and the index never knows more than the socket.
TablesAgree ==
  /\ \A r \in Rooms : \A c \in connections :
       c \in members[r] <=> r \in rooms[c]
  /\ \A r \in Rooms : \A c \in members[r] : r \in rooms[c]

\* userConnections is the inverse image of the registered connections, so a
\* DIRECT_MESSAGE reaches exactly the user's registered sockets.
UserIndexExact ==
  \A u \in Users :
    userConnections[u] = {c \in connections : UserOf[c] = u}

\* No room keeps a connection that is gone: what removeConnectionFromAllRooms
\* and its safety sweep are there for.  It does not hold with a PresenceManager:
\* the loop of a batch join that waited while the socket closed puts the
\* connection back.
NoGhostMembers ==
  \A r \in Rooms : members[r] \subseteq connections

\* No connection is in more than maxRoomsPerConnection rooms.  It does not hold
\* with a PresenceManager: the loop of a batch join compares with a count it read
\* before its awaits, and other joins of the socket run meanwhile.
RoomLimit ==
  \A c \in Conns : Cardinality(rooms[c]) <= MaxRooms

\* lastSeenSeq of a connection never goes back.
LastSeenMonotonic ==
  [][\A c \in Conns : lastSeenSeq'[c] >= lastSeenSeq[c]]_vars
=============================================================================

-------------------------- MODULE MembershipProofs --------------------------
(***************************************************************************)
(* Proofs about Membership, for every number of sockets, users and rooms,  *)
(* every set of batches and every number of waiting handlers.              *)
(***************************************************************************)
EXTENDS Membership, TLAPS, FiniteSetTheorems, SequenceTheorems

-----------------------------------------------------------------------------
(***************************************************************************)
(* Types                                                                   *)
(***************************************************************************)

\* The batch loop only runs for a task.
LEMMA RunningTask == TypeOK /\ ~LoopFree => running \in Task
  BY DEF TypeOK, LoopFree

\* getRooms().length is a number.
LEMMA RoomCount ==
  TypeOK => \A c \in Conns : IsFiniteSet(rooms[c]) /\ Cardinality(rooms[c]) \in Nat
<1>1. SUFFICES ASSUME TypeOK, NEW c \in Conns
      PROVE  IsFiniteSet(rooms[c]) /\ Cardinality(rooms[c]) \in Nat
  OBVIOUS
<1>2. rooms[c] \subseteq Rooms
  BY <1>1 DEF TypeOK
<1>3. IsFiniteSet(rooms[c])
  BY <1>2, FS_Subset, MembershipAssumption
<1> QED
  BY <1>3, FS_CardinalityType

\* Storing a sequence number keeps the type of lastSeenSeq.
LEMMA SetSeqType ==
  ASSUME TypeOK, NEW c \in Conns, NEW q \in Seqs, SetSeq(c, q)
  PROVE  lastSeenSeq' \in [Conns -> Seqs]
  BY DEF TypeOK, SetSeq

\* A handler that starts to wait is a task.
LEMMA WaitTaskType ==
  ASSUME NEW c \in Conns, NEW q \in Seqs, NEW k \in {"join", "leave"}
  PROVE  WaitTask(k, c, q) \in Task
  BY DEF WaitTask, Task

\* Moving on in the batch loop keeps a task a task.
LEMMA LoopTaskType ==
  ASSUME NEW t \in Task, NEW s \in Seq(Rooms \cup BadRooms), NEW n \in Nat
  PROVE  /\ [t EXCEPT !.todo = s] \in Task
         /\ [t EXCEPT !.todo = s, !.added = n] \in Task
  BY DEF Task

\* The rest of a task's rooms is again a sequence of rooms.
LEMMA TodoTail ==
  ASSUME NEW t \in Task, t.todo # <<>>
  PROVE  /\ Tail(t.todo) \in Seq(Rooms \cup BadRooms)
         /\ Head(t.todo) \in Rooms \cup BadRooms
<1>1. t.todo \in Seq(Rooms \cup BadRooms)
  BY DEF Task
<1> QED
  BY <1>1

\* The initial tables have their types.
LEMMA InitTypeOK == Init => TypeOK
  BY MembershipAssumption DEF Init, TypeOK, Seqs

\* Every handler keeps the types.
LEMMA NextTypeOK == TypeOK /\ [Next]_vars => TypeOK'
<1> SUFFICES ASSUME TypeOK, [Next]_vars PROVE TypeOK'
  OBVIOUS
<1>1. ASSUME NEW c \in Conns, Connect(c) PROVE TypeOK'
  BY <1>1, MembershipAssumption DEF TypeOK, Connect, AddConnection
<1>2. ASSUME NEW c \in Conns, Close(c) PROVE TypeOK'
  BY <1>2, MembershipAssumption DEF TypeOK, Close, RemoveConnection,
     RemoveConnectionFromAllRooms
<1>3. ASSUME NEW c \in Conns, NEW q \in Seqs, Traffic(c, q) PROVE TypeOK'
  BY <1>3, SetSeqType DEF TypeOK, Traffic, tables
<1>4. ASSUME NEW c \in Conns, NEW q \in Seqs, NEW r \in Rooms, RoomJoin(c, r, q)
      PROVE TypeOK'
  <2>1. /\ members' \in [Rooms -> SUBSET Conns]
        /\ rooms' \in [Conns -> SUBSET Rooms]
    BY <1>4 DEF TypeOK, RoomJoin, JoinTables
  <2>2. lastSeenSeq' \in [Conns -> Seqs] /\ suspended' \in Seq(Task)
    <3>1. WaitTask("join", c, q) \in Task /\ lastSeenSeq \in [Conns -> Seqs]
          /\ suspended \in Seq(Task)
      BY WaitTaskType DEF TypeOK
    <3>2. CASE SetSeq(c, q) /\ UNCHANGED suspended
      BY <3>1, <3>2, SetSeqType
    <3>3. CASE suspended' = Append(suspended, WaitTask("join", c, q)) /\ UNCHANGED lastSeenSeq
      BY <3>1, <3>3
    <3> QED
      BY <1>4, <3>2, <3>3 DEF RoomJoin
  <2> QED
    BY <1>4, <2>1, <2>2 DEF TypeOK, RoomJoin
<1>5. ASSUME NEW c \in Conns, NEW q \in Seqs, NEW r \in Rooms, RoomLeave(c, r, q)
      PROVE TypeOK'
  <2>1. /\ members' \in [Rooms -> SUBSET Conns]
        /\ rooms' \in [Conns -> SUBSET Rooms]
    BY <1>5 DEF TypeOK, RoomLeave, LeaveTables
  <2>2. lastSeenSeq' \in [Conns -> Seqs] /\ suspended' \in Seq(Task)
    <3>1. WaitTask("leave", c, q) \in Task /\ lastSeenSeq \in [Conns -> Seqs]
          /\ suspended \in Seq(Task)
      BY WaitTaskType DEF TypeOK
    <3>2. CASE SetSeq(c, q) /\ UNCHANGED suspended
      BY <3>1, <3>2, SetSeqType
    <3>3. CASE suspended' = Append(suspended, WaitTask("leave", c, q)) /\ UNCHANGED lastSeenSeq
      BY <3>1, <3>3
    <3> QED
      BY <1>5, <3>2, <3>3 DEF RoomLeave
  <2> QED
    BY <1>5, <2>1, <2>2 DEF TypeOK, RoomLeave
<1>6. ASSUME NEW c \in Conns, NEW q \in Seqs, NEW b \in Batches,
             RoomBatchJoin(c, b, q)
      PROVE TypeOK'
  <2>1. running' \in Task
    BY <1>6, RoomCount, MembershipAssumption DEF RoomBatchJoin, Task
  <2> QED
    BY <1>6, <2>1 DEF TypeOK, RoomBatchJoin, tables
<1>7. CASE BatchSkip
  <2>1. running' \in Task
    BY <1>7, RunningTask, TodoTail, LoopTaskType DEF BatchSkip, Task
  <2> QED
    BY <1>7, <2>1 DEF TypeOK, BatchSkip, tables
<1>8. CASE BatchBreak
  <2>1. running' \in Task
    BY <1>8, RunningTask, LoopTaskType, EmptySeq DEF BatchBreak
  <2> QED
    BY <1>8, <2>1 DEF TypeOK, BatchBreak, tables
<1>9. CASE BatchJoinOne
  <2> DEFINE n == IF Head(running.todo) \notin rooms[running.conn]
                    THEN running.added + 1 ELSE running.added
             rest == [running EXCEPT !.todo = Tail(running.todo), !.added = n]
  <2>1. running \in Task /\ rest \in Task
    <3>1. running \in Task /\ running.added \in Nat
      BY <1>9, RunningTask DEF BatchJoinOne, Task
    <3>2. Tail(running.todo) \in Seq(Rooms \cup BadRooms)
      BY <1>9, <3>1, TodoTail DEF BatchJoinOne
    <3>3. n \in Nat
      BY <3>1
    <3> QED
      BY <3>1, <3>2, <3>3, LoopTaskType
  <2>2. /\ members' \in [Rooms -> SUBSET Conns]
        /\ rooms' \in [Conns -> SUBSET Rooms]
    BY <1>9, <2>1 DEF TypeOK, BatchJoinOne, JoinTables, Task
  <2>3. suspended' \in Seq(Task) /\ running' \in Task \cup {Idle}
    BY <1>9, <2>1 DEF TypeOK, BatchJoinOne
  <2> QED
    BY <1>9, <2>2, <2>3 DEF TypeOK, BatchJoinOne
<1>10. CASE BatchEnd
  <2>1. running.conn \in Conns /\ running.seq \in Seqs
    BY <1>10, RunningTask DEF BatchEnd, Task
  <2> QED
    BY <1>10, <2>1, SetSeqType DEF TypeOK, BatchEnd, tables
<1>11. CASE Resume
  <2>1. Head(suspended) \in Task /\ Tail(suspended) \in Seq(Task)
    BY <1>11 DEF Resume, TypeOK
  <2>2. Head(suspended).conn \in Conns /\ Head(suspended).seq \in Seqs
    BY <2>1 DEF Task
  <2> QED
    BY <1>11, <2>1, <2>2, SetSeqType DEF TypeOK, Resume, tables
<1>12. CASE UNCHANGED vars
  BY <1>12 DEF TypeOK, vars
<1> QED
  BY <1>1, <1>2, <1>3, <1>4, <1>5, <1>6, <1>7, <1>8, <1>9, <1>10, <1>11, <1>12
  DEF Next

\* The tables always have their types.
THEOREM TypeCorrect == Spec => []TypeOK
<1> QED
  BY InitTypeOK, NextTypeOK, PTL DEF Spec

-----------------------------------------------------------------------------
(***************************************************************************)
(* The tables, with or without presence                                    *)
(***************************************************************************)

\* A socket that never opened is in no room, and only sockets that opened have
\* handlers.  This is what makes TablesAgree inductive: Connect registers a
\* connection whose two sides are both empty, and a waiting batch join, which
\* may outlive its socket, never touches a socket that is still to come.
Started ==
  /\ connections = {c \in Conns : phase[c] = "open"}
  /\ \A c \in Conns : phase[c] = "new" => rooms[c] = {}
  /\ \A i \in 1..Len(suspended) : phase[suspended[i].conn] # "new"
  /\ ~LoopFree => phase[running.conn] # "new"

TablesInv == TypeOK /\ Started /\ TablesAgree /\ UserIndexExact

\* The empty tables agree.
LEMMA InitTables == Init => TablesInv
  BY InitTypeOK, MembershipAssumption
  DEF Init, TablesInv, Started, TablesAgree, UserIndexExact, LoopFree

\* Every handler keeps the tables in agreement.
LEMMA NextTables == TablesInv /\ [Next]_vars => TablesInv'
<1> SUFFICES ASSUME TablesInv, [Next]_vars PROVE TablesInv'
  OBVIOUS
<1> USE DEF TablesInv
<1>0. TypeOK'
  BY NextTypeOK
<1>1. ASSUME NEW c \in Conns, Connect(c) PROVE TablesInv'
  <2>1. Started'
    BY <1>1 DEF Connect, AddConnection, Started, TypeOK, LoopFree, Task
  <2>2. TablesAgree'
    BY <1>1 DEF Connect, AddConnection, Started, TablesAgree, TypeOK
  <2>3. UserIndexExact'
    BY <1>1, MembershipAssumption
    DEF Connect, AddConnection, UserIndexExact, TypeOK
  <2> QED
    BY <1>0, <2>1, <2>2, <2>3
<1>2. ASSUME NEW c \in Conns, Close(c) PROVE TablesInv'
  <2> USE <1>2 DEF Close, RemoveConnection, RemoveConnectionFromAllRooms
  <2>1. Started'
    BY DEF Started, TypeOK, LoopFree, Task
  <2>2. TablesAgree'
    BY DEF Started, TablesAgree, TypeOK
  <2>3. UserIndexExact'
    BY MembershipAssumption DEF UserIndexExact, TypeOK
  <2> QED
    BY <1>0, <2>1, <2>2, <2>3
<1>3. ASSUME NEW c \in Conns, NEW q \in Seqs, Traffic(c, q) PROVE TablesInv'
  BY <1>0, <1>3 DEF Traffic, tables, Started, TablesAgree, UserIndexExact, LoopFree
<1>4. ASSUME NEW c \in Conns, NEW q \in Seqs, NEW r \in Rooms, RoomJoin(c, r, q)
      PROVE TablesInv'
  <2> USE <1>4 DEF RoomJoin, Accepted
  <2>1. \A i \in 1..Len(suspended') : phase'[suspended'[i].conn] # "new"
    <3>1. WaitTask("join", c, q).conn = c
      BY DEF WaitTask
    <3>2. \/ suspended' = Append(suspended, WaitTask("join", c, q))
          \/ UNCHANGED suspended
      OBVIOUS
    <3>3. suspended \in Seq(Task) /\ WaitTask("join", c, q) \in Task
      BY WaitTaskType DEF TypeOK
    <3>4. /\ phase' = phase /\ phase[c] # "new"
          /\ \A i \in 1..Len(suspended) : phase[suspended[i].conn] # "new"
      BY DEF Started
    <3>5. \A i \in 1..Len(suspended') :
            suspended'[i] = WaitTask("join", c, q)
            \/ (i \in 1..Len(suspended) /\ suspended'[i] = suspended[i])
      BY <3>2, <3>3
    <3> QED
      BY <3>1, <3>4, <3>5
  <2>2. Started'
    BY <2>1 DEF Started, TypeOK, LoopFree, JoinTables
  <2>3. TablesAgree' /\ UserIndexExact'
    BY DEF JoinTables, TablesAgree, UserIndexExact, TypeOK
  <2> QED
    BY <1>0, <2>2, <2>3
<1>5. ASSUME NEW c \in Conns, NEW q \in Seqs, NEW r \in Rooms, RoomLeave(c, r, q)
      PROVE TablesInv'
  <2> USE <1>5 DEF RoomLeave, Accepted
  <2>1. \A i \in 1..Len(suspended') : phase'[suspended'[i].conn] # "new"
    <3>1. WaitTask("leave", c, q).conn = c
      BY DEF WaitTask
    <3>2. \/ suspended' = Append(suspended, WaitTask("leave", c, q))
          \/ UNCHANGED suspended
      OBVIOUS
    <3>3. phase[c] # "new" /\ phase' = phase /\ suspended \in Seq(Task)
          /\ \A i \in 1..Len(suspended) : phase[suspended[i].conn] # "new"
      BY DEF Started, TypeOK
    <3> QED
      BY <3>1, <3>2, <3>3, WaitTaskType
  <2>2. Started'
    BY <2>1 DEF Started, TypeOK, LoopFree, LeaveTables
  <2>3. TablesAgree' /\ UserIndexExact'
    BY DEF LeaveTables, TablesAgree, UserIndexExact, TypeOK
  <2> QED
    BY <1>0, <2>2, <2>3
<1>6. ASSUME NEW c \in Conns, NEW q \in Seqs, NEW b \in Batches,
             RoomBatchJoin(c, b, q)
      PROVE TablesInv'
  BY <1>0, <1>6 DEF RoomBatchJoin, Accepted, tables, Started, TablesAgree,
     UserIndexExact, LoopFree
<1>7. CASE BatchSkip
  <2>1. running'.conn = running.conn
    BY <1>7, RunningTask DEF BatchSkip, Task
  <2> QED
    BY <1>0, <1>7, <2>1 DEF BatchSkip, tables, Started, TablesAgree,
       UserIndexExact, LoopFree
<1>8. CASE BatchBreak
  <2>1. running'.conn = running.conn
    BY <1>8, RunningTask DEF BatchBreak, Task
  <2> QED
    BY <1>0, <1>8, <2>1 DEF BatchBreak, tables, Started, TablesAgree,
       UserIndexExact, LoopFree
<1>9. CASE BatchJoinOne
  <2> USE <1>9 DEF BatchJoinOne
  <2> DEFINE n == IF Head(running.todo) \notin rooms[running.conn]
                    THEN running.added + 1 ELSE running.added
             rest == [running EXCEPT !.todo = Tail(running.todo), !.added = n]
  <2>1. running \in Task /\ running.conn \in Conns /\ rest.conn = running.conn
    BY RunningTask DEF Task
  <2>2. phase[running.conn] # "new"
    BY DEF Started
  <2>3. \/ suspended' = Append(suspended, rest) /\ running' = Idle
        \/ running' = rest /\ UNCHANGED suspended
    BY <2>1
  <2>4. \A i \in 1..Len(suspended') : phase[suspended'[i].conn] # "new"
    <3> HIDE DEF rest
    <3> QED
      BY <2>1, <2>2, <2>3 DEF Started, TypeOK
  <2>5. Started'
    BY <2>1, <2>2, <2>3, <2>4 DEF Started, TypeOK, LoopFree, JoinTables
  <2>6. TablesAgree' /\ UserIndexExact'
    BY <2>1 DEF JoinTables, TablesAgree, UserIndexExact, TypeOK
  <2> QED
    BY <1>0, <2>5, <2>6
<1>10. CASE BatchEnd
  BY <1>0, <1>10 DEF BatchEnd, tables, Started, TablesAgree, UserIndexExact, LoopFree
<1>11. CASE Resume
  <2> USE <1>11 DEF Resume
  <2>1. phase[Head(suspended).conn] # "new"
    BY DEF Started, TypeOK
  <2>2. \A i \in 1..Len(suspended') : phase[suspended'[i].conn] # "new"
    BY DEF Started, TypeOK
  <2> QED
    BY <1>0, <2>1, <2>2 DEF tables, Started, TablesAgree, UserIndexExact, LoopFree
<1>12. CASE UNCHANGED vars
  BY <1>0, <1>12 DEF vars, Started, TablesAgree, UserIndexExact, LoopFree
<1> QED
  BY <1>1, <1>2, <1>3, <1>4, <1>5, <1>6, <1>7, <1>8, <1>9, <1>10, <1>11, <1>12
  DEF Next

\* The room index and the sockets' own room sets never disagree about a
\* registered connection, and the user index is exact: handleRoomMessage
\* authorises with Connection.rooms and delivers with RoomManager.rooms, and no
\* interleaving of waiting handlers and close events can make them differ.
THEOREM TablesCorrect == Spec => [](TablesAgree /\ UserIndexExact)
<1>1. TablesInv => TablesAgree /\ UserIndexExact
  BY DEF TablesInv
<1> QED
  BY <1>1, InitTables, NextTables, PTL DEF Spec

\* One more room, or one less.
LEMMA RoomCountStep ==
  ASSUME TypeOK, NEW c \in Conns, NEW r \in Rooms
  PROVE  /\ r \notin rooms[c] =>
              Cardinality(rooms[c] \cup {r}) = Cardinality(rooms[c]) + 1
         /\ r \in rooms[c] =>
              Cardinality(rooms[c] \cup {r}) = Cardinality(rooms[c])
         /\ Cardinality(rooms[c] \ {r}) <= Cardinality(rooms[c])
         /\ Cardinality(rooms[c] \ {r}) \in Nat
<1>1. IsFiniteSet(rooms[c])
  BY RoomCount
<1>2. /\ Cardinality(rooms[c] \ {r}) <= Cardinality(rooms[c])
      /\ Cardinality(rooms[c] \ {r}) \in Nat
  BY <1>1, FS_Subset, FS_CardinalityType, rooms[c] \ {r} \subseteq rooms[c]
<1> QED
  BY <1>1, <1>2, FS_AddElement

-----------------------------------------------------------------------------
(***************************************************************************)
(* A node without presence                                                 *)
(***************************************************************************)

\* Without a PresenceManager no handler waits, so what a batch join read before
\* its loop is still true in the loop: its socket is open, count plus added is
\* the number of its rooms, and its sequence number is not behind.
LoopFresh ==
  ~LoopFree =>
    /\ running.conn \in connections
    /\ running.count + running.added = Cardinality(rooms[running.conn])
    /\ running.seq # 0 => running.seq >= lastSeenSeq[running.conn]

SyncInv ==
  TablesInv /\ suspended = <<>> /\ LoopFresh /\ NoGhostMembers /\ RoomLimit

\* Storing a number that passed the sequence check moves nothing back.
LEMMA SeqForward ==
  ASSUME TypeOK, NEW c \in Conns, NEW q \in Seqs, SetSeq(c, q),
         q # 0 => q >= lastSeenSeq[c]
  PROVE  \A d \in Conns : lastSeenSeq'[d] >= lastSeenSeq[d]
<1>1. Seqs \subseteq Nat /\ \A d \in Conns : lastSeenSeq[d] \in Nat
  BY MembershipAssumption DEF TypeOK, Seqs
<1>2. CASE q = 0
  BY <1>1, <1>2 DEF SetSeq
<1>3. CASE q # 0
  BY <1>1, <1>3 DEF SetSeq, TypeOK
<1> QED
  BY <1>2, <1>3

\* The empty tables satisfy the stronger invariant.
LEMMA InitSync == Init => SyncInv
<1>1. Cardinality({}) = 0
  BY FS_EmptySet
<1> QED
  BY <1>1, InitTables, MembershipAssumption
  DEF Init, SyncInv, LoopFresh, LoopFree, NoGhostMembers, RoomLimit

\* Without presence every handler keeps the stronger invariant and moves no
\* sequence number back.
LEMMA NextSync ==
  ASSUME ~PresenceEnabled, SyncInv, [Next]_vars
  PROVE  SyncInv' /\ \A c \in Conns : lastSeenSeq'[c] >= lastSeenSeq[c]
<1> DEFINE Goal == SyncInv' /\ \A c \in Conns : lastSeenSeq'[c] >= lastSeenSeq[c]
<1> USE DEF SyncInv
<1>0. TablesInv' /\ TypeOK /\ TypeOK'
  BY NextTables DEF TablesInv
<1>a. \A c \in Conns : lastSeenSeq[c] \in Nat
  BY <1>0, MembershipAssumption DEF TypeOK, Seqs
<1>b. \A q \in Seqs : q \in Nat
  BY MembershipAssumption DEF Seqs
<1>1. ASSUME NEW c \in Conns, Connect(c) PROVE Goal
  BY <1>0, <1>1, <1>a DEF Connect, AddConnection, LoopFresh, LoopFree,
     NoGhostMembers, RoomLimit, TypeOK
<1>2. ASSUME NEW c \in Conns, Close(c) PROVE Goal
  BY <1>0, <1>2, <1>a DEF Close, RemoveConnection, RemoveConnectionFromAllRooms,
     LoopFresh, LoopFree, NoGhostMembers, RoomLimit, TypeOK
<1>3. ASSUME NEW c \in Conns, NEW q \in Seqs, Traffic(c, q) PROVE Goal
  BY <1>0, <1>3, <1>a, <1>b DEF Traffic, Accepted, SetSeq, tables, LoopFresh,
     LoopFree, NoGhostMembers, RoomLimit, TypeOK
<1>4. ASSUME NEW c \in Conns, NEW q \in Seqs, NEW r \in Rooms, RoomJoin(c, r, q)
      PROVE Goal
  <2> USE <1>4 DEF RoomJoin, Accepted, HasCapacity
  <2>1. c \in connections
    BY DEF TablesInv, Started
  <2>2. NoGhostMembers'
    BY <1>0, <2>1 DEF NoGhostMembers, JoinTables, TypeOK
  <2>3. RoomLimit'
    <3>0. /\ r \notin rooms[c] =>
               Cardinality(rooms[c] \cup {r}) = Cardinality(rooms[c]) + 1
          /\ r \in rooms[c] =>
               Cardinality(rooms[c] \cup {r}) = Cardinality(rooms[c])
          /\ Cardinality(rooms[c]) \in Nat
      BY <1>0, RoomCount, RoomCountStep
    <3>1. Cardinality(rooms[c] \cup {r}) <= MaxRooms
      BY <3>0, MembershipAssumption DEF RoomLimit
    <3> QED
      BY <1>0, <3>1 DEF RoomLimit, JoinTables, TypeOK
  <2>4. \A d \in Conns : lastSeenSeq'[d] >= lastSeenSeq[d]
    BY <1>0, SeqForward
  <2> QED
    BY <1>0, <2>2, <2>3, <2>4 DEF LoopFresh, LoopFree
<1>5. ASSUME NEW c \in Conns, NEW q \in Seqs, NEW r \in Rooms, RoomLeave(c, r, q)
      PROVE Goal
  <2> USE <1>5 DEF RoomLeave, Accepted
  <2>1. NoGhostMembers'
    BY <1>0 DEF NoGhostMembers, LeaveTables, TypeOK
  <2>2. RoomLimit'
    <3>0. /\ Cardinality(rooms[c] \ {r}) <= Cardinality(rooms[c])
          /\ Cardinality(rooms[c] \ {r}) \in Nat
          /\ Cardinality(rooms[c]) \in Nat
      BY <1>0, RoomCount, RoomCountStep
    <3>1. Cardinality(rooms[c] \ {r}) <= MaxRooms
      BY <3>0, MembershipAssumption DEF RoomLimit
    <3> QED
      BY <1>0, <3>1 DEF RoomLimit, LeaveTables, TypeOK
  <2>3. \A d \in Conns : lastSeenSeq'[d] >= lastSeenSeq[d]
    BY <1>0, SeqForward
  <2> QED
    BY <1>0, <2>1, <2>2, <2>3 DEF LoopFresh, LoopFree
<1>6. ASSUME NEW c \in Conns, NEW q \in Seqs, NEW b \in Batches,
             RoomBatchJoin(c, b, q)
      PROVE Goal
  <2>1. c \in connections
    BY <1>6 DEF RoomBatchJoin, Accepted, TablesInv, Started
  <2> QED
    BY <1>0, <1>6, <1>a, <2>1, RoomCount DEF RoomBatchJoin, Accepted, tables, LoopFresh,
       NoGhostMembers, RoomLimit
<1>7. CASE BatchSkip
  <2>1. /\ running'.conn = running.conn /\ running'.seq = running.seq
        /\ running'.count = running.count /\ running'.added = running.added
    BY <1>0, <1>7, RunningTask DEF BatchSkip, Task
  <2> QED
    BY <1>0, <1>7, <1>a, <2>1 DEF BatchSkip, tables, LoopFresh, NoGhostMembers, RoomLimit
<1>8. CASE BatchBreak
  <2>1. /\ running'.conn = running.conn /\ running'.seq = running.seq
        /\ running'.count = running.count /\ running'.added = running.added
    BY <1>0, <1>8, RunningTask DEF BatchBreak, Task
  <2> QED
    BY <1>0, <1>8, <1>a, <2>1 DEF BatchBreak, tables, LoopFresh, NoGhostMembers, RoomLimit
<1>9. CASE BatchJoinOne
  <2> USE <1>9 DEF BatchJoinOne
  <2> DEFINE c == running.conn
             r == Head(running.todo)
             n == IF r \notin rooms[c] THEN running.added + 1 ELSE running.added
  <2>1. /\ c \in Conns /\ running.count \in Nat /\ running.added \in Nat
        /\ r \in Rooms /\ ~LoopFree
    BY <1>0, RunningTask DEF Task
  <2>2. running' = [running EXCEPT !.todo = Tail(running.todo), !.added = n]
    OBVIOUS
  <2>3. /\ running'.conn = c /\ running'.seq = running.seq
        /\ running'.count = running.count /\ running'.added = n
    BY <1>0, <2>1, <2>2, RunningTask DEF Task
  <2>4. rooms'[c] = rooms[c] \cup {r} /\ \A d \in Conns \ {c} : rooms'[d] = rooms[d]
    BY <1>0, <2>1 DEF JoinTables, TypeOK
  <2>a. /\ r \notin rooms[c] =>
             Cardinality(rooms[c] \cup {r}) = Cardinality(rooms[c]) + 1
        /\ r \in rooms[c] =>
             Cardinality(rooms[c] \cup {r}) = Cardinality(rooms[c])
    BY <1>0, <2>1, RoomCountStep
  <2>b. Cardinality(rooms[c]) = running.count + running.added
    BY <2>1 DEF LoopFresh
  <2>5. Cardinality(rooms'[c]) = running.count + n
    BY <2>1, <2>4, <2>a, <2>b
  <2>6. Cardinality(rooms'[c]) <= MaxRooms
    <3>1. r \notin rooms[c] => running.count + running.added < MaxRooms
      BY <2>1, MembershipAssumption DEF BatchFull
    <3>2. Cardinality(rooms[c]) <= MaxRooms
      BY <2>1 DEF RoomLimit
    <3> QED
      BY <2>1, <2>5, <2>b, <3>1, <3>2, MembershipAssumption
  <2>7. RoomLimit'
    BY <2>1, <2>4, <2>6 DEF RoomLimit
  <2>8. NoGhostMembers'
    BY <1>0, <2>1 DEF LoopFresh, NoGhostMembers, JoinTables, TypeOK
  <2>9. LoopFresh'
    BY <2>1, <2>3, <2>5 DEF LoopFresh
  <2>10. \A d \in Conns : lastSeenSeq'[d] >= lastSeenSeq[d]
    BY <1>a
  <2> QED
    BY <1>0, <2>7, <2>8, <2>9, <2>10
<1>10. CASE BatchEnd
  <2>1. running.conn \in Conns /\ running.seq \in Seqs
    BY <1>0, <1>10, RunningTask DEF BatchEnd, Task
  <2>2. \A d \in Conns : lastSeenSeq'[d] >= lastSeenSeq[d]
    BY <1>0, <1>10, <1>a, <1>b, <2>1 DEF BatchEnd, SetSeq, LoopFresh, TypeOK
  <2> QED
    BY <1>0, <1>10, <2>2 DEF BatchEnd, tables, LoopFresh, LoopFree, NoGhostMembers, RoomLimit
<1>11. CASE Resume
  BY <1>11 DEF Resume
<1>12. CASE UNCHANGED vars
  BY <1>0, <1>12, <1>a DEF vars, LoopFresh, LoopFree, NoGhostMembers, RoomLimit
<1> QED
  BY <1>1, <1>2, <1>3, <1>4, <1>5, <1>6, <1>7, <1>8, <1>9, <1>10, <1>11, <1>12
  DEF Next

\* On a node without presence no room keeps a connection that is gone and no
\* connection is in more rooms than maxRoomsPerConnection.
THEOREM SyncSafe ==
  ASSUME ~PresenceEnabled PROVE Spec => [](NoGhostMembers /\ RoomLimit)
<1>1. SyncInv /\ [Next]_vars => SyncInv'
  BY NextSync
<1>2. SyncInv => NoGhostMembers /\ RoomLimit
  BY DEF SyncInv
<1> QED
  BY <1>1, <1>2, InitSync, PTL DEF Spec

\* On a node without presence the last seen sequence number of a connection
\* never goes back.
THEOREM SyncSeqMonotonic ==
  ASSUME ~PresenceEnabled PROVE Spec => LastSeenMonotonic
<1>1. SyncInv /\ [Next]_vars => SyncInv'
  BY NextSync
<1>2. SyncInv /\ [Next]_vars =>
        [\A c \in Conns : lastSeenSeq'[c] >= lastSeenSeq[c]]_vars
  BY NextSync
<1> QED
  BY <1>1, <1>2, InitSync, PTL DEF Spec, LastSeenMonotonic
=============================================================================

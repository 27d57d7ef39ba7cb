----------------------------- MODULE RosterProofs -----------------------------
(***************************************************************************)
(* Proofs about RoomRoster: for every number of nodes, users, connections, *)
(* rooms, batches, failures and crashes, who is in the roster of a room    *)
(* and who is told of a user's presence.                                   *)
(***************************************************************************)
EXTENDS RoomRoster, SequenceTheorems, TLAPS

-----------------------------------------------------------------------------
(***************************************************************************)
(* The commands of a node, and what holds whatever fails                   *)
(***************************************************************************)

RoomOps == {"join", "batch", "leave", "roster", "register", "remove", "count", "publish"}
RoomCommand == [op : RoomOps, conn : Conns, user : Users, rooms : Seq(Rooms) \cup SUBSET Rooms]

\* A command of node n, with connections in stages st and users that were in rooms
\* as wi says: it belongs to a connection of n that was opened, and names rooms as its
\* operation needs them.
WellFormed(n, k, st, wi) ==
  /\ NodeOf[k.conn] = n /\ k.user = UserOf[k.conn] /\ st[k.conn] # "new"
  /\ k.op \in {"join", "batch"} => k.rooms \in Seq(Rooms) /\ k.rooms # <<>>
  /\ k.op \in {"leave", "roster"} => \E r \in Rooms : k.rooms = <<r>>
  /\ k.op = "remove" => st[k.conn] = "gone"
  /\ k.op = "publish" => k.rooms \subseteq Rooms /\ \A r \in k.rooms : k.user \in wi[r]

Fit(n, q, st, wi) ==
  q \in Seq(RoomCommand) /\ \A i \in DOMAIN q : WellFormed(n, q[i], st, wi)

RosterTyped ==
  /\ phase \in [Conns -> {"new", "open", "gone"}]
  /\ joined \in [Conns -> SUBSET Rooms]
  /\ lease \subseteq Conns
  /\ members \in [Rooms -> SUBSET Users]
  /\ removedBy \in [Rooms -> [Users -> Nodes \cup {"none"}]]
  /\ wasIn \in [Rooms -> SUBSET Users]
  /\ failed \in BOOLEAN
  /\ commands \in [Nodes -> Seq(RoomCommand)]
  /\ \A n \in Nodes : Fit(n, commands[n], phase, wasIn)

\* What is remembered of the rooms a connection is in.
RoomsKnown ==
  \A c \in Conns : /\ phase[c] = "new" => joined[c] = {}
                   /\ \A r \in joined[c] : UserOf[c] \in wasIn[r]

RosterBase == RosterTyped /\ RoomsKnown /\ PresenceScoped

\* What the constants give of each connection.
LEMMA RosterConstants ==
  /\ NodeOf \in [Conns -> Nodes] /\ UserOf \in [Conns -> Users]
  /\ Established \subseteq Conns /\ Batches \subseteq Seq(Rooms) \ {<<>>}
  BY RosterAssumption

\* A command that is sent joins the end of its node's queue.
LEMMA FitAppend ==
  ASSUME NEW n, NEW st, NEW wi, NEW q, Fit(n, q, st, wi), NEW x \in RoomCommand,
         WellFormed(n, x, st, wi)
  PROVE  Fit(n, Append(q, x), st, wi)
<1>1. q \in Seq(RoomCommand) /\ DOMAIN q = 1..Len(q)
  BY DEF Fit
<1>2. /\ Append(q, x) \in Seq(RoomCommand) /\ DOMAIN Append(q, x) = 1..Len(q) + 1
      /\ \A i \in 1..Len(q) : Append(q, x)[i] = q[i]
      /\ Append(q, x)[Len(q) + 1] = x
  BY <1>1, AppendProperties
<1>3. Len(q) \in Nat
  BY <1>1
<1>4. \A i \in DOMAIN Append(q, x) : i \in DOMAIN q \/ i = Len(q) + 1
  BY <1>1, <1>2, <1>3
<1>5. ASSUME NEW i \in DOMAIN Append(q, x) PROVE WellFormed(n, Append(q, x)[i], st, wi)
  <2>1. CASE i \in DOMAIN q
    <3>1. WellFormed(n, q[i], st, wi) /\ Append(q, x)[i] = q[i]
      BY <1>1, <1>2, <2>1 DEF Fit
    <3> QED
      BY <3>1
  <2>2. CASE i = Len(q) + 1
    BY <1>2, <2>2
  <2> QED
    BY <1>4, <1>5, <2>1, <2>2
<1> QED
  BY <1>2, <1>5 DEF Fit

\* The oldest command is taken out of the queue.
LEMMA FitTail ==
  ASSUME NEW n, NEW st, NEW wi, NEW q, Fit(n, q, st, wi), q # <<>>
  PROVE  /\ Fit(n, Tail(q), st, wi)
         /\ Head(q) \in RoomCommand /\ WellFormed(n, Head(q), st, wi)
<1>1. q \in Seq(RoomCommand) /\ DOMAIN q = 1..Len(q) /\ Len(q) \in Nat /\ Len(q) > 0
  BY DEF Fit
<1>2. /\ Tail(q) \in Seq(RoomCommand) /\ DOMAIN Tail(q) = 1..(Len(q) - 1)
      /\ \A i \in 1..(Len(q) - 1) : Tail(q)[i] = q[i + 1]
      /\ Head(q) = q[1] /\ Head(q) \in RoomCommand
  BY <1>1, HeadTailProperties
<1>3. ASSUME NEW i \in DOMAIN Tail(q) PROVE WellFormed(n, Tail(q)[i], st, wi)
  <2>1. i + 1 \in DOMAIN q /\ Tail(q)[i] = q[i + 1]
    BY <1>1, <1>2
  <2>2. WellFormed(n, q[i + 1], st, wi)
    BY <2>1 DEF Fit
  <2> QED
    BY <2>1, <2>2
<1>4. 1 \in DOMAIN q
  BY <1>1
<1> QED
  BY <1>2, <1>3, <1>4 DEF Fit

\* Connections open and close for good, and users are remembered.
Later(st, stNext, wi, wiNext) ==
  /\ \A c \in Conns : /\ st[c] # "new" => stNext[c] # "new"
                      /\ st[c] = "gone" => stNext[c] = "gone"
  /\ \A r \in Rooms : wi[r] \subseteq wiNext[r]

\* A queue stays as it has to be when connections and users go on.
LEMMA FitLater ==
  ASSUME NEW n, NEW q, NEW st, NEW stNext, NEW wi, NEW wiNext,
         Fit(n, q, st, wi), Later(st, stNext, wi, wiNext)
  PROVE  Fit(n, q, stNext, wiNext)
<1>1. \A k \in RoomCommand : WellFormed(n, k, st, wi) => WellFormed(n, k, stNext, wiNext)
  <2> SUFFICES ASSUME NEW k \in RoomCommand, WellFormed(n, k, st, wi)
               PROVE  WellFormed(n, k, stNext, wiNext)
    OBVIOUS
  <2>1. k.conn \in Conns
    BY DEF RoomCommand
  <2> QED
    BY <2>1 DEF WellFormed, Later
<1>2. q \in Seq(RoomCommand) /\ \A i \in DOMAIN q : q[i] \in RoomCommand
  BY DEF Fit
<1> QED
  BY <1>1, <1>2 DEF Fit

\* The node's queue becomes q, and the others stay.
LEMMA QueueBecomes ==
  ASSUME RosterTyped, NEW n \in Nodes, NEW q, commands' = [commands EXCEPT ![n] = q],
         NEW st, NEW wi, Later(phase, st, wasIn, wi), Fit(n, q, st, wi)
  PROVE  /\ commands' \in [Nodes -> Seq(RoomCommand)]
         /\ \A m \in Nodes : Fit(m, commands'[m], st, wi)
<1>1. q \in Seq(RoomCommand)
  BY DEF Fit
<1>2. commands' \in [Nodes -> Seq(RoomCommand)] /\ commands'[n] = q
  BY <1>1 DEF RosterTyped
<1>3. ASSUME NEW m \in Nodes, m # n PROVE Fit(m, commands'[m], st, wi)
  <2>1. commands'[m] = commands[m] /\ Fit(m, commands[m], phase, wasIn)
    BY <1>3 DEF RosterTyped
  <2> QED
    BY <2>1, FitLater
<1> QED
  BY <1>2, <1>3

\* The rooms a batch has still to join.
LEMMA RoomsFirst ==
  ASSUME NEW r \in Rooms, NEW s \in Seq(Rooms)
  PROVE  /\ <<r>> \o s \in Seq(Rooms) /\ <<r>> \o s # <<>> /\ Head(<<r>> \o s) = r
         /\ \A i \in DOMAIN s : \E j \in DOMAIN (<<r>> \o s) : (<<r>> \o s)[j] = s[i]
         /\ 1 \in DOMAIN (<<r>> \o s) /\ (<<r>> \o s)[1] = r
<1> DEFINE t == <<r>> \o s
<1>1. <<r>> \in Seq(Rooms) /\ Len(<<r>>) = 1 /\ <<r>>[1] = r /\ Len(s) \in Nat
  OBVIOUS
<1>2. /\ t \in Seq(Rooms) /\ Len(t) = 1 + Len(s)
      /\ \A i \in 1..1 + Len(s) : t[i] = IF i <= 1 THEN <<r>>[i] ELSE s[i - 1]
  BY <1>1, ConcatProperties
<1> HIDE DEF t
<1>3. 1 \in DOMAIN t /\ t[1] = r /\ DOMAIN t = 1..1 + Len(s)
  BY <1>1, <1>2
<1>4. t # <<>> /\ Head(t) = r
  BY <1>1, <1>2, <1>3
<1>5. ASSUME NEW i \in DOMAIN s PROVE \E j \in DOMAIN t : t[j] = s[i]
  <2>1. i \in 1..Len(s)
    OBVIOUS
  <2>2. i + 1 \in DOMAIN t /\ t[i + 1] = s[i]
    BY <1>1, <1>2, <1>3, <2>1
  <2> QED
    BY <2>2
<1> QED
  BY <1>2, <1>3, <1>4, <1>5 DEF t

\* A list that ends after its first room is a list of one room.
LEMMA OneRoom ==
  ASSUME NEW s \in Seq(Rooms), s # <<>>, Tail(s) = <<>>
  PROVE  s = <<Head(s)>> /\ Head(s) \in Rooms
<1>1. Len(s) \in Nat /\ Len(s) > 0 /\ Len(Tail(s)) = Len(s) - 1 /\ Head(s) = s[1] /\ Len(<<>>) = 0
      /\ Head(s) \in Rooms
  BY HeadTailProperties, EmptySeq
<1>2. Len(s) = 1
  <2>1. Len(s) - 1 = 0
    BY <1>1
  <2> QED
    BY <1>1, <2>1
<1>3. <<Head(s)>> \in Seq(Rooms) /\ Len(<<Head(s)>>) = 1 /\ <<Head(s)>>[1] = Head(s)
  BY <1>1
<1> QED
  BY <1>1, <1>2, <1>3, SeqEqual

\* What stays of the types when a queue changes.
LEMMA TypedAfter ==
  ASSUME RosterTyped, NEW n \in Nodes, NEW q, commands' = [commands EXCEPT ![n] = q],
         phase' \in [Conns -> {"new", "open", "gone"}],
         joined' \in [Conns -> SUBSET Rooms], lease' \subseteq Conns,
         members' \in [Rooms -> SUBSET Users],
         removedBy' \in [Rooms -> [Users -> Nodes \cup {"none"}]],
         wasIn' \in [Rooms -> SUBSET Users], failed' \in BOOLEAN,
         Later(phase, phase', wasIn, wasIn'), Fit(n, q, phase', wasIn')
  PROVE  RosterTyped'
<1>1. /\ commands' \in [Nodes -> Seq(RoomCommand)]
      /\ \A m \in Nodes : Fit(m, commands'[m], phase', wasIn')
  BY QueueBecomes
<1> QED
  BY <1>1 DEF RosterTyped, RoomCommand

\* The first command of a queue, and what is left without it.
LEMMA FirstOf ==
  ASSUME RosterTyped, NEW n \in Nodes, commands[n] # <<>>
  PROVE  /\ Fit(n, Tail(commands[n]), phase, wasIn)
         /\ Head(commands[n]) \in RoomCommand
         /\ WellFormed(n, Head(commands[n]), phase, wasIn)
         /\ Head(commands[n]).conn \in Conns /\ Head(commands[n]).user \in Users
         /\ Head(commands[n]).op \in RoomOps
<1>1. Fit(n, commands[n], phase, wasIn)
  BY DEF RosterTyped
<1>2. Head(commands[n]) \in RoomCommand /\ Fit(n, Tail(commands[n]), phase, wasIn)
      /\ WellFormed(n, Head(commands[n]), phase, wasIn)
  BY <1>1, FitTail
<1> QED
  BY <1>2 DEF RoomCommand

\* After the reply to addRoomMember: a batch joins its next room, a join reads the
\* roster, and the last room of a batch is the end of it.
Continues(n, k) ==
  \/ \E x \in RoomCommand :
       /\ x.op = "batch" /\ x.conn = k.conn /\ x.user = k.user
       /\ x.rooms \in Seq(Rooms) /\ x.rooms # <<>> /\ Head(x.rooms) \in Rooms
       /\ \A i \in DOMAIN Tail(k.rooms) : \E j \in DOMAIN x.rooms : x.rooms[j] = Tail(k.rooms)[i]
       /\ commands' = [commands EXCEPT ![n] = Append(Tail(commands[n]), x)]
       /\ joined' = [joined EXCEPT ![k.conn] = joined[k.conn] \cup {Head(x.rooms)}]
       /\ wasIn' = [wasIn EXCEPT ![Head(x.rooms)] = wasIn[Head(x.rooms)] \cup {k.user}]
  \/ /\ Tail(k.rooms) = <<>> /\ joined' = joined /\ wasIn' = wasIn
     /\ \/ commands' = [commands EXCEPT ![n] = Tail(commands[n])]
        \/ \E x \in RoomCommand :
             /\ x.op = "roster" /\ x.conn = k.conn /\ x.user = k.user
             /\ x.rooms = k.rooms /\ x.rooms = <<Head(k.rooms)>> /\ Head(k.rooms) \in Rooms
             /\ commands' = [commands EXCEPT ![n] = Append(Tail(commands[n]), x)]

\* AfterAdd does one of these.
LEMMA AddContinues ==
  ASSUME RosterTyped, NEW n \in Nodes, commands[n] # <<>>,
         Head(commands[n]).op \in {"join", "batch"}, AfterAdd(n, Head(commands[n]))
  PROVE  Continues(n, Head(commands[n]))
<1> DEFINE k == Head(commands[n])
           next == Tail(k.rooms)
<1>1. /\ k.conn \in Conns /\ k.user \in Users /\ k.rooms \in Seq(Rooms) /\ k.rooms # <<>>
      /\ NodeOf[k.conn] = n /\ k.user = UserOf[k.conn]
  BY FirstOf DEF WellFormed
<1>2. next \in Seq(Rooms) /\ Head(k.rooms) \in Rooms /\ Len(next) = Len(k.rooms) - 1
  BY <1>1
<1>3. AfterAdd(n, k)
  OBVIOUS
<1>4. CASE next # <<>>
  <2> DEFINE r == Head(next)
             x == Cmd("batch", k.conn, UserOf[k.conn], <<r>> \o Tail(next))
  <2>1. r \in Rooms /\ Tail(next) \in Seq(Rooms) /\ DOMAIN next = 1..Len(next)
        /\ next[1] = r /\ DOMAIN Tail(next) = 1..(Len(next) - 1) /\ Len(next) \in Nat
        /\ \A i \in 1..(Len(next) - 1) : Tail(next)[i] = next[i + 1]
    <3> HIDE DEF next, k
    <3> QED
      BY <1>2, <1>4, HeadTailProperties
  <2>2. /\ x.op = "batch" /\ x.conn = k.conn /\ x.user = k.user
        /\ x.rooms = <<r>> \o Tail(next)
    BY <1>1 DEF Cmd
  <2>3. /\ x.rooms \in Seq(Rooms) /\ x.rooms # <<>> /\ Head(x.rooms) = r
        /\ \A i \in DOMAIN Tail(next) : \E j \in DOMAIN x.rooms : x.rooms[j] = Tail(next)[i]
        /\ \E j \in DOMAIN x.rooms : x.rooms[j] = r
    <3> HIDE DEF x, r, next
    <3>1. /\ (<<r>> \o Tail(next)) \in Seq(Rooms) /\ (<<r>> \o Tail(next)) # <<>>
          /\ Head(<<r>> \o Tail(next)) = r
          /\ \A i \in DOMAIN Tail(next) :
               \E j \in DOMAIN (<<r>> \o Tail(next)) : (<<r>> \o Tail(next))[j] = Tail(next)[i]
          /\ 1 \in DOMAIN (<<r>> \o Tail(next)) /\ (<<r>> \o Tail(next))[1] = r
      BY <2>1, RoomsFirst
    <3> QED
      BY <2>2, <3>1
  <2>4. x \in RoomCommand
    BY <1>1, <2>2, <2>3 DEF Cmd, RoomCommand, RoomOps
  <2>5. /\ commands' = [commands EXCEPT ![n] = Append(Tail(commands[n]), x)]
        /\ joined' = [joined EXCEPT ![k.conn] = joined[k.conn] \cup {r}]
        /\ wasIn' = [wasIn EXCEPT ![r] = wasIn[r] \cup {k.user}]
    BY <1>1, <1>3, <1>4 DEF AfterAdd, Joining, Rest
  <2>6. ASSUME NEW i \in DOMAIN next PROVE \E j \in DOMAIN x.rooms : x.rooms[j] = next[i]
    <3>1. CASE i = 1
      BY <2>1, <2>3, <3>1
    <3>2. CASE i # 1
      <4>1. i - 1 \in DOMAIN Tail(next) /\ (i - 1) + 1 = i
        BY <2>1, <3>2
      <4>2. Tail(next)[i - 1] = next[i]
        BY <2>1, <4>1
      <4> QED
        BY <2>3, <4>1, <4>2
    <3> QED
      BY <3>1, <3>2
  <2> HIDE DEF x, r, next, k
  <2>7. Continues(n, k)
    <3>1. next = Tail(k.rooms)
      BY DEF next
    <3> QED
      BY <2>1, <2>2, <2>3, <2>4, <2>5, <2>6, <3>1 DEF Continues
  <2> QED
    BY <2>7 DEF k
<1>5. CASE next = <<>>
  <2> DEFINE r == Head(k.rooms)
             x == Cmd("roster", k.conn, k.user, k.rooms)
  <2>1. k.rooms = <<r>>
    <3> HIDE DEF k
    <3> QED
      BY <1>1, <1>5, OneRoom
  <2>2. /\ x.op = "roster" /\ x.conn = k.conn /\ x.user = k.user /\ x.rooms = k.rooms
        /\ x \in RoomCommand
    BY <1>1 DEF Cmd, RoomCommand, RoomOps
  <2>3. /\ joined' = joined /\ wasIn' = wasIn
        /\ \/ commands' = [commands EXCEPT ![n] = Tail(commands[n])]
           \/ commands' = [commands EXCEPT ![n] = Append(Tail(commands[n]), x)]
    BY <1>3, <1>5 DEF AfterAdd, Becomes, Rest
  <2> HIDE DEF x, r
  <2>4. r = Head(k.rooms)
    BY DEF r
  <2> HIDE DEF k
  <2>5. Continues(n, k)
    BY <1>2, <1>5, <2>1, <2>2, <2>3, <2>4 DEF Continues
  <2> QED
    BY <2>5 DEF k
<1> QED
  BY <1>4, <1>5

\* A connection joins a room, alone or as the first of a batch.
Joins(c) ==
  /\ phase[c] = "open"
  /\ \E x \in RoomCommand :
       /\ x.op \in {"join", "batch"} /\ x.conn = c /\ x.user = UserOf[c]
       /\ x.rooms \in Seq(Rooms) /\ x.rooms # <<>> /\ Head(x.rooms) \in Rooms
       /\ commands' = [commands EXCEPT ![NodeOf[c]] = Append(commands[NodeOf[c]], x)]
       /\ joined' = [joined EXCEPT ![c] = joined[c] \cup {Head(x.rooms)}]
       /\ wasIn' = [wasIn EXCEPT ![Head(x.rooms)] = wasIn[Head(x.rooms)] \cup {UserOf[c]}]
  /\ UNCHANGED <<phase, lease, members, removedBy, failed>>
  /\ told' = Nobody

\* Both join requests do this.
LEMMA JoinEffect ==
  ASSUME NEW c \in Conns,
         \/ \E r \in Rooms : RoomJoin(c, r)
         \/ \E b \in Batches : RoomBatchJoin(c, b)
  PROVE  Joins(c)
<1>0. UserOf[c] \in Users /\ Batches \subseteq Seq(Rooms) \ {<<>>}
  BY RosterConstants
<1>1. ASSUME NEW r \in Rooms, NEW s \in Seq(Rooms), NEW o \in {"join", "batch"},
             Joining(c, r, commands[NodeOf[c]], o, s)
      PROVE  \E x \in RoomCommand :
               /\ x.op \in {"join", "batch"} /\ x.conn = c /\ x.user = UserOf[c]
               /\ x.rooms \in Seq(Rooms) /\ x.rooms # <<>> /\ Head(x.rooms) \in Rooms
               /\ commands' = [commands EXCEPT ![NodeOf[c]] = Append(commands[NodeOf[c]], x)]
               /\ joined' = [joined EXCEPT ![c] = joined[c] \cup {Head(x.rooms)}]
               /\ wasIn' = [wasIn EXCEPT ![Head(x.rooms)] = wasIn[Head(x.rooms)] \cup {UserOf[c]}]
  <2> DEFINE t == <<r>> \o s
             x == Cmd(o, c, UserOf[c], t)
  <2>1. t \in Seq(Rooms) /\ t # <<>> /\ Head(t) = r
    BY RoomsFirst
  <2>2. /\ commands' = [commands EXCEPT ![NodeOf[c]] = Append(commands[NodeOf[c]], x)]
        /\ joined' = [joined EXCEPT ![c] = joined[c] \cup {r}]
        /\ wasIn' = [wasIn EXCEPT ![r] = wasIn[r] \cup {UserOf[c]}]
    BY <1>1 DEF Joining
  <2> HIDE DEF t
  <2>3. /\ x.op = o /\ x.conn = c /\ x.user = UserOf[c] /\ x.rooms = t
        /\ x \in RoomCommand
    BY <1>0, <2>1 DEF Cmd, RoomCommand, RoomOps
  <2> HIDE DEF x
  <2>4. Head(x.rooms) = r /\ x.rooms \in Seq(Rooms) /\ x.rooms # <<>>
    BY <2>1, <2>3
  <2> QED
    BY <2>2, <2>3, <2>4
<1>2. ASSUME NEW r \in Rooms, RoomJoin(c, r) PROVE Joins(c)
  <2>1. Joining(c, r, commands[NodeOf[c]], "join", <<>>) /\ <<>> \in Seq(Rooms)
    BY <1>2 DEF RoomJoin
  <2>2. /\ phase[c] = "open" /\ told' = Nobody
        /\ UNCHANGED <<phase, lease, members, removedBy, failed>>
    BY <1>2 DEF RoomJoin, Takes, redis
  <2> QED
    BY <1>1, <2>1, <2>2 DEF Joins
<1>3. ASSUME NEW b \in Batches, RoomBatchJoin(c, b) PROVE Joins(c)
  <2>1. Joining(c, Head(b), commands[NodeOf[c]], "batch", Tail(b))
        /\ Head(b) \in Rooms /\ Tail(b) \in Seq(Rooms)
    <3>1. b \in Seq(Rooms) /\ b # <<>>
      BY <1>0
    <3> QED
      BY <1>3, <3>1, HeadTailProperties DEF RoomBatchJoin
  <2>2. /\ phase[c] = "open" /\ told' = Nobody
        /\ UNCHANGED <<phase, lease, members, removedBy, failed>>
    BY <1>3 DEF RoomBatchJoin, Takes, redis
  <2> QED
    BY <1>1, <2>1, <2>2 DEF Joins
<1> QED
  BY <1>2, <1>3

\* The commands of the other requests.
LEMMA RequestCommands ==
  ASSUME NEW c \in Conns
  PROVE  /\ \A o \in {"register", "remove", "count"} :
              LET x == Cmd(o, c, UserOf[c], <<>>)
              IN x \in RoomCommand /\ x.op = o /\ x.conn = c /\ x.user = UserOf[c]
         /\ \A r \in Rooms :
              LET x == Cmd("leave", c, UserOf[c], <<r>>)
              IN /\ x \in RoomCommand /\ x.op = "leave" /\ x.conn = c /\ x.user = UserOf[c]
                 /\ x.rooms = <<r>>
         /\ \A rs \in SUBSET Rooms :
              LET x == Cmd("publish", c, UserOf[c], rs)
              IN /\ x \in RoomCommand /\ x.op = "publish" /\ x.conn = c /\ x.user = UserOf[c]
                 /\ x.rooms = rs
<1>1. UserOf[c] \in Users /\ <<>> \in Seq(Rooms) /\ \A r \in Rooms : <<r>> \in Seq(Rooms)
  BY RosterConstants
<1> QED
  BY <1>1 DEF Cmd, RoomCommand, RoomOps

\* Requests, and the events of connections and nodes, keep the base.
LEMMA JoinBase ==
  ASSUME RosterBase, NEW c \in Conns, Joins(c)
  PROVE  RosterBase'
<1>0. RosterTyped /\ RoomsKnown /\ NodeOf[c] \in Nodes /\ UserOf[c] \in Users
  BY RosterConstants DEF RosterBase
<1>1. PICK x \in RoomCommand :
       /\ x.op \in {"join", "batch"} /\ x.conn = c /\ x.user = UserOf[c]
       /\ x.rooms \in Seq(Rooms) /\ x.rooms # <<>> /\ Head(x.rooms) \in Rooms
       /\ commands' = [commands EXCEPT ![NodeOf[c]] = Append(commands[NodeOf[c]], x)]
       /\ joined' = [joined EXCEPT ![c] = joined[c] \cup {Head(x.rooms)}]
       /\ wasIn' = [wasIn EXCEPT ![Head(x.rooms)] = wasIn[Head(x.rooms)] \cup {UserOf[c]}]
  BY DEF Joins
<1>2. phase[c] = "open" /\ UNCHANGED <<phase, lease, members, removedBy, failed>>
      /\ told' = Nobody
  BY DEF Joins
<1>3. /\ joined' \in [Conns -> SUBSET Rooms] /\ wasIn' \in [Rooms -> SUBSET Users]
      /\ Later(phase, phase', wasIn, wasIn')
  BY <1>0, <1>1, <1>2 DEF RosterTyped, Later
<1>4. Fit(NodeOf[c], Append(commands[NodeOf[c]], x), phase', wasIn')
  <2>1. Fit(NodeOf[c], commands[NodeOf[c]], phase', wasIn')
    BY <1>0, <1>3, FitLater DEF RosterTyped
  <2>2. WellFormed(NodeOf[c], x, phase', wasIn')
    BY <1>1, <1>2 DEF WellFormed
  <2> QED
    BY <2>1, <2>2, FitAppend
<1>5. RosterTyped'
  BY <1>0, <1>1, <1>2, <1>3, <1>4, TypedAfter DEF RosterTyped
<1>6. RoomsKnown'
  BY <1>0, <1>1, <1>2 DEF RosterTyped, RoomsKnown
<1>7. PresenceScoped'
  BY <1>2 DEF PresenceScoped, Nobody
<1> QED
  BY <1>5, <1>6, <1>7 DEF RosterBase

\* The other requests, and what happens to leases, keep the base.
LEMMA RequestBase ==
  ASSUME RosterBase, NEW c \in Conns,
         \/ Open(c) \/ Close(c) \/ Expire(c) \/ Renewal(c)
         \/ \E r \in Rooms : RoomLeave(c, r)
  PROVE  RosterBase'
<1>0. RosterTyped /\ RoomsKnown /\ NodeOf[c] \in Nodes /\ UserOf[c] \in Users
  BY RosterConstants DEF RosterBase
<1>1. told' = Nobody /\ wasIn' = wasIn /\ failed' = failed /\ members' = members
      /\ removedBy' = removedBy
  BY DEF Open, Close, Expire, Renewal, RoomLeave, local, redis, counters
<1>2. PresenceScoped'
  BY <1>1 DEF PresenceScoped, Nobody
<1>3. Fit(NodeOf[c], commands[NodeOf[c]], phase, wasIn)
  BY <1>0 DEF RosterTyped
<1>4. ASSUME NEW x \in RoomCommand,
             commands' = [commands EXCEPT ![NodeOf[c]] = Append(commands[NodeOf[c]], x)],
             phase' \in [Conns -> {"new", "open", "gone"}],
             joined' \in [Conns -> SUBSET Rooms], lease' \subseteq Conns,
             Later(phase, phase', wasIn, wasIn'), WellFormed(NodeOf[c], x, phase', wasIn')
      PROVE  RosterTyped'
  <2>1. Fit(NodeOf[c], Append(commands[NodeOf[c]], x), phase', wasIn')
    BY <1>3, <1>4, FitLater, FitAppend
  <2> QED
    BY <1>0, <1>1, <1>4, <2>1, TypedAfter DEF RosterTyped
<1>5. ASSUME commands' = commands, phase' = phase, joined' \in [Conns -> SUBSET Rooms],
             lease' \subseteq Conns
      PROVE  RosterTyped'
  BY <1>0, <1>1, <1>5 DEF RosterTyped, RoomCommand
<1>6. CASE Open(c)
  <2> DEFINE x == Cmd("register", c, UserOf[c], <<>>)
  <2>1. /\ phase[c] = "new" /\ phase' = [phase EXCEPT ![c] = "open"] /\ joined' = joined
        /\ lease' = lease
        /\ commands' = [commands EXCEPT ![NodeOf[c]] = Append(commands[NodeOf[c]], x)]
    BY <1>6 DEF Open, Send, redis
  <2>2. x \in RoomCommand /\ x.op = "register" /\ x.conn = c /\ x.user = UserOf[c]
    BY RequestCommands
  <2> HIDE DEF x
  <2>3. /\ phase' \in [Conns -> {"new", "open", "gone"}] /\ phase'[c] = "open"
        /\ Later(phase, phase', wasIn, wasIn')
    BY <1>0, <1>1, <2>1 DEF RosterTyped, Later
  <2>4. WellFormed(NodeOf[c], x, phase', wasIn')
    BY <2>2, <2>3 DEF WellFormed
  <2>5. RosterTyped'
    BY <1>0, <1>4, <2>1, <2>2, <2>3, <2>4 DEF RosterTyped
  <2>6. RoomsKnown'
    BY <1>0, <1>1, <2>1 DEF RosterTyped, RoomsKnown
  <2> QED
    BY <1>2, <2>5, <2>6 DEF RosterBase
<1>7. CASE Close(c)
  <2> DEFINE x == Cmd("remove", c, UserOf[c], <<>>)
  <2>1. /\ phase[c] = "open" /\ phase' = [phase EXCEPT ![c] = "gone"]
        /\ joined' = [joined EXCEPT ![c] = {}] /\ lease' = lease
        /\ commands' = [commands EXCEPT ![NodeOf[c]] = Append(commands[NodeOf[c]], x)]
    BY <1>7 DEF Close, Send, redis
  <2>2. x \in RoomCommand /\ x.op = "remove" /\ x.conn = c /\ x.user = UserOf[c]
    BY RequestCommands
  <2> HIDE DEF x
  <2>3. /\ phase' \in [Conns -> {"new", "open", "gone"}] /\ phase'[c] = "gone"
        /\ Later(phase, phase', wasIn, wasIn')
    BY <1>0, <1>1, <2>1 DEF RosterTyped, Later
  <2>4. WellFormed(NodeOf[c], x, phase', wasIn')
    BY <2>2, <2>3 DEF WellFormed
  <2>5. RosterTyped'
    BY <1>0, <1>4, <2>1, <2>2, <2>3, <2>4 DEF RosterTyped
  <2>6. RoomsKnown'
    BY <1>0, <1>1, <2>1 DEF RosterTyped, RoomsKnown
  <2> QED
    BY <1>2, <2>5, <2>6 DEF RosterBase
<1>8. CASE Expire(c) \/ Renewal(c)
  <2>1. commands' = commands /\ phase' = phase /\ joined' = joined /\ lease' \subseteq Conns
    BY <1>0, <1>8 DEF Expire, Renewal, local, RosterTyped
  <2>2. RosterTyped' /\ RoomsKnown'
    BY <1>0, <1>1, <1>5, <2>1 DEF RosterTyped, RoomsKnown
  <2> QED
    BY <1>2, <2>2 DEF RosterBase
<1>9. ASSUME NEW r \in Rooms, RoomLeave(c, r) PROVE RosterBase'
  <2> DEFINE x == Cmd("leave", c, UserOf[c], <<r>>)
  <2>1. /\ phase[c] = "open" /\ phase' = phase /\ lease' = lease
        /\ joined' = [joined EXCEPT ![c] = joined[c] \ {r}]
        /\ \/ commands' = commands
           \/ commands' = [commands EXCEPT ![NodeOf[c]] = Append(commands[NodeOf[c]], x)]
    BY <1>9 DEF RoomLeave, Takes, Send, redis
  <2>2. x \in RoomCommand /\ x.op = "leave" /\ x.conn = c /\ x.user = UserOf[c] /\ x.rooms = <<r>>
    BY RequestCommands
  <2> HIDE DEF x
  <2>3. WellFormed(NodeOf[c], x, phase', wasIn') /\ Later(phase, phase', wasIn, wasIn')
    BY <1>1, <2>1, <2>2 DEF WellFormed, Later
  <2>4. joined' \in [Conns -> SUBSET Rooms]
    BY <1>0, <2>1 DEF RosterTyped
  <2>5. RosterTyped'
    BY <1>0, <1>4, <1>5, <2>1, <2>2, <2>3, <2>4 DEF RosterTyped
  <2>6. RoomsKnown'
    BY <1>0, <1>1, <2>1 DEF RosterTyped, RoomsKnown
  <2> QED
    BY <1>2, <2>5, <2>6 DEF RosterBase
<1> QED
  BY <1>6, <1>7, <1>8, <1>9

\* A crash empties the node's queue and closes its connections.
LEMMA CrashBase ==
  ASSUME RosterBase, NEW n \in Nodes, Crash(n)
  PROVE  RosterBase'
<1>0. RosterTyped /\ RoomsKnown
  BY DEF RosterBase
<1>1. /\ phase' = [c \in Conns |-> IF NodeOf[c] = n THEN "gone" ELSE phase[c]]
      /\ joined' = [c \in Conns |-> IF NodeOf[c] = n THEN {} ELSE joined[c]]
      /\ commands' = [commands EXCEPT ![n] = <<>>] /\ told' = Nobody
      /\ wasIn' = wasIn /\ failed' = failed /\ UNCHANGED <<lease, members, removedBy>>
  BY DEF Crash, redis
<1>2. /\ phase' \in [Conns -> {"new", "open", "gone"}]
      /\ joined' \in [Conns -> SUBSET Rooms]
      /\ Later(phase, phase', wasIn, wasIn')
  BY <1>0, <1>1 DEF RosterTyped, Later
<1>3. Fit(n, <<>>, phase', wasIn')
  BY DEF Fit
<1>4. RosterTyped'
  BY <1>0, <1>1, <1>2, <1>3, TypedAfter DEF RosterTyped
<1>5. RoomsKnown'
  BY <1>0, <1>1 DEF RosterTyped, RoomsKnown
<1>6. PresenceScoped'
  BY <1>1 DEF PresenceScoped, Nobody
<1> QED
  BY <1>4, <1>5, <1>6 DEF RosterBase

\* What the oldest command of a node leaves behind, when the handler that sent it
\* goes on to another room, or not.
LEMMA ContinuesBase ==
  ASSUME RosterBase, NEW n \in Nodes, commands[n] # <<>>,
         Continues(n, Head(commands[n])), phase' = phase, lease' = lease,
         members' \in [Rooms -> SUBSET Users],
         removedBy' \in [Rooms -> [Users -> Nodes \cup {"none"}]],
         failed' \in BOOLEAN, told' = Nobody
  PROVE  RosterBase'
<1> DEFINE k == Head(commands[n])
<1>0. RosterTyped /\ RoomsKnown
  BY DEF RosterBase
<1>1. /\ Fit(n, Tail(commands[n]), phase, wasIn) /\ WellFormed(n, k, phase, wasIn)
      /\ k.conn \in Conns /\ k.user \in Users
  BY <1>0, FirstOf
<1>2. k.user = UserOf[k.conn] /\ NodeOf[k.conn] = n /\ phase[k.conn] # "new"
  BY <1>1 DEF WellFormed
<1>3. PresenceScoped'
  BY DEF PresenceScoped, Nobody
<1>4. Continues(n, k)
  OBVIOUS
<1> HIDE DEF k
<1>5. ASSUME NEW x \in RoomCommand,
             x.op = "batch", x.conn = k.conn, x.user = k.user,
             x.rooms \in Seq(Rooms), x.rooms # <<>>, Head(x.rooms) \in Rooms,
             commands' = [commands EXCEPT ![n] = Append(Tail(commands[n]), x)],
             joined' = [joined EXCEPT ![k.conn] = joined[k.conn] \cup {Head(x.rooms)}],
             wasIn' = [wasIn EXCEPT ![Head(x.rooms)] = wasIn[Head(x.rooms)] \cup {k.user}]
      PROVE  RosterTyped' /\ RoomsKnown'
  <2>1. /\ joined' \in [Conns -> SUBSET Rooms] /\ wasIn' \in [Rooms -> SUBSET Users]
        /\ Later(phase, phase', wasIn, wasIn')
    BY <1>0, <1>1, <1>5 DEF RosterTyped, Later
  <2>2. WellFormed(n, x, phase', wasIn')
    BY <1>2, <1>5 DEF WellFormed
  <2>3. Fit(n, Append(Tail(commands[n]), x), phase', wasIn')
    BY <1>1, <2>1, <2>2, FitLater, FitAppend
  <2>4. RosterTyped'
    BY <1>0, <1>5, <2>1, <2>3, TypedAfter DEF RosterTyped
  <2>5. RoomsKnown'
    BY <1>0, <1>1, <1>2, <1>5 DEF RosterTyped, RoomsKnown
  <2> QED
    BY <2>4, <2>5
<1>6. ASSUME joined' = joined, wasIn' = wasIn,
             \/ commands' = [commands EXCEPT ![n] = Tail(commands[n])]
             \/ \E x \in RoomCommand :
                  /\ x.op = "roster" /\ x.conn = k.conn /\ x.user = k.user
                  /\ x.rooms = k.rooms /\ x.rooms = <<Head(k.rooms)>> /\ Head(k.rooms) \in Rooms
                  /\ commands' = [commands EXCEPT ![n] = Append(Tail(commands[n]), x)]
      PROVE  RosterTyped' /\ RoomsKnown'
  <2>1. Later(phase, phase', wasIn, wasIn')
    BY <1>6 DEF Later
  <2>2. CASE commands' = [commands EXCEPT ![n] = Tail(commands[n])]
    BY <1>0, <1>1, <1>6, <2>1, <2>2, TypedAfter DEF RosterTyped, RoomsKnown
  <2>3. ASSUME NEW x \in RoomCommand,
               x.op = "roster", x.conn = k.conn, x.user = k.user,
               x.rooms = <<Head(k.rooms)>>, Head(k.rooms) \in Rooms,
               commands' = [commands EXCEPT ![n] = Append(Tail(commands[n]), x)]
        PROVE  RosterTyped' /\ RoomsKnown'
    <3>1. WellFormed(n, x, phase', wasIn')
      BY <1>2, <2>3 DEF WellFormed
    <3>2. Fit(n, Append(Tail(commands[n]), x), phase', wasIn')
      BY <1>1, <1>6, <2>3, <3>1, FitAppend
    <3> QED
      BY <1>0, <1>6, <2>1, <2>3, <3>2, TypedAfter DEF RosterTyped, RoomsKnown
  <2> QED
    BY <1>6, <2>2, <2>3
<1>7. RosterTyped' /\ RoomsKnown'
  BY <1>4, <1>5, <1>6 DEF Continues
<1> QED
  BY <1>3, <1>7 DEF RosterBase

\* The other commands: no table changes, and at most one command follows.
Replied(n, x) ==
  \/ commands' = [commands EXCEPT ![n] = Tail(commands[n])]
  \/ commands' = [commands EXCEPT ![n] = Append(Tail(commands[n]), x)]

\* It keeps the base but for the event that is delivered.
LEMMA RepliedBase ==
  ASSUME RosterBase, NEW n \in Nodes, commands[n] # <<>>,
         NEW x \in RoomCommand, WellFormed(n, x, phase, wasIn), Replied(n, x),
         phase' = phase, joined' = joined, wasIn' = wasIn, lease' \subseteq Conns,
         members' \in [Rooms -> SUBSET Users],
         removedBy' \in [Rooms -> [Users -> Nodes \cup {"none"}]], failed' \in BOOLEAN
  PROVE  RosterTyped' /\ RoomsKnown'
<1>0. RosterTyped /\ RoomsKnown
  BY DEF RosterBase
<1>1. Fit(n, Tail(commands[n]), phase, wasIn)
  BY <1>0, FirstOf
<1>2. Fit(n, Append(Tail(commands[n]), x), phase, wasIn) /\ Later(phase, phase', wasIn, wasIn')
  BY <1>1, FitAppend DEF Later
<1>3. PICK q : commands' = [commands EXCEPT ![n] = q] /\ Fit(n, q, phase', wasIn')
  BY <1>1, <1>2 DEF Replied
<1>4. RosterTyped'
  BY <1>0, <1>2, <1>3, TypedAfter DEF RosterTyped
<1> QED
  BY <1>0, <1>4 DEF RoomsKnown

\* What follows the oldest command of n when it is not about a join.
LEMMA ReplyEffect ==
  ASSUME RosterBase, NEW n \in Nodes, commands[n] # <<>>,
         Head(commands[n]).op \notin {"join", "batch"},
         \/ Becomes(n, Rest(n))
         \/ Counted(n, Head(commands[n]))
         \/ Becomes(n, Append(Rest(n),
              Cmd("count", Head(commands[n]).conn, Head(commands[n]).user, <<>>)))
  PROVE  \E x \in RoomCommand : /\ WellFormed(n, x, phase, wasIn) /\ Replied(n, x)
                                /\ x.op \in {"count", "publish"}
<1> DEFINE k == Head(commands[n])
<1>0. RosterTyped /\ RoomsKnown
  BY DEF RosterBase
<1>1. WellFormed(n, k, phase, wasIn) /\ k.conn \in Conns /\ k.user \in Users
  BY <1>0, FirstOf
<1>2. k.user = UserOf[k.conn] /\ NodeOf[k.conn] = n /\ phase[k.conn] # "new"
  BY <1>1 DEF WellFormed
<1> DEFINE c == Cmd("count", k.conn, k.user, <<>>)
           p == Cmd("publish", k.conn, k.user, RoomsOf(n, k.user))
<1>3. c \in RoomCommand /\ c.op = "count" /\ c.conn = k.conn /\ c.user = k.user
  BY <1>1, <1>2, RequestCommands
<1>4. /\ RoomsOf(n, k.user) \subseteq Rooms
      /\ \A r \in RoomsOf(n, k.user) : k.user \in wasIn[r]
  BY <1>0 DEF RoomsOf, Registered, RosterTyped, RoomsKnown
<1>5. p \in RoomCommand /\ p.op = "publish" /\ p.conn = k.conn /\ p.user = k.user
      /\ p.rooms = RoomsOf(n, k.user)
  <2>1. p.op = "publish" /\ p.conn = k.conn /\ p.user = k.user /\ p.rooms = RoomsOf(n, k.user)
        /\ p = [op |-> p.op, conn |-> p.conn, user |-> p.user, rooms |-> p.rooms]
    BY DEF Cmd
  <2> QED
    BY <1>1, <1>4, <2>1 DEF RoomCommand, RoomOps
<1>6. \/ commands' = [commands EXCEPT ![n] = Tail(commands[n])]
      \/ commands' = [commands EXCEPT ![n] = Append(Tail(commands[n]), c)]
      \/ commands' = [commands EXCEPT ![n] = Append(Tail(commands[n]), p)]
  BY DEF Becomes, Rest, Counted
<1> HIDE DEF c, p, k
<1>7. WellFormed(n, c, phase, wasIn) /\ WellFormed(n, p, phase, wasIn)
  BY <1>2, <1>3, <1>4, <1>5 DEF WellFormed
<1> QED
  BY <1>3, <1>5, <1>6, <1>7 DEF Replied

\* The oldest command of a node, executed or failed, keeps the base.
LEMMA ExecuteBase ==
  ASSUME RosterBase, NEW n \in Nodes, Execute(n) \/ Fail(n)
  PROVE  RosterBase'
<1> DEFINE k == Head(commands[n])
<1>0. commands[n] # <<>> /\ RosterTyped /\ RoomsKnown
  BY DEF Execute, Fail, RosterBase
<1>1. /\ WellFormed(n, k, phase, wasIn) /\ k.conn \in Conns /\ k.user \in Users
      /\ k.op \in RoomOps
  BY <1>0, FirstOf
<1>2. failed' \in BOOLEAN
  BY <1>0 DEF Execute, Fail, counters, RosterTyped
<1>3. CASE k.op \in {"join", "batch"}
  <2>1. k.rooms \in Seq(Rooms) /\ k.rooms # <<>>
    BY <1>1, <1>3 DEF WellFormed
  <2>2. Head(k.rooms) \in Rooms
    BY <2>1
  <2>3. AfterAdd(n, k) /\ told' = Nobody /\ phase' = phase /\ lease' = lease
        /\ members' \in [Rooms -> SUBSET Users]
        /\ removedBy' \in [Rooms -> [Users -> Nodes \cup {"none"}]]
    <3>1. CASE Execute(n)
      <4>1. Add(n, k)
        BY <1>3, <3>1 DEF Execute
      <4>2. "none" \in Nodes \cup {"none"}
        OBVIOUS
      <4> QED
        BY <1>0, <1>1, <2>2, <4>1, <4>2 DEF Add, RosterTyped, NoNode
    <3>2. CASE Fail(n)
      BY <1>0, <1>3, <3>2 DEF Fail, redis, RosterTyped
    <3> QED
      BY <3>1, <3>2
  <2>4. Continues(n, k)
    BY <1>0, <1>3, <2>3, AddContinues
  <2> QED
    BY <1>0, <1>2, <2>3, <2>4, ContinuesBase
<1>4. CASE k.op \notin {"join", "batch"}
  <2>1. /\ \/ Becomes(n, Rest(n))
           \/ Counted(n, k)
           \/ Becomes(n, Append(Rest(n), Cmd("count", k.conn, k.user, <<>>)))
        /\ phase' = phase /\ joined' = joined /\ wasIn' = wasIn
    <3>1. CASE Execute(n)
      BY <1>4, <3>1 DEF Execute, Srem, Roster, Register, Remove, Lease,
           Count, Publish, local
    <3>2. CASE Fail(n)
      BY <1>4, <3>2 DEF Fail
    <3> QED
      BY <3>1, <3>2
  <2>2. PICK x \in RoomCommand : WellFormed(n, x, phase, wasIn) /\ Replied(n, x)
    BY <1>0, <1>4, <2>1, ReplyEffect
  <2>3. k.op \in {"leave", "roster"} => Head(k.rooms) \in Rooms
    BY <1>1 DEF WellFormed
  <2>4. /\ lease' \subseteq Conns /\ members' \in [Rooms -> SUBSET Users]
        /\ removedBy' \in [Rooms -> [Users -> Nodes \cup {"none"}]]
    <3>1. CASE Fail(n)
      BY <1>0, <3>1 DEF Fail, redis, RosterTyped
    <3>2. CASE Execute(n) /\ k.op = "leave"
      <4>1. Srem(n, k)
        BY <3>2 DEF Execute
      <4> QED
        BY <1>0, <1>1, <2>3, <3>2, <4>1 DEF Srem, RosterTyped
    <3>3. CASE Execute(n) /\ k.op = "roster"
      <4>1. Roster(n, k)
        BY <3>3 DEF Execute
      <4> QED
        BY <1>0, <2>3, <3>3, <4>1 DEF Roster, RosterTyped
    <3>4. CASE Execute(n) /\ k.op \notin {"leave", "roster"}
      BY <1>0, <1>1, <1>4, <3>4 DEF Execute, Register, Remove, Lease, Count, Publish,
           redis, RosterTyped
    <3> QED
      BY <3>1, <3>2, <3>3, <3>4
  <2>5. RosterTyped' /\ RoomsKnown'
    BY <1>0, <1>2, <2>1, <2>2, <2>4, RepliedBase
  <2>6. PresenceScoped'
    <3>1. CASE told' = Nobody
      BY <3>1 DEF PresenceScoped, Nobody
    <3>2. ASSUME told' # Nobody PROVE PresenceScoped'
      <4>1. k.op = "publish" /\ Publish(n, k)
        BY <1>4, <3>2 DEF Execute, Fail, Srem, Roster, Register, Remove, Lease, Count
      <4>2. k.rooms \subseteq Rooms /\ \A r \in k.rooms : k.user \in wasIn[r]
        BY <1>1, <4>1 DEF WellFormed
      <4>3. \A m : \A r \in SharedRooms(m, k.user, k.rooms) : k.user \in wasIn[r]
        BY <1>0, <4>2 DEF SharedRooms, RoomsOf, Registered, RoomsKnown
      <4>4. /\ told'.user = k.user
            /\ \A c \in told'.conns : joined[c] \cap SharedRooms(NodeOf[c], k.user, k.rooms) # {}
        BY <4>1 DEF Publish
      <4> HIDE DEF k
      <4> QED
        BY <2>1, <4>3, <4>4 DEF PresenceScoped
    <3> QED
      BY <3>1, <3>2
  <2> QED
    BY <2>5, <2>6 DEF RosterBase
<1> QED
  BY <1>3, <1>4

\* The base holds at the start.
LEMMA RosterInit ==
  ASSUME Init
  PROVE  RosterBase
<1>1. <<>> \in Seq(RoomCommand) /\ "none" \in Nodes \cup {"none"} /\ DOMAIN <<>> = {}
  OBVIOUS
<1>2. \A n \in Nodes : Fit(n, commands[n], phase, wasIn)
  BY <1>1 DEF Init, Fit
<1>3. RosterTyped
  BY <1>1, <1>2, RosterConstants DEF Init, RosterTyped, NoNode
<1>4. RoomsKnown /\ PresenceScoped
  BY DEF Init, RoomsKnown, PresenceScoped, Nobody
<1> QED
  BY <1>3, <1>4 DEF RosterBase

\* Every step keeps the base.
LEMMA RosterNext ==
  ASSUME RosterBase, [Next]_vars
  PROVE  RosterBase'
<1>1. CASE UNCHANGED vars
  BY <1>1 DEF vars, local, redis, counters, RosterBase, RosterTyped, RoomsKnown,
       PresenceScoped
<1>2. ASSUME NEW c \in Conns,
             \/ Open(c) \/ Close(c) \/ Expire(c) \/ Renewal(c)
             \/ \E r \in Rooms : RoomJoin(c, r) \/ RoomLeave(c, r)
             \/ \E b \in Batches : RoomBatchJoin(c, b)
      PROVE  RosterBase'
  BY <1>2, JoinEffect, JoinBase, RequestBase
<1>3. ASSUME NEW n \in Nodes, Execute(n) \/ Fail(n) \/ Crash(n)
      PROVE  RosterBase'
  BY <1>3, ExecuteBase, CrashBase
<1> QED
  BY <1>1, <1>2, <1>3 DEF Next

\* The base is an invariant.
LEMMA RosterInvariant == Spec => []RosterBase
<1>1. Init => RosterBase
  BY RosterInit
<1>2. RosterBase /\ [Next]_vars => RosterBase'
  BY RosterNext
<1> QED
  BY <1>1, <1>2, PTL DEF Spec

\* PresenceScoped: the sockets a PRESENCE_UPDATE is sent to are in a room that its
\* user is or was in, however old the rooms it names are.
THEOREM UpdatesAreScoped == Spec => []PresenceScoped
<1>1. RosterBase => PresenceScoped
  BY DEF RosterBase
<1> QED
  BY <1>1, RosterInvariant, PTL

(***************************************************************************)
(* Who is in a roster.  A queue is read through a few questions: whether a *)
(* command of it adds or removes the user u in room r, and which of the    *)
(* two comes last.                                                         *)
(***************************************************************************)

AddsUser(k, u, r) == k.op \in {"join", "batch"} /\ k.user = u /\ Head(k.rooms) = r
Adds(k, c, r) == k.op \in {"join", "batch"} /\ k.conn = c /\ Head(k.rooms) = r
Drops(k, u, r) == k.op = "leave" /\ k.user = u /\ Head(k.rooms) = r
Enters(k, c) == k.op = "register" /\ k.conn = c
About(k, u, r) ==
  k.op \in {"join", "batch", "leave"} /\ k.user = u /\ r \in {k.rooms[j] : j \in DOMAIN k.rooms}

\* Every command that adds the user is followed by one that removes it.
Repaid(q, u, r) ==
  \A i \in DOMAIN q : AddsUser(q[i], u, r) => \E j \in DOMAIN q : j > i /\ Drops(q[j], u, r)

Concerns(q, u, r) == \E i \in DOMAIN q : About(q[i], u, r)

\* The connection's own command adds the user, and no later one removes it.
Waiting(q, c, u, r) ==
  \E i \in DOMAIN q : Adds(q[i], c, r) /\ \A j \in DOMAIN q : Drops(q[j], u, r) => j < i

NoDrop(q, u, r) == \A j \in DOMAIN q : ~Drops(q[j], u, r)

\* The registration of a connection comes before its other commands.
ToRegister(q, c) == \E i \in DOMAIN q : Enters(q[i], c)
RegisterFirst(q, c) ==
  \A i \in DOMAIN q : Enters(q[i], c) => \A j \in DOMAIN q : q[j].conn = c => i <= j

\* The elements of a queue that grew.
LEMMA Grown ==
  ASSUME NEW q \in Seq(RoomCommand), NEW x \in RoomCommand
  PROVE  /\ Len(q) \in Nat /\ DOMAIN q = 1..Len(q) /\ DOMAIN Append(q, x) = 1..Len(q) + 1
         /\ \A i \in 1..Len(q) : Append(q, x)[i] = q[i]
         /\ Append(q, x)[Len(q) + 1] = x
  BY AppendProperties

\* A queue that lost its first command.
LEMMA Shortened ==
  ASSUME NEW q \in Seq(RoomCommand), q # <<>>
  PROVE  /\ Len(q) \in Nat /\ Len(q) > 0 /\ DOMAIN q = 1..Len(q)
         /\ DOMAIN Tail(q) = 1..(Len(q) - 1)
         /\ \A i \in 1..(Len(q) - 1) : Tail(q)[i] = q[i + 1]
         /\ Head(q) = q[1] /\ Tail(q) \in Seq(RoomCommand) /\ Head(q) \in RoomCommand
  BY HeadTailProperties

\* A command that is sent, for the entry of u in r.
LEMMA GrownEntry ==
  ASSUME NEW q \in Seq(RoomCommand), NEW x \in RoomCommand, NEW c, NEW u, NEW r
  PROVE  LET p == Append(q, x)
         IN /\ Repaid(q, u, r) /\ ~AddsUser(x, u, r) => Repaid(p, u, r)
            /\ Drops(x, u, r) => Repaid(p, u, r)
            /\ Concerns(q, u, r) \/ About(x, u, r) => Concerns(p, u, r)
            /\ Waiting(q, c, u, r) /\ ~Drops(x, u, r) => Waiting(p, c, u, r)
            /\ Adds(x, c, r) => Waiting(p, c, u, r)
            /\ NoDrop(q, u, r) /\ ~Drops(x, u, r) => NoDrop(p, u, r)
<1> DEFINE p == Append(q, x)
           l == Len(q)
<1>1. /\ l \in Nat /\ DOMAIN q = 1..l /\ DOMAIN p = 1..l + 1 /\ \A i \in 1..l : p[i] = q[i]
      /\ p[l + 1] = x
  BY Grown
<1> HIDE DEF p, l
<1>2. /\ \A i \in DOMAIN p : i \in DOMAIN q \/ i = l + 1
      /\ l + 1 \in DOMAIN p /\ \A i \in DOMAIN q : i \in DOMAIN p /\ i < l + 1 /\ p[i] = q[i]
  BY <1>1
<1>3. Repaid(q, u, r) /\ ~AddsUser(x, u, r) => Repaid(p, u, r)
  BY <1>1, <1>2 DEF Repaid
<1>4. Drops(x, u, r) => Repaid(p, u, r)
  BY <1>1, <1>2 DEF Repaid, AddsUser, Drops
<1>5. Concerns(q, u, r) \/ About(x, u, r) => Concerns(p, u, r)
  BY <1>1, <1>2 DEF Concerns
<1>6. Waiting(q, c, u, r) /\ ~Drops(x, u, r) => Waiting(p, c, u, r)
  BY <1>1, <1>2 DEF Waiting
<1>7. Adds(x, c, r) => Waiting(p, c, u, r)
  BY <1>1, <1>2 DEF Waiting, Adds, Drops
<1>8. NoDrop(q, u, r) /\ ~Drops(x, u, r) => NoDrop(p, u, r)
  BY <1>1, <1>2 DEF NoDrop
<1> QED
  BY <1>3, <1>4, <1>5, <1>6, <1>7, <1>8 DEF p

\* The oldest command is executed, for the entry of u in r.
LEMMA ShortenedEntry ==
  ASSUME NEW q \in Seq(RoomCommand), q # <<>>, NEW c, NEW u, NEW r
  PROVE  LET p == Tail(q)
         IN /\ Repaid(q, u, r) => Repaid(p, u, r)
            /\ Repaid(q, u, r) /\ AddsUser(Head(q), u, r) => \E j \in DOMAIN p : Drops(p[j], u, r)
            /\ Concerns(q, u, r) => Concerns(p, u, r) \/ About(Head(q), u, r)
            /\ Waiting(q, c, u, r) =>
                 Waiting(p, c, u, r) \/ (Adds(Head(q), c, r) /\ NoDrop(q, u, r))
            /\ NoDrop(q, u, r) => NoDrop(p, u, r) /\ ~Drops(Head(q), u, r)
<1> DEFINE p == Tail(q)
           h == Head(q)
           l == Len(q)
<1>1. /\ l \in Nat /\ l > 0 /\ DOMAIN q = 1..l /\ DOMAIN p = 1..(l - 1)
      /\ \A i \in 1..(l - 1) : p[i] = q[i + 1]
      /\ h = q[1]
  BY Shortened
<1> HIDE DEF p, l, h
<1>2. /\ \A i \in DOMAIN p : i \in Int /\ i + 1 \in DOMAIN q /\ p[i] = q[i + 1]
      /\ \A i \in DOMAIN q : i \in Int /\ i >= 1
      /\ \A i \in DOMAIN q : i = 1 \/ (i - 1 \in DOMAIN p /\ p[i - 1] = q[i])
      /\ 1 \in DOMAIN q
  BY <1>1
<1>3. Repaid(q, u, r) => Repaid(p, u, r)
  <2> SUFFICES ASSUME Repaid(q, u, r), NEW i \in DOMAIN p, AddsUser(p[i], u, r)
               PROVE  \E j \in DOMAIN p : j > i /\ Drops(p[j], u, r)
    BY DEF Repaid
  <2>1. i + 1 \in DOMAIN q /\ AddsUser(q[i + 1], u, r) /\ i \in Int /\ i >= 1
    BY <1>1, <1>2
  <2>2. PICK j \in DOMAIN q : j > i + 1 /\ Drops(q[j], u, r)
    BY <2>1 DEF Repaid
  <2>3. j - 1 \in DOMAIN p /\ p[j - 1] = q[j] /\ j - 1 > i
    BY <1>2, <2>1, <2>2
  <2> QED
    BY <2>2, <2>3
<1>4. Repaid(q, u, r) /\ AddsUser(h, u, r) => \E j \in DOMAIN p : Drops(p[j], u, r)
  <2> SUFFICES ASSUME Repaid(q, u, r), AddsUser(h, u, r)
               PROVE  \E j \in DOMAIN p : Drops(p[j], u, r)
    OBVIOUS
  <2>1. PICK j \in DOMAIN q : j > 1 /\ Drops(q[j], u, r)
    BY <1>1, <1>2 DEF Repaid
  <2>2. j - 1 \in DOMAIN p /\ p[j - 1] = q[j]
    BY <1>2, <2>1
  <2> QED
    BY <2>1, <2>2
<1>5. Concerns(q, u, r) => Concerns(p, u, r) \/ About(h, u, r)
  BY <1>1, <1>2 DEF Concerns
<1>6. Waiting(q, c, u, r) => Waiting(p, c, u, r) \/ (Adds(h, c, r) /\ NoDrop(q, u, r))
  <2> SUFFICES ASSUME NEW i \in DOMAIN q, Adds(q[i], c, r),
                      \A j \in DOMAIN q : Drops(q[j], u, r) => j < i
               PROVE  Waiting(p, c, u, r) \/ (Adds(h, c, r) /\ NoDrop(q, u, r))
    BY DEF Waiting
  <2>1. CASE i = 1
    BY <1>1, <1>2, <2>1 DEF NoDrop
  <2>2. CASE i # 1
    <3>1. i - 1 \in DOMAIN p /\ Adds(p[i - 1], c, r) /\ i \in Int
      BY <1>2, <2>2
    <3>2. \A j \in DOMAIN p : Drops(p[j], u, r) => j < i - 1
      BY <1>2, <3>1
    <3> QED
      BY <3>1, <3>2 DEF Waiting
  <2> QED
    BY <2>1, <2>2
<1>7. NoDrop(q, u, r) => NoDrop(p, u, r) /\ ~Drops(h, u, r)
  BY <1>1, <1>2 DEF NoDrop
<1> QED
  BY <1>3, <1>4, <1>5, <1>6, <1>7 DEF p, h

\* A command that is sent, for the registration of c.
LEMMA GrownRegister ==
  ASSUME NEW q \in Seq(RoomCommand), NEW x \in RoomCommand, NEW c
  PROVE  LET p == Append(q, x)
         IN /\ ToRegister(q, c) \/ Enters(x, c) => ToRegister(p, c)
            /\ RegisterFirst(q, c) /\ ~Enters(x, c) => RegisterFirst(p, c)
            /\ (\A i \in DOMAIN q : q[i].conn # c) => RegisterFirst(p, c)
<1> DEFINE p == Append(q, x)
           l == Len(q)
<1>1. /\ l \in Nat /\ DOMAIN q = 1..l /\ DOMAIN p = 1..l + 1 /\ \A i \in 1..l : p[i] = q[i]
      /\ p[l + 1] = x
  BY Grown
<1> HIDE DEF p, l
<1>2. /\ \A i \in DOMAIN p : i \in DOMAIN q \/ i = l + 1
      /\ l + 1 \in DOMAIN p /\ \A i \in DOMAIN q : i \in DOMAIN p /\ i < l + 1 /\ p[i] = q[i]
      /\ l + 1 <= l + 1
  BY <1>1
<1>3. ToRegister(q, c) \/ Enters(x, c) => ToRegister(p, c)
  BY <1>1, <1>2 DEF ToRegister
<1>4. RegisterFirst(q, c) /\ ~Enters(x, c) => RegisterFirst(p, c)
  BY <1>1, <1>2 DEF RegisterFirst
<1>5. (\A i \in DOMAIN q : q[i].conn # c) => RegisterFirst(p, c)
  BY <1>1, <1>2 DEF RegisterFirst, Enters
<1> QED
  BY <1>3, <1>4, <1>5 DEF p

\* The oldest command is executed, for the registration of c.
LEMMA ShortenedRegister ==
  ASSUME NEW q \in Seq(RoomCommand), q # <<>>, NEW c, RegisterFirst(q, c)
  PROVE  LET p == Tail(q)
         IN /\ RegisterFirst(p, c)
            /\ ToRegister(q, c) => ToRegister(p, c) \/ Enters(Head(q), c)
            /\ Head(q).conn = c /\ ~Enters(Head(q), c) => ~ToRegister(q, c)
<1> DEFINE p == Tail(q)
           h == Head(q)
           l == Len(q)
<1>1. /\ l \in Nat /\ l > 0 /\ DOMAIN q = 1..l /\ DOMAIN p = 1..(l - 1)
      /\ \A i \in 1..(l - 1) : p[i] = q[i + 1]
      /\ h = q[1]
  BY Shortened
<1> HIDE DEF p, l, h
<1>2. /\ \A i \in DOMAIN p : i \in Int /\ i + 1 \in DOMAIN q /\ p[i] = q[i + 1]
      /\ \A i \in DOMAIN q : i \in Int /\ i >= 1
      /\ \A i \in DOMAIN q : i = 1 \/ (i - 1 \in DOMAIN p /\ p[i - 1] = q[i])
      /\ 1 \in DOMAIN q
  BY <1>1
<1>3. RegisterFirst(p, c)
  <2> SUFFICES ASSUME NEW i \in DOMAIN p, Enters(p[i], c), NEW j \in DOMAIN p, p[j].conn = c
               PROVE  i <= j
    BY DEF RegisterFirst
  <2>1. /\ i + 1 \in DOMAIN q /\ Enters(q[i + 1], c) /\ j + 1 \in DOMAIN q /\ q[j + 1].conn = c
        /\ i \in Int /\ j \in Int
    BY <1>2
  <2>2. i + 1 <= j + 1
    BY <2>1 DEF RegisterFirst
  <2> QED
    BY <2>1, <2>2
<1>4. ToRegister(q, c) => ToRegister(p, c) \/ Enters(h, c)
  BY <1>1, <1>2 DEF ToRegister
<1>5. h.conn = c /\ ~Enters(h, c) => ~ToRegister(q, c)
  <2> SUFFICES ASSUME h.conn = c, NEW i \in DOMAIN q, Enters(q[i], c)
               PROVE  Enters(h, c)
    BY DEF ToRegister
  <2>1. i <= 1
    BY <1>1, <1>2 DEF RegisterFirst
  <2>2. i = 1
    BY <1>2, <2>1
  <2> QED
    BY <1>1, <2>2
<1> QED
  BY <1>3, <1>4, <1>5 DEF p, h

(***************************************************************************)
(* A user that has left is not in the roster.                              *)
(***************************************************************************)

\* A connection of n would keep the entry of u in r.
Holds(n, u, r) ==
  \E c \in Conns : NodeOf[c] = n /\ UserOf[c] = u /\ (phase[c] = "gone" \/ r \in joined[c])

\* What a node will add it will also remove, unless a connection of it is there.
AddsAreOwed ==
  \A n \in Nodes, u \in Users, r \in Rooms : Holds(n, u, r) \/ Repaid(commands[n], u, r)

EntriesAreOwed ==
  \A r \in Rooms : \A u \in members[r] :
    \E n \in Nodes : Holds(n, u, r) \/ Concerns(commands[n], u, r)

LeaversInv == ~failed => AddsAreOwed /\ EntriesAreOwed

\* A step keeps it when, at each node, what was a reason for the entry stays one or
\* gives way to another.
LEMMA Upheld ==
  ASSUME RosterBase, LeaversInv, failed => failed',
         \A n \in Nodes, u \in Users, r \in Rooms :
           Holds(n, u, r) => \/ Holds(n, u, r)'
                             \/ Repaid(commands[n], u, r)' /\ Concerns(commands[n], u, r)',
         \A n \in Nodes, u \in Users, r \in Rooms :
           Repaid(commands[n], u, r) => Holds(n, u, r)' \/ Repaid(commands[n], u, r)',
         ~failed => \A n \in Nodes, u \in Users, r \in Rooms :
           Concerns(commands[n], u, r) =>
             \/ Holds(n, u, r)' \/ Concerns(commands[n], u, r)' \/ u \notin members'[r],
         ~failed' => \A r \in Rooms : \A u \in members'[r] : u \in Users /\ (u \in members[r]
           \/ \E n \in Nodes : Holds(n, u, r)' \/ Concerns(commands[n], u, r)')
  PROVE  LeaversInv'
<1> SUFFICES ASSUME ~failed' PROVE AddsAreOwed' /\ EntriesAreOwed'
  BY DEF LeaversInv
<1>1. ~failed /\ AddsAreOwed /\ EntriesAreOwed
  BY DEF LeaversInv
<1>2. AddsAreOwed'
  BY <1>1 DEF AddsAreOwed
<1>3. ASSUME NEW r \in Rooms, NEW u \in members'[r]
      PROVE  \E n \in Nodes : Holds(n, u, r)' \/ Concerns(commands[n], u, r)'
  <2>1. CASE u \in members[r]
    <3>1. u \in Users
      BY <1>3
    <3>2. PICK n \in Nodes : Holds(n, u, r) \/ Concerns(commands[n], u, r)
      BY <1>1, <2>1 DEF EntriesAreOwed
    <3>3. Holds(n, u, r)' \/ Concerns(commands[n], u, r)'
      BY <1>1, <1>3, <3>1, <3>2
    <3> QED
      BY <3>3
  <2> QED
    BY <1>3, <2>1
<1> QED
  BY <1>2, <1>3 DEF EntriesAreOwed

\* Members do not change, a node sends one command, which adds no user, and its
\* connections keep the entries they kept.
LEMMA SentIsUpheld ==
  ASSUME RosterBase, LeaversInv, failed' = failed, members' = members,
         NEW m \in Nodes, NEW x \in RoomCommand,
         commands' = [commands EXCEPT ![m] = Append(commands[m], x)],
         \A u \in Users, r \in Rooms : AddsUser(x, u, r) => Holds(m, u, r)',
         \A n \in Nodes, u \in Users, r \in Rooms :
           Holds(n, u, r) => Holds(n, u, r)' \/ (n = m /\ Drops(x, u, r) /\ About(x, u, r))
  PROVE  LeaversInv'
<1>1. /\ commands \in [Nodes -> Seq(RoomCommand)] /\ commands' \in [Nodes -> Seq(RoomCommand)]
      /\ members \in [Rooms -> SUBSET Users]
      /\ \A n \in Nodes : n # m => commands'[n] = commands[n]
      /\ commands'[m] = Append(commands[m], x) /\ commands[m] \in Seq(RoomCommand)
  BY DEF RosterBase, RosterTyped
<1>2. ASSUME NEW n \in Nodes, NEW u \in Users, NEW r \in Rooms
      PROVE  /\ Holds(n, u, r) => \/ Holds(n, u, r)'
                                  \/ Repaid(commands'[n], u, r) /\ Concerns(commands'[n], u, r)
             /\ Repaid(commands[n], u, r) => Holds(n, u, r)' \/ Repaid(commands'[n], u, r)
             /\ Concerns(commands[n], u, r) => Concerns(commands'[n], u, r)
  <2>1. CASE n # m
    BY <1>1, <2>1
  <2>2. CASE n = m
    <3>1. /\ Repaid(commands[m], u, r) /\ ~AddsUser(x, u, r) => Repaid(commands'[m], u, r)
          /\ Drops(x, u, r) => Repaid(commands'[m], u, r)
          /\ Concerns(commands[m], u, r) \/ About(x, u, r) => Concerns(commands'[m], u, r)
      BY <1>1, GrownEntry
    <3> QED
      BY <2>2, <3>1
  <2> QED
    BY <2>1, <2>2
<1>3. \A r \in Rooms : \A u \in members'[r] : u \in Users /\ u \in members[r]
  BY <1>1
<1> QED
  BY <1>2, <1>3, Upheld DEF Repaid, Concerns

\* Requests, and the events of a connection, keep what the entries are owed to.
LEMMA RequestUpheld ==
  ASSUME RosterBase, LeaversInv, NEW c \in Conns,
         \/ Joins(c) \/ Open(c) \/ Close(c) \/ Expire(c) \/ Renewal(c)
         \/ \E r \in Rooms : RoomLeave(c, r)
  PROVE  LeaversInv'
<1>0. /\ RosterTyped /\ RoomsKnown /\ NodeOf[c] \in Nodes /\ UserOf[c] \in Users
      /\ joined \in [Conns -> SUBSET Rooms] /\ phase \in [Conns -> {"new", "open", "gone"}]
  BY RosterConstants DEF RosterBase, RosterTyped
<1>1. failed' = failed /\ members' = members
  BY DEF Joins, Open, Close, Expire, Renewal, RoomLeave, local, redis, counters
<1>2. CASE Joins(c)
  <2>1. PICK x \in RoomCommand :
         /\ x.op \in {"join", "batch"} /\ x.user = UserOf[c] /\ Head(x.rooms) \in Rooms
         /\ commands' = [commands EXCEPT ![NodeOf[c]] = Append(commands[NodeOf[c]], x)]
         /\ joined' = [joined EXCEPT ![c] = joined[c] \cup {Head(x.rooms)}]
    BY <1>2 DEF Joins
  <2>2. phase' = phase
    BY <1>2 DEF Joins
  <2>3. /\ joined'[c] = joined[c] \cup {Head(x.rooms)}
        /\ \A d \in Conns : joined[d] \subseteq joined'[d]
    BY <1>0, <2>1
  <2>4. \A u \in Users, r \in Rooms : AddsUser(x, u, r) => Holds(NodeOf[c], u, r)'
    BY <2>1, <2>3 DEF AddsUser, Holds
  <2>5. \A n \in Nodes, u \in Users, r \in Rooms : Holds(n, u, r) => Holds(n, u, r)'
    BY <2>2, <2>3 DEF Holds
  <2> QED
    BY <1>0, <1>1, <2>1, <2>4, <2>5, SentIsUpheld
<1>3. CASE Open(c)
  <2> DEFINE x == Cmd("register", c, UserOf[c], <<>>)
  <2>1. /\ phase[c] = "new" /\ phase' = [phase EXCEPT ![c] = "open"] /\ joined' = joined
        /\ commands' = [commands EXCEPT ![NodeOf[c]] = Append(commands[NodeOf[c]], x)]
    BY <1>3 DEF Open, Send
  <2>2. x \in RoomCommand /\ x.op = "register"
    BY RequestCommands
  <2> HIDE DEF x
  <2>3. \A n \in Nodes, u \in Users, r \in Rooms : Holds(n, u, r) => Holds(n, u, r)'
    BY <1>0, <2>1 DEF Holds
  <2> QED
    BY <1>0, <1>1, <2>1, <2>2, <2>3, SentIsUpheld DEF AddsUser
<1>4. CASE Close(c)
  <2> DEFINE x == Cmd("remove", c, UserOf[c], <<>>)
  <2>1. /\ phase' = [phase EXCEPT ![c] = "gone"] /\ joined' = [joined EXCEPT ![c] = {}]
        /\ commands' = [commands EXCEPT ![NodeOf[c]] = Append(commands[NodeOf[c]], x)]
    BY <1>4 DEF Close, Send
  <2>2. x \in RoomCommand /\ x.op = "remove"
    BY RequestCommands
  <2> HIDE DEF x
  <2>3. \A n \in Nodes, u \in Users, r \in Rooms : Holds(n, u, r) => Holds(n, u, r)'
    BY <1>0, <2>1 DEF Holds
  <2> QED
    BY <1>0, <1>1, <2>1, <2>2, <2>3, SentIsUpheld DEF AddsUser
<1>5. CASE UNCHANGED <<commands, phase, joined>>
  BY <1>1, <1>5 DEF LeaversInv, AddsAreOwed, EntriesAreOwed, Holds, Repaid, Concerns
<1>6. CASE Expire(c) \/ Renewal(c)
  BY <1>5, <1>6 DEF Expire, Renewal, local
<1>7. ASSUME NEW r \in Rooms, RoomLeave(c, r) PROVE LeaversInv'
  <2> DEFINE x == Cmd("leave", c, UserOf[c], <<r>>)
  <2>1. /\ phase' = phase /\ joined' = [joined EXCEPT ![c] = joined[c] \ {r}]
        /\ IF HasOther(c, r) THEN commands' = commands
           ELSE commands' = [commands EXCEPT ![NodeOf[c]] = Append(commands[NodeOf[c]], x)]
    BY <1>7 DEF RoomLeave, Send
  <2>2. x \in RoomCommand /\ x.op = "leave" /\ x.user = UserOf[c] /\ x.rooms = <<r>>
    BY RequestCommands
  <2> HIDE DEF x
  <2>3. /\ joined'[c] = joined[c] \ {r}
        /\ \A d \in Conns : d # c => joined'[d] = joined[d]
    BY <1>0, <2>1
  <2>4. ASSUME NEW n \in Nodes, NEW u \in Users, NEW s \in Rooms, Holds(n, u, s)
        PROVE  Holds(n, u, s)' \/ (n = NodeOf[c] /\ u = UserOf[c] /\ s = r)
    BY <2>1, <2>3, <2>4 DEF Holds
  <2>5. CASE HasOther(c, r)
    <3>1. Holds(NodeOf[c], UserOf[c], r)'
      BY <2>1, <2>3, <2>5 DEF Holds, HasOther, Registered
    <3>2. \A n \in Nodes, u \in Users, s \in Rooms : Holds(n, u, s) => Holds(n, u, s)'
      BY <2>4, <3>1
    <3>3. commands' = commands
      BY <2>1, <2>5
    <3> QED
      BY <1>0, <1>1, <3>2, <3>3, Upheld DEF RosterTyped, Repaid, Concerns
  <2>6. CASE ~HasOther(c, r)
    <3>1. Drops(x, UserOf[c], r) /\ About(x, UserOf[c], r)
      BY <2>2 DEF Drops, About
    <3>2. commands' = [commands EXCEPT ![NodeOf[c]] = Append(commands[NodeOf[c]], x)]
      BY <2>1, <2>6
    <3> QED
      BY <1>0, <1>1, <2>2, <2>4, <3>1, <3>2, SentIsUpheld DEF AddsUser
  <2> QED
    BY <2>5, <2>6
<1> QED
  BY <1>2, <1>3, <1>4, <1>6, <1>7

\* So does a crash: what the queue was about, a gone connection is about.
LEMMA CrashUpheld ==
  ASSUME RosterBase, LeaversInv, NEW m \in Nodes, Crash(m)
  PROVE  LeaversInv'
<1>1. /\ \A n \in Nodes : Fit(n, commands[n], phase, wasIn)
      /\ commands \in [Nodes -> Seq(RoomCommand)] /\ members \in [Rooms -> SUBSET Users]
      /\ joined \in [Conns -> SUBSET Rooms] /\ phase \in [Conns -> {"new", "open", "gone"}]
  BY DEF RosterBase, RosterTyped
<1>2. /\ phase' = [c \in Conns |-> IF NodeOf[c] = m THEN "gone" ELSE phase[c]]
      /\ joined' = [c \in Conns |-> IF NodeOf[c] = m THEN {} ELSE joined[c]]
      /\ commands' = [commands EXCEPT ![m] = <<>>]
      /\ failed' = failed /\ members' = members
  BY DEF Crash, redis
<1>3. \A n \in Nodes, u \in Users, r \in Rooms : Holds(n, u, r) => Holds(n, u, r)'
  BY <1>1, <1>2 DEF Holds
<1>4. commands'[m] = <<>> /\ \A n \in Nodes : n # m => commands'[n] = commands[n]
  BY <1>1, <1>2
<1>5. \A u, r : Repaid(<<>>, u, r)
  BY DEF Repaid
<1>6. ASSUME NEW u \in Users, NEW r \in Rooms, Concerns(commands[m], u, r)
      PROVE  Holds(m, u, r)'
  <2>1. PICK i \in DOMAIN commands[m] : About(commands[m][i], u, r)
    BY <1>6 DEF Concerns
  <2>2. /\ commands[m][i] \in RoomCommand /\ NodeOf[commands[m][i].conn] = m
        /\ commands[m][i].user = UserOf[commands[m][i].conn]
    BY <1>1, <2>1 DEF Fit, WellFormed
  <2>3. commands[m][i].conn \in Conns /\ commands[m][i].user = u
    BY <2>1, <2>2 DEF RoomCommand, About
  <2> QED
    BY <1>2, <2>2, <2>3 DEF Holds
<1>7. \A n \in Nodes, u \in Users, r \in Rooms :
        /\ Repaid(commands[n], u, r) => Repaid(commands'[n], u, r)
        /\ Concerns(commands[n], u, r) => Holds(n, u, r)' \/ Concerns(commands'[n], u, r)
  BY <1>4, <1>5, <1>6
<1>8. \A r \in Rooms : \A u \in members'[r] : u \in Users /\ u \in members[r]
  BY <1>1, <1>2
<1> QED
  BY <1>2, <1>3, <1>7, <1>8, Upheld DEF Repaid, Concerns

\* A command of m is executed, and x is sent after it or not.
LEMMA ReplyUpheld ==
  ASSUME RosterBase, LeaversInv, failed' = failed, phase' = phase,
         NEW m \in Nodes, commands[m] # <<>>, NEW x \in RoomCommand, Replied(m, x),
         \A c \in Conns : joined[c] \subseteq joined'[c],
         \A u \in Users, r \in Rooms : AddsUser(x, u, r) => Holds(m, u, r)',
         \A u \in Users, r \in Rooms : About(Head(commands[m]), u, r) =>
           \/ AddsUser(Head(commands[m]), u, r) \/ u \notin members'[r]
           \/ About(x, u, r) /\ commands' = [commands EXCEPT ![m] = Append(Tail(commands[m]), x)],
         \A r \in Rooms : \A u \in members'[r] :
           u \in Users /\ (u \in members[r] \/ AddsUser(Head(commands[m]), u, r))
  PROVE  LeaversInv'
<1> SUFFICES ASSUME ~failed PROVE LeaversInv'
  BY DEF LeaversInv
<1> DEFINE q == commands[m]
           t == Tail(q)
           k == Head(q)
<1>1. /\ commands \in [Nodes -> Seq(RoomCommand)] /\ q \in Seq(RoomCommand)
      /\ t \in Seq(RoomCommand) /\ Fit(m, t, phase, wasIn)
  BY Shortened, FirstOf DEF RosterBase, RosterTyped
<1>2. /\ commands'[m] = t \/ commands'[m] = Append(t, x)
      /\ commands' = [commands EXCEPT ![m] = Append(t, x)] => commands'[m] = Append(t, x)
      /\ \A n \in Nodes : n # m => commands'[n] = commands[n]
  BY <1>1 DEF Replied
<1>3. AddsAreOwed
  BY DEF LeaversInv
<1>4. \A n \in Nodes, u \in Users, r \in Rooms : Holds(n, u, r) => Holds(n, u, r)'
  BY DEF Holds
<1>5. /\ \A u \in Users, r \in Rooms : AddsUser(x, u, r) => Holds(m, u, r)'
      /\ \A u \in Users, r \in Rooms : About(k, u, r) =>
           \/ AddsUser(k, u, r) \/ u \notin members'[r]
           \/ About(x, u, r) /\ commands'[m] = Append(t, x)
      /\ \A r \in Rooms : \A u \in members'[r] :
           u \in Users /\ (u \in members[r] \/ AddsUser(k, u, r))
  BY <1>2
<1> HIDE DEF t, k
<1>6. ASSUME NEW u \in Users, NEW r \in Rooms
      PROVE  /\ Repaid(q, u, r) => Holds(m, u, r)' \/ Repaid(commands'[m], u, r)
             /\ Concerns(t, u, r) => Concerns(commands'[m], u, r)
             /\ About(x, u, r) /\ commands'[m] = Append(t, x) => Concerns(commands'[m], u, r)
             /\ Concerns(q, u, r) => Concerns(t, u, r) \/ About(k, u, r)
             /\ AddsUser(k, u, r) => Holds(m, u, r)' \/ Concerns(t, u, r)
  <2>1. /\ Repaid(q, u, r) => Repaid(t, u, r)
        /\ Repaid(q, u, r) /\ AddsUser(k, u, r) => \E j \in DOMAIN t : Drops(t[j], u, r)
        /\ Concerns(q, u, r) => Concerns(t, u, r) \/ About(k, u, r)
    BY <1>1, ShortenedEntry DEF t, k
  <2>2. /\ Repaid(t, u, r) /\ ~AddsUser(x, u, r) => Repaid(Append(t, x), u, r)
        /\ Concerns(t, u, r) \/ About(x, u, r) => Concerns(Append(t, x), u, r)
    BY <1>1, GrownEntry
  <2>3. ASSUME NEW j \in DOMAIN t, Drops(t[j], u, r) PROVE Concerns(t, u, r)
    <3>1. PICK s \in Rooms : t[j].rooms = <<s>>
      BY <1>1, <2>3 DEF Fit, WellFormed, Drops
    <3>2. About(t[j], u, r)
      BY <2>3, <3>1 DEF About, Drops
    <3> QED
      BY <3>2 DEF Concerns
  <2>4. AddsUser(k, u, r) => Holds(m, u, r)' \/ Concerns(t, u, r)
    BY <1>3, <1>4, <2>1, <2>3 DEF AddsAreOwed
  <2> QED
    BY <1>2, <1>5, <2>1, <2>2, <2>4
<1>7. \A n \in Nodes, u \in Users, r \in Rooms :
        /\ Repaid(commands[n], u, r) => Holds(n, u, r)' \/ Repaid(commands'[n], u, r)
        /\ Concerns(commands[n], u, r) =>
             Holds(n, u, r)' \/ Concerns(commands'[n], u, r) \/ u \notin members'[r]
  BY <1>2, <1>5, <1>6
<1>8. \A r \in Rooms : \A u \in members'[r] : u \in Users /\ (u \in members[r]
        \/ \E n \in Nodes : Holds(n, u, r)' \/ Concerns(commands'[n], u, r))
  BY <1>5, <1>6
<1> HIDE DEF q
<1> QED
  BY <1>4, <1>7, <1>8, Upheld DEF Repaid, Concerns

\* The rooms a command for one room, and one for the first of several, is about.
LEMMA RoomsAbout ==
  ASSUME NEW k \in RoomCommand, NEW u, NEW r, About(k, u, r), k.rooms \in Seq(Rooms), k.rooms # <<>>
  PROVE  k.user = u /\ (r = Head(k.rooms) \/ \E i \in DOMAIN Tail(k.rooms) : Tail(k.rooms)[i] = r)
<1>1. k.user = u /\ \E j \in DOMAIN k.rooms : k.rooms[j] = r
  BY DEF About
<1>2. PICK j \in DOMAIN k.rooms : k.rooms[j] = r
  BY <1>1
<1>3. /\ DOMAIN k.rooms = 1..Len(k.rooms) /\ Len(k.rooms) \in Nat /\ Head(k.rooms) = k.rooms[1]
      /\ DOMAIN Tail(k.rooms) = 1..(Len(k.rooms) - 1)
      /\ \A i \in 1..(Len(k.rooms) - 1) : Tail(k.rooms)[i] = k.rooms[i + 1]
  BY HeadTailProperties
<1>4. CASE j = 1
  BY <1>1, <1>2, <1>3, <1>4
<1>5. CASE j # 1
  <2>1. j - 1 \in DOMAIN Tail(k.rooms) /\ (j - 1) + 1 = j
    BY <1>3, <1>5
  <2>2. Tail(k.rooms)[j - 1] = r
    BY <1>2, <1>3, <2>1
  <2> QED
    BY <1>1, <2>1, <2>2
<1> QED
  BY <1>4, <1>5

\* So does the execution of a command.
LEMMA ExecuteUpheld ==
  ASSUME RosterBase, LeaversInv, NEW m \in Nodes, Execute(m)
  PROVE  LeaversInv'
<1> DEFINE k == Head(commands[m])
<1>0. /\ commands[m] # <<>> /\ RosterTyped /\ failed' = failed
      /\ members \in [Rooms -> SUBSET Users] /\ joined \in [Conns -> SUBSET Rooms]
  BY DEF Execute, counters, RosterBase, RosterTyped
<1>1. /\ WellFormed(m, k, phase, wasIn) /\ k \in RoomCommand /\ k.conn \in Conns
      /\ k.user \in Users /\ k.op \in RoomOps
  BY <1>0, FirstOf
<1>2. NodeOf[k.conn] = m /\ k.user = UserOf[k.conn]
  BY <1>1 DEF WellFormed
<1>3. CASE k.op \in {"join", "batch"}
  <2>1. Add(m, k)
    BY <1>3 DEF Execute
  <2>2. k.rooms \in Seq(Rooms) /\ k.rooms # <<>> /\ Head(k.rooms) \in Rooms
    <3>1. k.rooms \in Seq(Rooms) /\ k.rooms # <<>>
      BY <1>1, <1>3 DEF WellFormed
    <3> QED
      BY <3>1
  <2>3. /\ Continues(m, k) /\ phase' = phase
        /\ members' = [members EXCEPT ![Head(k.rooms)] = members[Head(k.rooms)] \cup {k.user}]
    <3>1. AfterAdd(m, k)
      BY <2>1 DEF Add
    <3> QED
      BY <1>0, <1>3, <2>1, <3>1, AddContinues DEF Add
  <2> HIDE DEF k
  <2>4. \A r \in Rooms : \A u \in members'[r] :
          u \in Users /\ (u \in members[r] \/ AddsUser(k, u, r))
    BY <1>0, <1>1, <1>3, <2>2, <2>3 DEF AddsUser
  <2>5. ASSUME NEW u \in Users, NEW r \in Rooms, About(k, u, r)
        PROVE  AddsUser(k, u, r) \/ \E i \in DOMAIN Tail(k.rooms) : k.user = u /\ Tail(k.rooms)[i] = r
    BY <1>1, <1>3, <2>2, <2>5, RoomsAbout DEF AddsUser
  <2>6. ASSUME NEW x \in RoomCommand,
               x.op = "batch", x.user = k.user, x.conn = k.conn, Head(x.rooms) \in Rooms,
               \A i \in DOMAIN Tail(k.rooms) : \E j \in DOMAIN x.rooms : x.rooms[j] = Tail(k.rooms)[i],
               commands' = [commands EXCEPT ![m] = Append(Tail(commands[m]), x)],
               joined' = [joined EXCEPT ![k.conn] = joined[k.conn] \cup {Head(x.rooms)}]
        PROVE  LeaversInv'
    <3>1. /\ joined'[k.conn] = joined[k.conn] \cup {Head(x.rooms)}
          /\ \A c \in Conns : joined[c] \subseteq joined'[c]
      BY <1>0, <1>1, <2>6
    <3>2. \A u \in Users, r \in Rooms : AddsUser(x, u, r) => Holds(m, u, r)'
      BY <1>1, <1>2, <2>6, <3>1 DEF AddsUser, Holds
    <3>3. \A u \in Users, r \in Rooms : About(k, u, r) => AddsUser(k, u, r) \/ About(x, u, r)
      <4> SUFFICES ASSUME NEW u \in Users, NEW r \in Rooms, About(k, u, r), ~AddsUser(k, u, r)
                   PROVE  About(x, u, r)
        OBVIOUS
      <4>1. PICK i \in DOMAIN Tail(k.rooms) : k.user = u /\ Tail(k.rooms)[i] = r
        BY <2>5
      <4>2. PICK j \in DOMAIN x.rooms : x.rooms[j] = r
        BY <2>6, <4>1
      <4> QED
        BY <2>6, <4>1, <4>2 DEF About
    <3> QED
      BY <1>0, <2>3, <2>4, <2>6, <3>1, <3>2, <3>3, ReplyUpheld DEF k, Replied
  <2>7. ASSUME Tail(k.rooms) = <<>>, joined' = joined, NEW x \in RoomCommand,
               x.op = "roster", Replied(m, x)
        PROVE  LeaversInv'
    <3>1. \A u \in Users, r \in Rooms : ~AddsUser(x, u, r)
      BY <2>7 DEF AddsUser
    <3>2. \A u \in Users, r \in Rooms : About(k, u, r) => AddsUser(k, u, r)
      BY <2>5, <2>7
    <3> QED
      BY <1>0, <2>3, <2>4, <2>7, <3>1, <3>2, ReplyUpheld DEF k
  <2>8. \E x \in RoomCommand : x.op = "roster"
    <3> DEFINE x == [op |-> "roster", conn |-> k.conn, user |-> k.user, rooms |-> {}]
    <3>1. x \in RoomCommand /\ x.op = "roster"
      BY <1>1 DEF RoomCommand, RoomOps
    <3> QED
      BY <3>1
  <2> QED
    BY <2>3, <2>6, <2>7, <2>8 DEF Continues, Replied
<1>4. CASE k.op \notin {"join", "batch"}
  <2>1. /\ \/ Becomes(m, Rest(m))
           \/ Counted(m, k)
           \/ Becomes(m, Append(Rest(m), Cmd("count", k.conn, k.user, <<>>)))
        /\ phase' = phase /\ joined' = joined
    BY <1>4 DEF Execute, Srem, Roster, Register, Remove, Lease,
         Count, Publish, local
  <2>2. PICK x \in RoomCommand : Replied(m, x) /\ x.op \in {"count", "publish"}
    BY <1>0, <1>4, <2>1, ReplyEffect
  <2>3. k.op \in {"leave", "roster"} => \E r \in Rooms : k.rooms = <<r>>
    BY <1>1 DEF WellFormed
  <2>4. \A r \in Rooms : members'[r] \subseteq members[r]
    <3>1. CASE k.op = "leave"
      <4>1. Srem(m, k) /\ Head(k.rooms) \in Rooms
        BY <2>3, <3>1 DEF Execute
      <4> QED
        BY <1>0, <4>1 DEF Srem
    <3>2. CASE k.op = "roster"
      <4>1. Roster(m, k) /\ Head(k.rooms) \in Rooms
        BY <2>3, <3>2 DEF Execute
      <4> QED
        BY <1>0, <4>1 DEF Roster
    <3>3. CASE k.op \notin {"leave", "roster"}
      BY <1>4, <3>3 DEF Execute, Register, Remove, Lease, Count, Publish, redis
    <3> QED
      BY <3>1, <3>2, <3>3
  <2>5. \A u \in Users, r \in Rooms : About(k, u, r) => u \notin members'[r]
    <3> SUFFICES ASSUME NEW u \in Users, NEW r \in Rooms, About(k, u, r) PROVE u \notin members'[r]
      OBVIOUS
    <3>1. k.op = "leave" /\ k.user = u
      BY <1>4 DEF About
    <3>2. PICK s \in Rooms : k.rooms = <<s>>
      BY <2>3, <3>1
    <3>3. s = r /\ Head(k.rooms) = r
      BY <3>2 DEF About
    <3>4. Srem(m, k)
      BY <3>1 DEF Execute
    <3>5. members' = [members EXCEPT ![r] = members[r] \ {u}]
      BY <3>1, <3>3, <3>4 DEF Srem
    <3> QED
      BY <1>0, <3>5
  <2>6. \A u \in Users, r \in Rooms : ~AddsUser(x, u, r)
    BY <2>2 DEF AddsUser
  <2> HIDE DEF k
  <2>7. \A r \in Rooms : \A u \in members'[r] : u \in Users /\ u \in members[r]
    BY <1>0, <2>4
  <2> QED
    BY <1>0, <2>1, <2>2, <2>5, <2>6, <2>7, ReplyUpheld DEF k
<1> QED
  BY <1>3, <1>4

\* Nobody is in a room at the start.
LEMMA LeaversInit == Init => LeaversInv
<1> SUFFICES ASSUME Init PROVE AddsAreOwed /\ EntriesAreOwed
  BY DEF LeaversInv
<1>1. \A n \in Nodes : commands[n] = <<>>
  BY DEF Init
<1>2. \A u, r : Repaid(<<>>, u, r)
  BY DEF Repaid
<1> QED
  BY <1>1, <1>2 DEF Init, AddsAreOwed, EntriesAreOwed

\* Every step keeps the reason for each entry.
LEMMA LeaversNext ==
  ASSUME RosterBase, LeaversInv, [Next]_vars
  PROVE  LeaversInv'
<1>1. CASE UNCHANGED vars
  BY <1>1 DEF vars, local, redis, counters, LeaversInv, AddsAreOwed, EntriesAreOwed,
       Holds, Repaid, Concerns
<1>2. ASSUME NEW c \in Conns,
             \/ Open(c) \/ Close(c) \/ Expire(c) \/ Renewal(c)
             \/ \E r \in Rooms : RoomJoin(c, r) \/ RoomLeave(c, r)
             \/ \E b \in Batches : RoomBatchJoin(c, b)
      PROVE  LeaversInv'
  BY <1>2, JoinEffect, RequestUpheld
<1>3. ASSUME NEW n \in Nodes, Execute(n) \/ Fail(n) \/ Crash(n)
      PROVE  LeaversInv'
  <2>1. CASE Fail(n)
    BY <2>1 DEF Fail, LeaversInv
  <2> QED
    BY <1>3, <2>1, ExecuteUpheld, CrashUpheld
<1> QED
  BY <1>1, <1>2, <1>3 DEF Next

\* RosterDropsLeavers: a user all of whose connections have left a room leaves its
\* roster, whatever the nodes do in between.
THEOREM LeaversAreDropped == Spec => []RosterDropsLeavers
<1>1. Init => LeaversInv
  BY LeaversInit
<1>2. RosterBase /\ LeaversInv /\ [Next]_vars => LeaversInv'
  BY LeaversNext
<1>3. LeaversInv => RosterDropsLeavers
  <2> SUFFICES ASSUME LeaversInv, ~failed, NEW r \in Rooms, NEW u \in members[r]
               PROVE  \/ Pending(u, r)
                      \/ \E c \in Conns : UserOf[c] = u /\ (phase[c] = "gone" \/ r \in joined[c])
    BY DEF RosterDropsLeavers
  <2>1. PICK n \in Nodes : Holds(n, u, r) \/ Concerns(commands[n], u, r)
    BY DEF LeaversInv, EntriesAreOwed
  <2>2. Concerns(commands[n], u, r) => Pending(u, r)
    BY DEF Concerns, About, Pending
  <2> QED
    BY <2>1, <2>2 DEF Holds
<1> QED
  BY <1>1, <1>2, <1>3, RosterInvariant, PTL DEF Spec

(***************************************************************************)
(* A user with a connection in a room is in the roster.                    *)
(***************************************************************************)

InRoster(c, r) == UserOf[c] \in members[r] \/ removedBy[r][UserOf[c]] \in Nodes \ {NodeOf[c]}

\* Either the command that adds the entry is still to come, or the entry is there,
\* no command under way removes it, and the lease protects it from the script.
Listed(c, r) ==
  \/ Waiting(commands[NodeOf[c]], c, UserOf[c], r)
  \/ NoDrop(commands[NodeOf[c]], UserOf[c], r) /\ c \in lease /\ InRoster(c, r)

AllListed == \A c \in Conns : phase[c] = "open" => \A r \in joined[c] : Listed(c, r)

AllLeased ==
  \A c \in Conns : /\ RegisterFirst(commands[NodeOf[c]], c)
                   /\ phase[c] = "open" => c \in lease \/ ToRegister(commands[NodeOf[c]], c)

PresentInv == ~failed => AllListed /\ AllLeased

\* Nothing changes in Redis, and a node sends one command.
LEMMA SentKeepsPresent ==
  ASSUME RosterBase, PresentInv, NEW m \in Nodes, NEW x \in RoomCommand,
         commands' = [commands EXCEPT ![m] = Append(commands[m], x)],
         UNCHANGED <<lease, members, removedBy, failed>>,
         \A c \in Conns : phase'[c] = "open" => \A r \in joined'[c] :
           \/ phase[c] = "open" /\ r \in joined[c] /\ (NodeOf[c] = m => ~Drops(x, UserOf[c], r))
           \/ NodeOf[c] = m /\ Adds(x, c, r),
         \A c \in Conns : phase'[c] = "open" => phase[c] = "open" \/ (NodeOf[c] = m /\ Enters(x, c)),
         \A c \in Conns : NodeOf[c] = m /\ Enters(x, c) => phase[c] = "new"
  PROVE  PresentInv'
<1> SUFFICES ASSUME ~failed PROVE AllListed' /\ AllLeased'
  BY DEF PresentInv
<1>1. AllListed /\ AllLeased
  BY DEF PresentInv
<1>2. /\ commands \in [Nodes -> Seq(RoomCommand)] /\ commands[m] \in Seq(RoomCommand)
      /\ \A n \in Nodes : n # m => commands'[n] = commands[n]
      /\ commands'[m] = Append(commands[m], x) /\ Fit(m, commands[m], phase, wasIn)
      /\ \A c \in Conns : NodeOf[c] \in Nodes
  BY RosterConstants DEF RosterBase, RosterTyped
<1>3. ASSUME NEW c \in Conns, phase'[c] = "open", NEW r \in joined'[c]
      PROVE  Listed(c, r)'
  <2>1. /\ Waiting(commands[m], c, UserOf[c], r) /\ ~Drops(x, UserOf[c], r)
             => Waiting(commands'[m], c, UserOf[c], r)
        /\ Adds(x, c, r) => Waiting(commands'[m], c, UserOf[c], r)
        /\ NoDrop(commands[m], UserOf[c], r) /\ ~Drops(x, UserOf[c], r)
             => NoDrop(commands'[m], UserOf[c], r)
    BY <1>2, GrownEntry
  <2>2. CASE NodeOf[c] = m /\ Adds(x, c, r)
    <3>1. Waiting(commands'[NodeOf[c]], c, UserOf[c], r)
      BY <2>1, <2>2
    <3> QED
      BY <3>1 DEF Listed, Waiting
  <2>3. CASE phase[c] = "open" /\ r \in joined[c] /\ (NodeOf[c] = m => ~Drops(x, UserOf[c], r))
    <3>1. Listed(c, r)
      BY <1>1, <2>3 DEF AllListed
    <3>2. InRoster(c, r) => InRoster(c, r)'
      BY DEF InRoster
    <3>3. \/ Waiting(commands'[NodeOf[c]], c, UserOf[c], r)
          \/ NoDrop(commands'[NodeOf[c]], UserOf[c], r) /\ c \in lease' /\ InRoster(c, r)'
      <4>1. CASE NodeOf[c] = m
        BY <2>1, <2>3, <3>1, <3>2, <4>1 DEF Listed
      <4>2. CASE NodeOf[c] # m
        BY <1>2, <3>1, <3>2, <4>2 DEF Listed
      <4> QED
        BY <4>1, <4>2
    <3> QED
      BY <3>3 DEF Listed, Waiting, NoDrop
  <2> QED
    BY <1>3, <2>2, <2>3
<1>4. ASSUME NEW c \in Conns
      PROVE  /\ RegisterFirst(commands'[NodeOf[c]], c)
             /\ phase'[c] = "open" => c \in lease' \/ ToRegister(commands'[NodeOf[c]], c)
  <2>1. /\ RegisterFirst(commands[NodeOf[c]], c)
        /\ phase[c] = "open" => c \in lease \/ ToRegister(commands[NodeOf[c]], c)
    BY <1>1 DEF AllLeased
  <2>2. CASE NodeOf[c] # m
    BY <1>2, <2>1, <2>2
  <2>3. CASE NodeOf[c] = m
    <3>1. /\ ToRegister(commands[m], c) \/ Enters(x, c) => ToRegister(commands'[m], c)
          /\ RegisterFirst(commands[m], c) /\ ~Enters(x, c) => RegisterFirst(commands'[m], c)
          /\ (\A i \in DOMAIN commands[m] : commands[m][i].conn # c) => RegisterFirst(commands'[m], c)
      BY <1>2, GrownRegister
    <3>2. Enters(x, c) => \A i \in DOMAIN commands[m] : commands[m][i].conn # c
      BY <1>2, <2>3 DEF Fit, WellFormed
    <3> QED
      BY <2>1, <2>3, <3>1, <3>2
  <2> QED
    BY <2>2, <2>3
<1> QED
  BY <1>3, <1>4 DEF AllListed, AllLeased, RegisterFirst, ToRegister

\* Requests, and the events of a connection, keep the others listed.
LEMMA RequestKeepsPresent ==
  ASSUME RosterBase, PresentInv, NEW c \in Conns,
         \/ Joins(c) \/ Open(c) \/ Close(c) \/ Expire(c) \/ Renewal(c)
         \/ \E r \in Rooms : RoomLeave(c, r)
  PROVE  PresentInv'
<1>0. /\ RosterTyped /\ RoomsKnown /\ NodeOf[c] \in Nodes /\ UserOf[c] \in Users
      /\ joined \in [Conns -> SUBSET Rooms] /\ phase \in [Conns -> {"new", "open", "gone"}]
  BY RosterConstants DEF RosterBase, RosterTyped
<1>1. CASE Joins(c)
  <2>1. PICK x \in RoomCommand :
         /\ x.op \in {"join", "batch"} /\ x.conn = c
         /\ commands' = [commands EXCEPT ![NodeOf[c]] = Append(commands[NodeOf[c]], x)]
         /\ joined' = [joined EXCEPT ![c] = joined[c] \cup {Head(x.rooms)}]
    BY <1>1 DEF Joins
  <2>2. UNCHANGED <<phase, lease, members, removedBy, failed>>
    BY <1>1 DEF Joins
  <2>3. /\ \A d \in Conns : \A r \in joined'[d] : r \in joined[d] \/ (d = c /\ Adds(x, d, r))
        /\ \A u, r : ~Drops(x, u, r)
        /\ \A d : ~Enters(x, d)
    BY <1>0, <2>1 DEF Adds, Drops, Enters
  <2> QED
    BY <1>0, <2>1, <2>2, <2>3, SentKeepsPresent
<1>2. CASE Open(c)
  <2> DEFINE x == Cmd("register", c, UserOf[c], <<>>)
  <2>1. /\ phase[c] = "new" /\ phase' = [phase EXCEPT ![c] = "open"] /\ joined' = joined
        /\ commands' = [commands EXCEPT ![NodeOf[c]] = Append(commands[NodeOf[c]], x)]
        /\ UNCHANGED <<lease, members, removedBy, failed>>
    BY <1>2 DEF Open, Send, redis, counters
  <2>2. x \in RoomCommand /\ x.op = "register" /\ x.conn = c
    BY RequestCommands
  <2> HIDE DEF x
  <2>3. /\ \A u, r : ~Drops(x, u, r)
        /\ \A d : Enters(x, d) <=> d = c
        /\ joined[c] = {}
    BY <1>0, <2>1, <2>2 DEF Drops, Enters, RoomsKnown
  <2>4. \A d \in Conns : phase'[d] = IF d = c THEN "open" ELSE phase[d]
    BY <1>0, <2>1
  <2>5. \A d \in Conns : phase'[d] = "open" => \A r \in joined'[d] :
          \/ phase[d] = "open" /\ r \in joined[d] /\ (NodeOf[d] = NodeOf[c] => ~Drops(x, UserOf[d], r))
          \/ NodeOf[d] = NodeOf[c] /\ Adds(x, d, r)
    BY <2>1, <2>3, <2>4
  <2>6. /\ \A d \in Conns : phase'[d] = "open" => phase[d] = "open" \/ (NodeOf[d] = NodeOf[c] /\ Enters(x, d))
        /\ \A d \in Conns : NodeOf[d] = NodeOf[c] /\ Enters(x, d) => phase[d] = "new"
    BY <2>1, <2>3, <2>4
  <2> QED
    BY <1>0, <2>1, <2>2, <2>5, <2>6, SentKeepsPresent
<1>3. CASE Close(c)
  <2> DEFINE x == Cmd("remove", c, UserOf[c], <<>>)
  <2>1. /\ phase' = [phase EXCEPT ![c] = "gone"] /\ joined' = [joined EXCEPT ![c] = {}]
        /\ commands' = [commands EXCEPT ![NodeOf[c]] = Append(commands[NodeOf[c]], x)]
        /\ UNCHANGED <<lease, members, removedBy, failed>>
    BY <1>3 DEF Close, Send, redis, counters
  <2>2. x \in RoomCommand /\ x.op = "remove"
    BY RequestCommands
  <2> HIDE DEF x
  <2>3. (\A u, r : ~Drops(x, u, r)) /\ \A d : ~Enters(x, d)
    BY <2>2 DEF Drops, Enters
  <2>4. \A d \in Conns : /\ phase'[d] = (IF d = c THEN "gone" ELSE phase[d])
                         /\ joined'[d] = IF d = c THEN {} ELSE joined[d]
    BY <1>0, <2>1
  <2> QED
    BY <1>0, <2>1, <2>2, <2>3, <2>4, SentKeepsPresent
<1>4. ASSUME UNCHANGED <<commands, phase, members, removedBy, failed>>,
             \A d \in Conns : joined'[d] \subseteq joined[d],
             \A d \in Conns : phase[d] = "open" /\ d \in lease => d \in lease'
      PROVE  PresentInv'
  <2> SUFFICES ASSUME ~failed PROVE AllListed' /\ AllLeased'
    BY <1>4 DEF PresentInv
  <2>1. AllListed'
    BY <1>4 DEF PresentInv, AllListed, Listed, InRoster, Waiting, NoDrop
  <2>2. AllLeased'
    BY <1>4 DEF PresentInv, AllLeased, RegisterFirst, ToRegister
  <2> QED
    BY <2>1, <2>2
<1>5. CASE Expire(c) \/ Renewal(c)
  <2>1. UNCHANGED <<commands, phase, joined, members, removedBy, failed>>
    BY <1>5 DEF Expire, Renewal, local, counters
  <2>2. \A d \in Conns : phase[d] = "open" /\ d \in lease => d \in lease'
    BY <1>5 DEF Expire, Renewal
  <2> QED
    BY <1>4, <2>1, <2>2
<1>6. ASSUME NEW r \in Rooms, RoomLeave(c, r) PROVE PresentInv'
  <2> DEFINE x == Cmd("leave", c, UserOf[c], <<r>>)
  <2>1. /\ phase' = phase /\ joined' = [joined EXCEPT ![c] = joined[c] \ {r}]
        /\ IF HasOther(c, r) THEN commands' = commands
           ELSE commands' = [commands EXCEPT ![NodeOf[c]] = Append(commands[NodeOf[c]], x)]
        /\ UNCHANGED <<lease, members, removedBy, failed>>
    BY <1>6 DEF RoomLeave, Send, redis
  <2>2. x \in RoomCommand /\ x.op = "leave" /\ x.user = UserOf[c] /\ x.rooms = <<r>>
    BY RequestCommands
  <2> HIDE DEF x
  <2>3. \A d \in Conns : joined'[d] = IF d = c THEN joined[d] \ {r} ELSE joined[d]
    BY <1>0, <2>1
  <2>4. CASE HasOther(c, r)
    BY <1>4, <2>1, <2>3, <2>4
  <2>5. CASE ~HasOther(c, r)
    <3>1. \A d : ~Enters(x, d)
      BY <2>2 DEF Enters
    <3>2. ASSUME NEW d \in Conns, phase[d] = "open", NEW s \in joined'[d], NodeOf[d] = NodeOf[c]
          PROVE  ~Drops(x, UserOf[d], s)
      <4> SUFFICES ASSUME Drops(x, UserOf[d], s) PROVE FALSE
        OBVIOUS
      <4>1. UserOf[d] = UserOf[c] /\ s = r
        BY <2>2 DEF Drops
      <4>2. d # c /\ r \in joined[d]
        BY <2>3, <3>2, <4>1
      <4> QED
        BY <2>5, <3>2, <4>1, <4>2 DEF HasOther, Registered
    <3>3. \A d \in Conns : phase'[d] = "open" => \A s \in joined'[d] :
            \/ phase[d] = "open" /\ s \in joined[d] /\ (NodeOf[d] = NodeOf[c] => ~Drops(x, UserOf[d], s))
            \/ NodeOf[d] = NodeOf[c] /\ Adds(x, d, s)
      BY <2>1, <2>3, <3>2
    <3>4. commands' = [commands EXCEPT ![NodeOf[c]] = Append(commands[NodeOf[c]], x)]
      BY <2>1, <2>5
    <3>5. /\ \A d \in Conns : phase'[d] = "open" => phase[d] = "open" \/ (NodeOf[d] = NodeOf[c] /\ Enters(x, d))
          /\ \A d \in Conns : NodeOf[d] = NodeOf[c] /\ Enters(x, d) => phase[d] = "new"
          /\ UNCHANGED <<lease, members, removedBy, failed>> /\ x \in RoomCommand
      BY <2>1, <2>2, <3>1
    <3> QED
      BY <1>0, <3>3, <3>4, <3>5, SentKeepsPresent
  <2> QED
    BY <2>4, <2>5
<1> QED
  BY <1>1, <1>2, <1>3, <1>5, <1>6

\* A crash takes the connections of its node away, and no others.
LEMMA CrashKeepsPresent ==
  ASSUME RosterBase, PresentInv, NEW m \in Nodes, Crash(m)
  PROVE  PresentInv'
<1> SUFFICES ASSUME ~failed PROVE AllListed' /\ AllLeased'
  BY DEF PresentInv, Crash
<1>1. AllListed /\ AllLeased
  BY DEF PresentInv
<1>2. /\ phase' = [c \in Conns |-> IF NodeOf[c] = m THEN "gone" ELSE phase[c]]
      /\ joined' = [c \in Conns |-> IF NodeOf[c] = m THEN {} ELSE joined[c]]
      /\ commands' = [commands EXCEPT ![m] = <<>>] /\ UNCHANGED <<lease, members, removedBy>>
  BY DEF Crash, redis
<1>3. /\ commands'[m] = <<>> /\ \A n \in Nodes : n # m => commands'[n] = commands[n]
      /\ \A c \in Conns : NodeOf[c] \in Nodes
      /\ \A c \in Conns : phase'[c] = "open" => NodeOf[c] # m /\ phase[c] = "open"
                                                /\ joined'[c] = joined[c]
  BY <1>2, RosterConstants DEF RosterBase, RosterTyped
<1>4. \A c : RegisterFirst(<<>>, c)
  BY DEF RegisterFirst
<1>5. \A c \in Conns : RegisterFirst(commands'[NodeOf[c]], c)
  BY <1>1, <1>3, <1>4 DEF AllLeased
<1>6. AllLeased'
  BY <1>1, <1>2, <1>3, <1>5 DEF AllLeased, RegisterFirst, ToRegister
<1>7. ASSUME NEW c \in Conns, phase'[c] = "open", NEW r \in joined'[c] PROVE Listed(c, r)'
  <2>1. Listed(c, r) /\ commands'[NodeOf[c]] = commands[NodeOf[c]]
    BY <1>1, <1>3, <1>7 DEF AllListed
  <2> QED
    BY <1>2, <2>1 DEF Listed, InRoster, Waiting, NoDrop
<1> QED
  BY <1>6, <1>7 DEF AllListed

\* A command of m is executed, and x is sent after it or not.
LEMMA ReplyKeepsPresent ==
  ASSUME RosterBase, PresentInv, failed' = failed, phase' = phase,
         NEW m \in Nodes, commands[m] # <<>>, NEW x \in RoomCommand, Replied(m, x),
         x.op \notin {"leave", "register"},
         \A c \in Conns : \A r \in joined'[c] :
           \/ r \in joined[c]
           \/ /\ NodeOf[c] = m /\ Adds(x, c, r)
              /\ commands' = [commands EXCEPT ![m] = Append(Tail(commands[m]), x)],
         \A c \in Conns : phase[c] = "open" /\ c \in lease => c \in lease',
         \A c \in Conns : Enters(Head(commands[m]), c) => c \in lease',
         \A c \in Conns : \A r \in joined[c] : InRoster(c, r) /\ phase[c] = "open" /\ c \in lease
           /\ (NodeOf[c] = m => ~Drops(Head(commands[m]), UserOf[c], r)) => InRoster(c, r)',
         \A c \in Conns : \A r \in joined[c] : Adds(Head(commands[m]), c, r) => InRoster(c, r)'
  PROVE  PresentInv'
<1> SUFFICES ASSUME ~failed PROVE AllListed' /\ AllLeased'
  BY DEF PresentInv
<1>1. AllListed /\ AllLeased
  BY DEF PresentInv
<1> DEFINE q == commands[m]
           t == Tail(q)
           k == Head(q)
<1>2. /\ commands \in [Nodes -> Seq(RoomCommand)] /\ q \in Seq(RoomCommand)
      /\ t \in Seq(RoomCommand) /\ \A c \in Conns : NodeOf[c] \in Nodes
  BY Shortened, RosterConstants DEF RosterBase, RosterTyped
<1>3. /\ commands'[m] = t \/ commands'[m] = Append(t, x)
      /\ commands' = [commands EXCEPT ![m] = Append(t, x)] => commands'[m] = Append(t, x)
      /\ \A n \in Nodes : n # m => commands'[n] = commands[n]
  BY <1>2 DEF Replied
<1>4. /\ \A c \in Conns : \A r \in joined'[c] :
           r \in joined[c] \/ (NodeOf[c] = m /\ Adds(x, c, r) /\ commands'[m] = Append(t, x))
      /\ \A c \in Conns : Enters(k, c) => c \in lease'
      /\ \A c \in Conns : \A r \in joined[c] : InRoster(c, r) /\ phase[c] = "open" /\ c \in lease
           /\ (NodeOf[c] = m => ~Drops(k, UserOf[c], r)) => InRoster(c, r)'
      /\ \A c \in Conns : \A r \in joined[c] : Adds(k, c, r) => InRoster(c, r)'
  BY <1>3
<1>5. (\A u, r : ~Drops(x, u, r)) /\ \A c : ~Enters(x, c)
  BY DEF Drops, Enters
<1> HIDE DEF t, k
<1>6. ASSUME NEW c \in Conns, NodeOf[c] = m
      PROVE  /\ RegisterFirst(commands'[m], c)
             /\ phase[c] = "open" => c \in lease' \/ ToRegister(commands'[m], c)
             /\ phase[c] = "open" /\ k.conn = c /\ ~Enters(k, c) => c \in lease
  <2>1. /\ RegisterFirst(q, c)
        /\ phase[c] = "open" => c \in lease \/ ToRegister(q, c)
    BY <1>1, <1>6 DEF AllLeased
  <2>2. /\ RegisterFirst(t, c)
        /\ ToRegister(q, c) => ToRegister(t, c) \/ Enters(k, c)
        /\ k.conn = c /\ ~Enters(k, c) => ~ToRegister(q, c)
    BY <1>2, <2>1, ShortenedRegister DEF t, k
  <2>3. /\ ToRegister(t, c) => ToRegister(Append(t, x), c)
        /\ RegisterFirst(Append(t, x), c)
    BY <1>2, <1>5, <2>2, GrownRegister
  <2> QED
    BY <1>3, <1>4, <2>1, <2>2, <2>3
<1>7. ASSUME NEW c \in Conns, phase[c] = "open", NEW r \in joined'[c]
      PROVE  \/ Waiting(commands'[NodeOf[c]], c, UserOf[c], r)
             \/ NoDrop(commands'[NodeOf[c]], UserOf[c], r) /\ c \in lease' /\ InRoster(c, r)'
  <2>1. /\ Adds(x, c, r) => Waiting(Append(t, x), c, UserOf[c], r)
        /\ Waiting(t, c, UserOf[c], r) => Waiting(Append(t, x), c, UserOf[c], r)
        /\ NoDrop(t, UserOf[c], r) => NoDrop(Append(t, x), UserOf[c], r)
    BY <1>2, <1>5, GrownEntry
  <2>2. CASE NodeOf[c] = m /\ Adds(x, c, r) /\ commands'[m] = Append(t, x)
    BY <2>1, <2>2
  <2>3. CASE r \in joined[c] /\ NodeOf[c] # m
    <3>1. Listed(c, r) /\ commands'[NodeOf[c]] = commands[NodeOf[c]]
      BY <1>1, <1>2, <1>3, <1>7, <2>3 DEF AllListed
    <3> QED
      BY <1>4, <1>7, <2>3, <3>1 DEF Listed
  <2>4. CASE r \in joined[c] /\ NodeOf[c] = m
    <3>1. Listed(c, r)
      BY <1>1, <1>7, <2>4 DEF AllListed
    <3>2. /\ Waiting(q, c, UserOf[c], r) =>
               Waiting(t, c, UserOf[c], r) \/ (Adds(k, c, r) /\ NoDrop(q, UserOf[c], r))
          /\ NoDrop(q, UserOf[c], r) => NoDrop(t, UserOf[c], r) /\ ~Drops(k, UserOf[c], r)
      BY <1>2, ShortenedEntry DEF t, k
    <3>3. Adds(k, c, r) => c \in lease' /\ InRoster(c, r)'
      BY <1>4, <1>6, <1>7, <2>4 DEF Adds, Enters
    <3>4. \/ Waiting(t, c, UserOf[c], r)
          \/ NoDrop(t, UserOf[c], r) /\ c \in lease' /\ InRoster(c, r)'
      BY <1>4, <1>7, <2>4, <3>1, <3>2, <3>3 DEF Listed
    <3> QED
      BY <1>3, <2>1, <2>4, <3>4
  <2> QED
    BY <1>4, <1>7, <2>2, <2>3, <2>4
<1> HIDE DEF q
<1>8. AllListed'
  BY <1>7 DEF AllListed, Listed, Waiting, NoDrop
<1>9. ASSUME NEW c \in Conns
      PROVE  /\ RegisterFirst(commands'[NodeOf[c]], c)
             /\ phase[c] = "open" => c \in lease' \/ ToRegister(commands'[NodeOf[c]], c)
  <2>1. CASE NodeOf[c] = m
    BY <1>6, <2>1
  <2>2. CASE NodeOf[c] # m
    BY <1>1, <1>2, <1>3, <2>2 DEF AllLeased
  <2> QED
    BY <2>1, <2>2
<1> QED
  BY <1>8, <1>9 DEF AllLeased, RegisterFirst, ToRegister

\* The execution of a command keeps connections listed.
LEMMA ExecuteKeepsPresent ==
  ASSUME RosterBase, PresentInv, NEW m \in Nodes, Execute(m)
  PROVE  PresentInv'
<1> DEFINE k == Head(commands[m])
<1>0. /\ commands[m] # <<>> /\ RosterTyped /\ failed' = failed
      /\ members \in [Rooms -> SUBSET Users] /\ joined \in [Conns -> SUBSET Rooms]
      /\ removedBy \in [Rooms -> [Users -> Nodes \cup {"none"}]]
      /\ \A c \in Conns : NodeOf[c] \in Nodes /\ UserOf[c] \in Users
  BY RosterConstants DEF Execute, counters, RosterBase, RosterTyped
<1>1. /\ WellFormed(m, k, phase, wasIn) /\ k \in RoomCommand /\ k.conn \in Conns
      /\ k.user \in Users /\ k.op \in RoomOps
  BY <1>0, FirstOf
<1>2. NodeOf[k.conn] = m /\ k.user = UserOf[k.conn]
  BY <1>1 DEF WellFormed
<1>3. CASE k.op \in {"join", "batch"}
  <2> DEFINE r0 == Head(k.rooms)
  <2>1. Add(m, k)
    BY <1>3 DEF Execute
  <2>2. r0 \in Rooms
    <3>1. k.rooms \in Seq(Rooms) /\ k.rooms # <<>>
      BY <1>1, <1>3 DEF WellFormed
    <3> QED
      BY <3>1
  <2>3. /\ Continues(m, k) /\ phase' = phase /\ lease' = lease
        /\ members' = [members EXCEPT ![r0] = members[r0] \cup {k.user}]
        /\ removedBy' = [removedBy EXCEPT ![r0][k.user] = "none"]
    <3>1. AfterAdd(m, k)
      BY <2>1 DEF Add
    <3>2. Continues(m, k)
      BY <1>0, <1>3, <3>1, AddContinues
    <3> QED
      BY <2>1, <3>2 DEF Add, NoNode
  <2> HIDE DEF k, r0
  <2>4. /\ k.user \in members'[r0]
        /\ \A r \in Rooms : \A u \in Users : /\ u \in members[r] => u \in members'[r]
                                             /\ (r # r0 \/ u # k.user) => removedBy'[r][u] = removedBy[r][u]
    BY <1>0, <1>1, <2>2, <2>3
  <2>5. \A c \in Conns : \A r \in joined[c] : Adds(k, c, r) => InRoster(c, r)'
    BY <1>2, <2>4 DEF Adds, InRoster, r0
  <2>6. \A c \in Conns : \A r \in joined[c] : InRoster(c, r) => InRoster(c, r)'
    <3> SUFFICES ASSUME NEW c \in Conns, NEW r \in joined[c], InRoster(c, r) PROVE InRoster(c, r)'
      OBVIOUS
    <3>1. r \in Rooms /\ UserOf[c] \in Users
      BY <1>0
    <3>2. CASE r = r0 /\ UserOf[c] = k.user
      BY <2>4, <3>2 DEF InRoster
    <3>3. CASE r # r0 \/ UserOf[c] # k.user
      BY <2>4, <3>1, <3>3 DEF InRoster
    <3> QED
      BY <3>2, <3>3
  <2>7. \A c : ~Enters(k, c)
    BY <1>3 DEF Enters
  <2>8. ASSUME NEW x \in RoomCommand, Replied(m, x), x.op \notin {"leave", "register"},
               \A c \in Conns : \A r \in joined'[c] :
                 \/ r \in joined[c]
                 \/ /\ NodeOf[c] = m /\ Adds(x, c, r)
                    /\ commands' = [commands EXCEPT ![m] = Append(Tail(commands[m]), x)]
        PROVE  PresentInv'
    BY <1>0, <2>3, <2>5, <2>6, <2>7, <2>8, ReplyKeepsPresent DEF k
  <2>9. ASSUME NEW x \in RoomCommand, x.op = "batch", x.conn = k.conn,
               commands' = [commands EXCEPT ![m] = Append(Tail(commands[m]), x)],
               joined' = [joined EXCEPT ![k.conn] = joined[k.conn] \cup {Head(x.rooms)}]
        PROVE  PresentInv'
    <3>1. \A c \in Conns : \A r \in joined'[c] :
            r \in joined[c] \/ (NodeOf[c] = m /\ Adds(x, c, r))
      BY <1>0, <1>1, <1>2, <2>9 DEF Adds
    <3> QED
      BY <2>8, <2>9, <3>1 DEF Replied
  <2>10. ASSUME NEW x \in RoomCommand, x.op = "roster", Replied(m, x), joined' = joined
         PROVE  PresentInv'
    BY <2>8, <2>10
  <2>11. \E x \in RoomCommand : x.op = "roster"
    <3> DEFINE x == [op |-> "roster", conn |-> k.conn, user |-> k.user, rooms |-> {}]
    <3>1. x \in RoomCommand /\ x.op = "roster"
      BY <1>1 DEF RoomCommand, RoomOps
    <3> QED
      BY <3>1
  <2> QED
    BY <2>3, <2>9, <2>10, <2>11 DEF Continues, Replied
<1>4. CASE k.op \notin {"join", "batch"}
  <2>1. /\ \/ Becomes(m, Rest(m))
           \/ Counted(m, k)
           \/ Becomes(m, Append(Rest(m), Cmd("count", k.conn, k.user, <<>>)))
        /\ phase' = phase /\ joined' = joined
    BY <1>4 DEF Execute, Srem, Roster, Register, Remove, Lease,
         Count, Publish, local
  <2>2. PICK x \in RoomCommand : Replied(m, x) /\ x.op \in {"count", "publish"}
    BY <1>0, <1>4, <2>1, ReplyEffect
  <2>3. \A c, r : ~Adds(k, c, r)
    BY <1>4 DEF Adds
  <2>4. ASSUME \A c \in Conns : phase[c] = "open" /\ c \in lease => c \in lease',
               \A c \in Conns : Enters(k, c) => c \in lease',
               \A c \in Conns : \A r \in joined[c] :
                 InRoster(c, r) /\ phase[c] = "open" /\ c \in lease
                   /\ (NodeOf[c] = m => ~Drops(k, UserOf[c], r)) => InRoster(c, r)'
        PROVE  PresentInv'
    BY <1>0, <2>1, <2>2, <2>3, <2>4, ReplyKeepsPresent
  <2>5. CASE k.op = "leave"
    <3>1. PICK s \in Rooms : k.rooms = <<s>>
      BY <1>1, <2>5 DEF WellFormed
    <3>2. Srem(m, k) /\ Head(k.rooms) = s
      BY <2>5, <3>1 DEF Execute
    <3>3. /\ members' = [members EXCEPT ![s] = members[s] \ {k.user}]
          /\ removedBy' = [removedBy EXCEPT ![s][k.user] = m]
          /\ lease' = lease
      BY <3>2 DEF Srem
    <3> HIDE DEF k
    <3>4. /\ removedBy'[s][k.user] = m
          /\ \A r \in Rooms : \A u \in Users : r # s \/ u # k.user =>
               /\ u \in members[r] => u \in members'[r]
               /\ removedBy'[r][u] = removedBy[r][u]
      BY <1>0, <1>1, <3>3
    <3>5. ASSUME NEW c \in Conns, NEW r \in joined[c], InRoster(c, r),
                 NodeOf[c] = m => ~Drops(k, UserOf[c], r)
          PROVE  InRoster(c, r)'
      <4>1. r \in Rooms /\ UserOf[c] \in Users
        BY <1>0
      <4>2. CASE r = s /\ UserOf[c] = k.user
        <5>1. NodeOf[c] # m
          BY <2>5, <3>2, <3>5, <4>2 DEF Drops
        <5> QED
          BY <3>4, <4>2, <5>1 DEF InRoster
      <4>3. CASE r # s \/ UserOf[c] # k.user
        BY <3>4, <3>5, <4>1, <4>3 DEF InRoster
      <4> QED
        BY <4>2, <4>3
    <3>6. \A c : ~Enters(k, c)
      BY <2>5 DEF Enters
    <3> QED
      BY <2>4, <3>3, <3>5, <3>6
  <2>6. CASE k.op = "roster"
    <3>1. PICK s \in Rooms : k.rooms = <<s>>
      BY <1>1, <2>6 DEF WellFormed
    <3>2. Roster(m, k) /\ Head(k.rooms) = s
      BY <2>6, <3>1 DEF Execute
    <3>3. /\ members' = [members EXCEPT ![s] = {u \in members[s] : Online(u) # {}}]
          /\ removedBy' = removedBy /\ lease' = lease
      BY <3>2 DEF Roster
    <3>4. ASSUME NEW c \in Conns, NEW r \in joined[c], InRoster(c, r), c \in lease
          PROVE  InRoster(c, r)'
      <4>1. r \in Rooms /\ Online(UserOf[c]) # {}
        BY <1>0, <3>4 DEF Online
      <4>2. UserOf[c] \in members[r] => UserOf[c] \in members'[r]
        BY <1>0, <3>3, <4>1
      <4> QED
        BY <3>3, <3>4, <4>2 DEF InRoster
    <3>5. \A c : ~Enters(k, c)
      BY <2>6 DEF Enters
    <3> HIDE DEF k
    <3> QED
      BY <2>4, <3>3, <3>4, <3>5
  <2>7. CASE k.op \notin {"leave", "roster"}
    <3>1. /\ UNCHANGED <<members, removedBy>>
          /\ \/ k.op = "register" /\ lease' = lease \cup {k.conn}
             \/ k.op = "remove" /\ lease' = lease \ {k.conn}
             \/ k.op \notin {"register", "remove"} /\ lease' = lease
      BY <1>4, <2>7 DEF Execute, Register, Remove, Lease, Count, Publish, redis
    <3>2. k.op = "remove" => phase[k.conn] = "gone"
      BY <1>1 DEF WellFormed
    <3> HIDE DEF k
    <3>3. /\ \A c \in Conns : phase[c] = "open" /\ c \in lease => c \in lease'
          /\ \A c \in Conns : Enters(k, c) => c \in lease'
      BY <3>1, <3>2 DEF Enters
    <3>4. \A c, r : InRoster(c, r) => InRoster(c, r)'
      BY <3>1 DEF InRoster
    <3> QED
      BY <2>4, <3>3, <3>4
  <2> QED
    BY <2>5, <2>6, <2>7
<1> QED
  BY <1>3, <1>4

\* The connections that are open at the start have a lease, and no room.
LEMMA PresentInit == ASSUME Init PROVE PresentInv
<1>1. \A n \in Nodes : commands[n] = <<>>
  BY DEF Init
<1>2. \A c : RegisterFirst(<<>>, c)
  BY DEF RegisterFirst
<1>3. \A c \in Conns : NodeOf[c] \in Nodes /\ joined[c] = {}
                       /\ (phase[c] = "open" => c \in lease)
  BY RosterConstants DEF Init
<1> QED
  BY <1>1, <1>2, <1>3 DEF PresentInv, AllListed, AllLeased

\* Every step keeps open connections listed.
LEMMA PresentNext ==
  ASSUME RosterBase, PresentInv, [Next]_vars
  PROVE  PresentInv'
<1>1. CASE UNCHANGED vars
  BY <1>1 DEF vars, local, redis, counters, PresentInv, AllListed, AllLeased,
       Listed, InRoster, Waiting, NoDrop, RegisterFirst, ToRegister
<1>2. ASSUME NEW c \in Conns,
             \/ Open(c) \/ Close(c) \/ Expire(c) \/ Renewal(c)
             \/ \E r \in Rooms : RoomJoin(c, r) \/ RoomLeave(c, r)
             \/ \E b \in Batches : RoomBatchJoin(c, b)
      PROVE  PresentInv'
  BY <1>2, JoinEffect, RequestKeepsPresent
<1>3. ASSUME NEW n \in Nodes, Execute(n) \/ Fail(n) \/ Crash(n)
      PROVE  PresentInv'
  <2>1. CASE Fail(n)
    BY <2>1 DEF Fail, PresentInv
  <2> QED
    BY <1>3, <2>1, ExecuteKeepsPresent, CrashKeepsPresent
<1> QED
  BY <1>1, <1>2, <1>3 DEF Next

\* RosterKeepsPresent: a user with an open connection in a room is in its roster
\* once the join is executed, unless a node that does not have the connection
\* removed the entry.
THEOREM PresentAreKept == Spec => []RosterKeepsPresent
<1>1. Init => PresentInv
  BY PresentInit
<1>2. RosterBase /\ PresentInv /\ [Next]_vars => PresentInv'
  BY PresentNext
<1>3. RosterBase /\ PresentInv => RosterKeepsPresent
  <2> SUFFICES ASSUME RosterBase, PresentInv, ~failed, NEW c \in Conns, NEW r \in joined[c],
                      phase[c] = "open", ~Pending(UserOf[c], r)
               PROVE  InRoster(c, r)
    BY DEF RosterKeepsPresent, InRoster
  <2>1. Listed(c, r) /\ NodeOf[c] \in Nodes
    BY RosterConstants DEF PresentInv, AllListed
  <2>2. ~Waiting(commands[NodeOf[c]], c, UserOf[c], r)
    <3> SUFFICES ASSUME NEW i \in DOMAIN commands[NodeOf[c]], Adds(commands[NodeOf[c]][i], c, r)
                 PROVE  Pending(UserOf[c], r)
      BY DEF Waiting
    <3> DEFINE k == commands[NodeOf[c]][i]
    <3>1. WellFormed(NodeOf[c], k, phase, wasIn)
      BY <2>1 DEF RosterBase, RosterTyped, Fit
    <3>2. k.user = UserOf[c] /\ k.op \in {"join", "batch"} /\ k.rooms \in Seq(Rooms)
          /\ k.rooms # <<>> /\ Head(k.rooms) = r
      BY <3>1 DEF WellFormed, Adds
    <3>3. 1 \in DOMAIN k.rooms /\ k.rooms[1] = r
      BY <3>2, HeadTailProperties
    <3> QED
      BY <2>1, <3>2, <3>3 DEF Pending
  <2> QED
    BY <2>1, <2>2 DEF Listed
<1> QED
  BY <1>1, <1>2, <1>3, RosterInvariant, PTL DEF Spec
=============================================================================

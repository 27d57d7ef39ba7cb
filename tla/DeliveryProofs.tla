---------------------------- MODULE DeliveryProofs ----------------------------
(***************************************************************************)
(* Proofs about Delivery, for every number of nodes, connections, events,  *)
(* faults and commands in flight.                                          *)
(***************************************************************************)
EXTENDS Delivery, TLAPS, FiniteSetTheorems

\* A step that sends an event to some sockets keeps the types of what it writes.
LEMMA SendAllTypes ==
  ASSUME TypeOK, NEW e \in Events, NEW cs \in SUBSET Conns, NEW slow \in SUBSET Conns,
         SendAll(e, cs, slow)
  PROVE  /\ received' \in [Conns -> Seq(Events)]
         /\ phase' \in [Conns -> {"open", "closing", "closed"}]
         /\ moves' \in 0..MaxMoves
<1>1. Cardinality(slow) \in Nat
  BY DeliveryAssumption, FS_Subset, FS_CardinalityType
<1>2. moves' \in 0..MaxMoves
  BY <1>1, DeliveryAssumption DEF SendAll, Move, TypeOK
<1>3. received' \in [Conns -> Seq(Events)]
  BY DEF SendAll, TypeOK
<1>4. phase' \in [Conns -> {"open", "closing", "closed"}]
  BY DEF SendAll, TypeOK
<1> QED
  BY <1>2, <1>3, <1>4

\* The first element and the rest of a queue.
LEMMA HeadTail ==
  ASSUME NEW S, NEW q \in Seq(S), q # <<>>
  PROVE  /\ Head(q) \in S /\ Tail(q) \in Seq(S)
         /\ Len(q) \in Nat \ {0} /\ Len(Tail(q)) = Len(q) - 1
         /\ Head(q) = q[1] /\ \A i \in 1..Len(Tail(q)) : Tail(q)[i] = q[i + 1]
  OBVIOUS

LEMMA MoveType ==
  ASSUME TypeOK, Move(1)
  PROVE  moves' \in 0..MaxMoves
  BY DeliveryAssumption DEF TypeOK, Move

\* A new SUBSCRIBE or UNSUBSCRIBE keeps the type of the commands.
LEMMA SendType ==
  ASSUME TypeOK, NEW n \in Nodes, NEW op \in {"sub", "unsub"}, NEW chs, Send(n, op, chs)
  PROVE  commands' \in [Nodes -> [Channels -> Seq({"sub", "unsub"})]]
<1>1. commands \in [Nodes -> [Channels -> Seq({"sub", "unsub"})]]
  BY DEF TypeOK
<1>2. \A ch \in Channels : Append(commands[n][ch], op) \in Seq({"sub", "unsub"})
  BY <1>1
<1> QED
  BY <1>1, <1>2 DEF Send

LEMMA InitTypes == Init => TypeOK
<1> SUFFICES ASSUME Init PROVE TypeOK
  OBVIOUS
<1>1. /\ members \in [Channels -> SUBSET Conns]
      /\ commands \in [Nodes -> [Channels -> Seq({"sub", "unsub"})]]
  BY DeliveryAssumption DEF Init
<1>2. listening \in [Nodes -> SUBSET Channels]
  BY DEF Init
<1> QED
  BY <1>1, <1>2, DeliveryAssumption DEF Init, TypeOK, Clients

LEMMA NextTypes == TypeOK /\ [Next]_vars => TypeOK'
<1> SUFFICES ASSUME TypeOK, [Next]_vars PROVE TypeOK'
  OBVIOUS
<1>1. ASSUME NEW c \in Conns, Close(c) PROVE TypeOK'
  <2>1. commands' \in [Nodes -> [Channels -> Seq({"sub", "unsub"})]]
    BY <1>1, SendType, DeliveryAssumption DEF Close
  <2> QED
    BY <1>1, <2>1, MoveType DEF Close, TypeOK, redis
<1>2. ASSUME NEW c \in Conns, NEW r \in Rooms \cap Channels, Join(c, r) PROVE TypeOK'
  <2>1. commands' \in [Nodes -> [Channels -> Seq({"sub", "unsub"})]]
    BY <1>2, SendType, DeliveryAssumption DEF Join
  <2> QED
    BY <1>2, <2>1, MoveType DEF Join, TypeOK, redis
<1>3. ASSUME NEW c \in Conns, NEW r \in Rooms \cap Channels, Leave(c, r) PROVE TypeOK'
  <2>1. commands' \in [Nodes -> [Channels -> Seq({"sub", "unsub"})]]
    BY <1>3, SendType, DeliveryAssumption DEF Leave
  <2> QED
    BY <1>3, <2>1, MoveType DEF Leave, TypeOK, redis
<1>4. ASSUME NEW c \in Conns, NEW e \in Events, NEW slow \in SUBSET Conns,
             Execute(c, e, slow)
      PROVE  TypeOK'
  <2> DEFINE n == NodeOf[c]
             ch == ChannelOf[e]
             self == IF ch \in Rooms THEN {c} ELSE {}
             here == Local(n, ch) \ self
             there == {d \in members[ch] : /\ MayPublish(n) /\ NodeOf[d] # n
                                           /\ Subscribed(NodeOf[d], ch)
                                           /\ e \notin cache[NodeOf[d]]}
  <2>0. n \in Nodes /\ ch \in Channels /\ members[ch] \subseteq Conns
    BY DeliveryAssumption DEF TypeOK, Channels
  <2>1. here \in SUBSET Conns /\ there \in SUBSET Conns
    BY <2>0 DEF Local
  <2>2. /\ SendAll(e, here, slow)
        /\ cache' = [cache EXCEPT ![n] = @ \cup {e}]
        /\ executed' = [executed EXCEPT ![n] = Append(@, e)]
        /\ IF MayPublish(n) THEN Enqueue(n, e) ELSE UNCHANGED outbox
        /\ audience' = [audience EXCEPT ![e] = (@ \cup here \cup there) \ self]
        /\ UNCHANGED <<commands, members, pushed, inbox, redis>>
    BY <1>4 DEF Execute
  <2> HIDE DEF here, there, n, ch, self
  <2>3. /\ received' \in [Conns -> Seq(Events)]
        /\ phase' \in [Conns -> {"open", "closing", "closed"}]
        /\ moves' \in 0..MaxMoves
    BY <2>1, <2>2, SendAllTypes
  <2>4. executed' \in [Nodes -> Seq(Events)] /\ cache' \in [Nodes -> SUBSET Events]
    BY <2>0, <2>2 DEF TypeOK
  <2>5. /\ outbox' \in [Nodes -> Seq(Events)]
        /\ \A m \in Nodes : pushed[m] <= Len(outbox'[m]) /\ Len(outbox'[m]) <= MaxInFlight[m]
    <3>1. /\ outbox \in [Nodes -> Seq(Events)] /\ pushed \in [Nodes -> Nat]
          /\ \A m \in Nodes : /\ pushed[m] <= Len(outbox[m])
                              /\ Len(outbox[m]) <= MaxInFlight[m]
          /\ MaxInFlight \in [Nodes -> Nat \ {0}]
      BY DeliveryAssumption DEF TypeOK
    <3>2. CASE MayPublish(n)
      <4>1. outbox' = [outbox EXCEPT ![n] = Append(outbox[n], e)]
        BY <2>2, <3>2 DEF Enqueue
      <4>2. /\ Append(outbox[n], e) \in Seq(Events)
            /\ Len(Append(outbox[n], e)) = Len(outbox[n]) + 1
            /\ Len(outbox[n]) \in Nat
        BY <2>0, <3>1
      <4>3. Len(outbox[n]) < MaxInFlight[n]
        BY <3>2 DEF MayPublish
      <4> QED
        BY <2>0, <3>1, <4>1, <4>2, <4>3
    <3>3. CASE ~MayPublish(n)
      BY <2>2, <3>1, <3>3
    <3> QED
      BY <3>2, <3>3
  <2>6. audience' \in [Events -> SUBSET Conns]
    BY <2>1, <2>2 DEF TypeOK
  <2> QED
    BY <2>2, <2>3, <2>4, <2>5, <2>6 DEF TypeOK, redis
<1>5. ASSUME NEW n \in Nodes, NEW slow \in SUBSET Conns, Inbound(n, slow)
      PROVE  TypeOK'
  <2> DEFINE e == Head(inbox[n]).ev
             here == Local(n, ChannelOf[e])
  <2>1. Head(inbox[n]) \in Message /\ e \in Events /\ Tail(inbox[n]) \in Seq(Message)
    <3>1. inbox[n] \in Seq(Message) /\ inbox[n] # <<>>
      BY <1>5 DEF Inbound, TypeOK
    <3>2. Head(inbox[n]) \in Message /\ Tail(inbox[n]) \in Seq(Message)
      BY <3>1, HeadTail
    <3> QED
      BY <3>2 DEF Message
  <2>2. here \in SUBSET Conns
    <3>1. ChannelOf[e] \in Channels /\ members \in [Channels -> SUBSET Conns]
      BY <2>1 DEF Channels, TypeOK
    <3> HIDE DEF e
    <3> QED
      BY <3>1 DEF Local
  <2>3. \/ UNCHANGED <<phase, moves, cache, received>>
        \/ SendAll(e, here, slow) /\ cache' = [cache EXCEPT ![n] = @ \cup {e}]
    BY <1>5 DEF Inbound
  <2>4. /\ inbox' = [inbox EXCEPT ![n] = Tail(@)]
        /\ UNCHANGED <<commands, members, executed, outbox, pushed, redis, audience>>
    BY <1>5 DEF Inbound
  <2> HIDE DEF e, here
  <2>5. /\ received' \in [Conns -> Seq(Events)]
        /\ phase' \in [Conns -> {"open", "closing", "closed"}]
        /\ moves' \in 0..MaxMoves
    BY <2>1, <2>2, <2>3, SendAllTypes DEF TypeOK
  <2>6. cache' \in [Nodes -> SUBSET Events] /\ inbox' \in [Nodes -> Seq(Message)]
    <3>1. cache' \in [Nodes -> SUBSET Events]
      <4>1. cache \in [Nodes -> SUBSET Events]
        BY DEF TypeOK
      <4>2. cache' = cache \/ cache' = [cache EXCEPT ![n] = cache[n] \cup {e}]
        BY <2>3
      <4> QED
        BY <2>1, <4>1, <4>2
    <3>2. inbox \in [Nodes -> Seq(Message)]
      BY DEF TypeOK
    <3>3. inbox' \in [Nodes -> Seq(Message)]
      <4>1. inbox' = [inbox EXCEPT ![n] = Tail(inbox[n])]
        BY <2>4
      <4> QED
        BY <2>1, <3>2, <4>1
    <3> QED
      BY <3>1, <3>3
  <2> QED
    BY <2>4, <2>5, <2>6 DEF TypeOK, redis
<1>6. ASSUME NEW n \in Nodes, Push(n) PROVE TypeOK'
  <2> DEFINE e == outbox[n][pushed[n] + 1]
  <2>1. e \in Events /\ [ev |-> e, origin |-> n] \in Message
    BY <1>6 DEF Push, TypeOK, Message
  <2>2. /\ pushed[n] < Len(outbox[n])
        /\ pushed' = [pushed EXCEPT ![n] = @ + 1]
        /\ inbox' = [m \in Nodes |->
             IF ChannelOf[e] \in listening[m]
               THEN Append(inbox[m], [ev |-> e, origin |-> n]) ELSE inbox[m]]
        /\ UNCHANGED <<commands, sockets, cache, executed, received, outbox, redis, audience>>
    BY <1>6 DEF Push
  <2> HIDE DEF e
  <2>3. inbox' \in [Nodes -> Seq(Message)]
    BY <2>1, <2>2 DEF TypeOK
  <2>4. pushed' \in [Nodes -> Nat] /\ \A m \in Nodes : pushed'[m] <= Len(outbox[m])
    BY <2>2 DEF TypeOK
  <2> QED
    BY <2>2, <2>3, <2>4 DEF TypeOK, sockets, redis
<1>7. ASSUME NEW n \in Nodes, Answer(n) PROVE TypeOK'
  <2>1. pushed[n] > 0 /\ pushed[n] \in Nat /\ pushed[n] <= Len(outbox[n])
    BY <1>7 DEF Answer, TypeOK
  <2>2. Tail(outbox[n]) \in Seq(Events) /\ Len(Tail(outbox[n])) = Len(outbox[n]) - 1
    <3>1. outbox[n] \in Seq(Events) /\ outbox[n] # <<>>
      BY <2>1 DEF TypeOK
    <3> QED
      BY <3>1, HeadTail
  <2>3. pushed' \in [Nodes -> Nat] /\ outbox' \in [Nodes -> Seq(Events)]
    BY <1>7, <2>1, <2>2 DEF Answer, TypeOK
  <2>4. \A m \in Nodes : pushed'[m] <= Len(outbox'[m]) /\ Len(outbox'[m]) <= MaxInFlight[m]
    <3>1. /\ pushed' = [pushed EXCEPT ![n] = pushed[n] - 1]
          /\ outbox' = [outbox EXCEPT ![n] = Tail(outbox[n])]
      BY <1>7 DEF Answer
    <3>2. /\ outbox \in [Nodes -> Seq(Events)] /\ pushed \in [Nodes -> Nat]
          /\ \A m \in Nodes : /\ pushed[m] <= Len(outbox[m])
                              /\ Len(outbox[m]) <= MaxInFlight[m]
          /\ MaxInFlight \in [Nodes -> Nat \ {0}]
          /\ Len(outbox[n]) \in Nat
      BY DeliveryAssumption DEF TypeOK
    <3> QED
      BY <2>1, <2>2, <3>1, <3>2
  <2> QED
    BY <1>7, <2>3, <2>4 DEF Answer, TypeOK, sockets, redis
<1>8. ASSUME NEW n \in Nodes, PublishFails(n) PROVE TypeOK'
  <2>1. Tail(outbox[n]) \in Seq(Events) /\ Len(Tail(outbox[n])) = Len(outbox[n]) - 1
    <3>1. outbox[n] \in Seq(Events) /\ outbox[n] # <<>>
      BY <1>8 DEF PublishFails, TypeOK
    <3> QED
      BY <3>1, HeadTail
  <2>2. outbox' \in [Nodes -> Seq(Events)]
    BY <1>8, <2>1 DEF PublishFails, TypeOK
  <2>3. \A m \in Nodes : pushed[m] <= Len(outbox'[m]) /\ Len(outbox'[m]) <= MaxInFlight[m]
    <3>1. outbox' = [outbox EXCEPT ![n] = Tail(outbox[n])] /\ pushed[n] = 0
      BY <1>8 DEF PublishFails
    <3>2. /\ outbox \in [Nodes -> Seq(Events)]
          /\ \A m \in Nodes : /\ pushed[m] <= Len(outbox[m])
                              /\ Len(outbox[m]) <= MaxInFlight[m]
          /\ MaxInFlight \in [Nodes -> Nat \ {0}]
          /\ Len(outbox[n]) \in Nat /\ Len(Tail(outbox[n])) \in Nat
      BY <2>1, DeliveryAssumption DEF TypeOK
    <3> QED
      BY <2>1, <3>1, <3>2
  <2>4. faults' \in 0..MaxFaults
    BY <1>8, DeliveryAssumption DEF PublishFails, Fault, TypeOK
  <2>5. audience' \in [Events -> SUBSET Conns]
    BY <1>8 DEF PublishFails, TypeOK
  <2> QED
    BY <1>8, <2>2, <2>3, <2>4, <2>5 DEF PublishFails, TypeOK, sockets
<1>9. ASSUME NEW n \in Nodes, PublisherLost(n) PROVE TypeOK'
  <2>1. faults' \in 0..MaxFaults
    BY <1>9, DeliveryAssumption DEF PublisherLost, Fault, TypeOK
  <2>2. \A m \in Nodes : pushed'[m] <= Len(outbox[m])
    BY <1>9 DEF PublisherLost, TypeOK
  <2> QED
    BY <1>9, <2>1, <2>2 DEF PublisherLost, TypeOK, sockets, Clients
<1>10. ASSUME NEW n \in Nodes, SubscriberLost(n) PROVE TypeOK'
  <2>1. faults' \in 0..MaxFaults
    BY <1>10, DeliveryAssumption DEF SubscriberLost, Fault, TypeOK
  <2>2. audience' \in [Events -> SUBSET Conns]
    BY <1>10 DEF SubscriberLost, TypeOK
  <2> QED
    BY <1>10, <2>1, <2>2 DEF SubscriberLost, TypeOK, sockets, Clients
<1>11. ASSUME NEW n \in Nodes, NEW ch \in Channels, Obey(n, ch) PROVE TypeOK'
  <2>1. commands' \in [Nodes -> [Channels -> Seq({"sub", "unsub"})]]
    <3>1. commands \in [Nodes -> [Channels -> Seq({"sub", "unsub"})]]
      BY DEF TypeOK
    <3>2. Tail(commands[n][ch]) \in Seq({"sub", "unsub"})
      BY <1>11, <3>1, HeadTail DEF Obey
    <3> QED
      BY <1>11, <3>1, <3>2 DEF Obey
  <2>2. listening' \in [Nodes -> SUBSET Channels]
    BY <1>11 DEF Obey, TypeOK
  <2> QED
    BY <1>11, <2>1, <2>2 DEF Obey, TypeOK, sockets
<1>12. ASSUME NEW client \in Clients, Ready(client) PROVE TypeOK'
  <2>1. commands' \in [Nodes -> [Channels -> Seq({"sub", "unsub"})]]
    <3>1. /\ commands \in [Nodes -> [Channels -> Seq({"sub", "unsub"})]]
          /\ client[1] \in Nodes
      BY DEF TypeOK, Clients
    <3>2. \A ch \in Channels :
            Append(commands[client[1]][ch], "sub") \in Seq({"sub", "unsub"})
      BY <3>1
    <3> QED
      BY <1>12, <3>1, <3>2 DEF Ready
  <2> QED
    BY <1>12, <2>1 DEF Ready, TypeOK, sockets
<1>13. CASE UNCHANGED vars
  BY <1>13 DEF vars, sockets, redis, TypeOK
<1> QED
  BY <1>1, <1>2, <1>3, <1>4, <1>5, <1>6, <1>7, <1>8, <1>9, <1>10, <1>11, <1>12, <1>13
  DEF Next

\* Tables, caches and queues keep their types, and no node ever has more than
\* maxInFlightPublishes commands in flight.
THEOREM TypeCorrect == Spec => []TypeOK
  BY InitTypes, NextTypes, PTL DEF Spec

-----------------------------------------------------------------------------
(***************************************************************************)
(* The promise.                                                            *)
(***************************************************************************)

Accepted == {e \in Events : \E n \in Nodes : Executed(n, e)}

\* A node remembers what its sockets have.
Known == \A c \in Conns, e \in Events : Has(c, e) => e \in cache[NodeOf[c]]

\* Only executed events travel between the nodes.
Honest ==
  /\ \A n \in Nodes : \A i \in DOMAIN outbox[n] : outbox[n][i] \in Accepted
  /\ \A n \in Nodes : \A i \in DOMAIN inbox[n] : inbox[n][i].ev \in Accepted

OnceInv == TypeOK /\ Known /\ Honest

\* After SendAll a socket has what it had, and e if e was sent to it.
LEMMA ReceivedAfter ==
  ASSUME TypeOK, NEW e \in Events, NEW cs \in SUBSET Conns, NEW slow \in SUBSET Conns,
         SendAll(e, cs, slow), NEW c \in Conns, NEW x \in Events, Has(c, x)'
  PROVE  Has(c, x) \/ (c \in cs /\ x = e)
<1>1. received[c] \in Seq(Events)
  BY DEF TypeOK
<1>2. received'[c] = received[c] \/ (c \in cs /\ received'[c] = Append(received[c], e))
  BY DEF SendAll
<1>3. PICK i \in DOMAIN received'[c] : received'[c][i] = x
  BY DEF Has
<1>4. CASE received'[c] = received[c]
  BY <1>3, <1>4 DEF Has
<1>5. CASE c \in cs /\ received'[c] = Append(received[c], e)
  <2>1. i \in 1..(Len(received[c]) + 1)
    BY <1>1, <1>3, <1>5
  <2>2. CASE i = Len(received[c]) + 1
    BY <1>1, <1>3, <1>5, <2>2
  <2>3. CASE i \in 1..Len(received[c])
    BY <1>1, <1>3, <1>5, <2>3 DEF Has
  <2> QED
    BY <1>1, <2>1, <2>2, <2>3
<1> QED
  BY <1>2, <1>4, <1>5

\* A step that appends e to what a node executed accepts e and nothing else.
LEMMA AcceptedAfter ==
  ASSUME TypeOK, NEW n \in Nodes, NEW e \in Events,
         executed' = [executed EXCEPT ![n] = Append(executed[n], e)]
  PROVE  Accepted' = Accepted \cup {e}
<1>1. executed \in [Nodes -> Seq(Events)]
  BY DEF TypeOK
<1>2. ASSUME NEW m \in Nodes, NEW x \in Events
      PROVE  Executed(m, x)' <=> Executed(m, x) \/ (m = n /\ x = e)
  <2>1. CASE m # n
    BY <1>1, <2>1 DEF Executed
  <2>2. CASE m = n
    <3>1. executed'[m] = Append(executed[m], e) /\ executed[m] \in Seq(Events)
      BY <1>1, <2>2
    <3>2. /\ DOMAIN executed'[m] = 1..(Len(executed[m]) + 1)
          /\ DOMAIN executed[m] = 1..Len(executed[m]) /\ Len(executed[m]) \in Nat
          /\ executed'[m][Len(executed[m]) + 1] = e
          /\ \A i \in 1..Len(executed[m]) : executed'[m][i] = executed[m][i]
      BY <3>1
    <3>3. \A i \in 1..(Len(executed[m]) + 1) :
            i \in 1..Len(executed[m]) \/ i = Len(executed[m]) + 1
      BY <3>2
    <3> QED
      BY <2>2, <3>2, <3>3 DEF Executed
  <2> QED
    BY <2>1, <2>2
<1> QED
  BY <1>2 DEF Accepted

\* What a queue holds after an element is appended or its first one removed.
LEMMA QueueAfter ==
  ASSUME NEW S, NEW q \in Seq(S), NEW x \in S
  PROVE  /\ \A i \in DOMAIN Append(q, x) :
              Append(q, x)[i] = x \/ \E j \in DOMAIN q : Append(q, x)[i] = q[j]
         /\ q # <<>> => \A i \in DOMAIN Tail(q) : \E j \in DOMAIN q : Tail(q)[i] = q[j]
<1>1. ASSUME NEW i \in DOMAIN Append(q, x)
      PROVE  Append(q, x)[i] = x \/ \E j \in DOMAIN q : Append(q, x)[i] = q[j]
  <2>1. i \in 1..Len(q) \/ i = Len(q) + 1
    BY <1>1
  <2> QED
    BY <2>1
<1>2. ASSUME q # <<>>, NEW i \in DOMAIN Tail(q)
      PROVE  \E j \in DOMAIN q : Tail(q)[i] = q[j]
  <2>1. i + 1 \in DOMAIN q /\ Tail(q)[i] = q[i + 1]
    BY <1>2, HeadTail
  <2> QED
    BY <2>1
<1> QED
  BY <1>1, <1>2

\* Steps that send nothing to sockets and execute nothing.
LEMMA SilentStep ==
  ASSUME OnceInv, TypeOK', UNCHANGED <<received, cache, executed>>,
         \A n \in Nodes : \A i \in DOMAIN outbox'[n] :
           \E j \in DOMAIN outbox[n] : outbox'[n][i] = outbox[n][j],
         \A n \in Nodes : \A i \in DOMAIN inbox'[n] : inbox'[n][i].ev \in Accepted
  PROVE  OnceInv' /\ UNCHANGED Once!vars
<1>1. Accepted' = Accepted
  BY DEF Accepted, Executed
<1>2. Known'
  BY DEF OnceInv, Known, Has
<1>3. Honest'
  BY <1>1 DEF OnceInv, Honest
<1> QED
  BY <1>1, <1>2, <1>3 DEF OnceInv, Once!vars, Accepted

\* Execute accepts the event and sends it to sockets that do not have it, since
\* the node does not know it.
LEMMA ExecuteStep ==
  ASSUME OnceInv, TypeOK', NEW c \in Conns, NEW e \in Events, NEW slow \in SUBSET Conns,
         Execute(c, e, slow)
  PROVE  OnceInv' /\ Once!Next
<1> DEFINE n == NodeOf[c]
           ch == ChannelOf[e]
           here == Local(n, ch) \ (IF ch \in Rooms THEN {c} ELSE {})
           cs == {d \in here \ slow : phase[d] = "open"}
<1>0. TypeOK /\ n \in Nodes /\ here \in SUBSET Conns /\ \A d \in here : NodeOf[d] = n
  <2>1. n \in Nodes /\ ch \in Channels
    BY DeliveryAssumption DEF Channels
  <2> HIDE DEF n, ch
  <2> QED
    BY <2>1 DEF OnceInv, TypeOK, Local
<1>1. /\ e \notin cache[n]
      /\ SendAll(e, here, slow)
      /\ cache' = [cache EXCEPT ![n] = cache[n] \cup {e}]
      /\ executed' = [executed EXCEPT ![n] = Append(executed[n], e)]
      /\ outbox' = outbox \/ outbox' = [outbox EXCEPT ![n] = Append(outbox[n], e)]
      /\ UNCHANGED inbox
  BY DEF Execute, Enqueue, IsDuplicate
<1> HIDE DEF n, ch, here
<1>2. Accepted' = Accepted \cup {e}
  BY <1>0, <1>1, AcceptedAfter
<1>3. Known'
  <2> SUFFICES ASSUME NEW d \in Conns, NEW x \in Events, Has(d, x)'
               PROVE  x \in cache'[NodeOf[d]]
    BY DEF Known
  <2>1. cache \in [Nodes -> SUBSET Events] /\ NodeOf[d] \in Nodes
    BY <1>0, DeliveryAssumption DEF TypeOK
  <2>2. Has(d, x) \/ (d \in here /\ x = e)
    BY <1>0, <1>1, ReceivedAfter
  <2>3. Has(d, x) => x \in cache[NodeOf[d]]
    BY DEF OnceInv, Known
  <2> QED
    BY <1>0, <1>1, <2>1, <2>2, <2>3
<1>4. Honest'
  <2>1. \A m \in Nodes : \A i \in DOMAIN outbox'[m] : outbox'[m][i] \in Accepted'
    <3> SUFFICES ASSUME NEW m \in Nodes, NEW i \in DOMAIN outbox'[m]
                 PROVE  outbox'[m][i] \in Accepted'
      OBVIOUS
    <3>1. outbox[m] \in Seq(Events) /\ \A j \in DOMAIN outbox[m] : outbox[m][j] \in Accepted
      BY <1>0 DEF OnceInv, TypeOK, Honest
    <3>2. outbox'[m] = outbox[m] \/ outbox'[m] = Append(outbox[m], e)
      <4>1. outbox \in [Nodes -> Seq(Events)]
        BY <1>0 DEF TypeOK
      <4>2. outbox' = outbox \/ outbox' = [outbox EXCEPT ![n] = Append(outbox[n], e)]
        BY <1>1
      <4> QED
        BY <4>1, <4>2
    <3>3. outbox'[m][i] = e \/ \E j \in DOMAIN outbox[m] : outbox'[m][i] = outbox[m][j]
      BY <3>1, <3>2, QueueAfter
    <3> QED
      BY <1>2, <3>1, <3>3
  <2>2. \A m \in Nodes : \A i \in DOMAIN inbox'[m] : inbox'[m][i].ev \in Accepted'
    BY <1>1, <1>2 DEF OnceInv, Honest
  <2> QED
    BY <2>1, <2>2 DEF Honest
<1>5. \A d \in cs : ~Has(d, e)
  BY <1>0, <1>1 DEF OnceInv, Known
<1>6. received' = [d \in Conns |-> IF d \in cs THEN Append(received[d], e) ELSE received[d]]
  BY <1>1 DEF SendAll
<1>7. Once!Accept(e, cs)
  BY <1>2, <1>5, <1>6 DEF Once!Accept, Once!DeliverTo, Once!Has, Has, Accepted
<1>8. cs \in SUBSET Conns
  BY <1>0
<1> QED
  BY <1>3, <1>4, <1>7, <1>8 DEF OnceInv, Once!Next

\* Inbound does nothing, or forwards an event that was executed elsewhere to
\* sockets that do not have it.
LEMMA InboundStep ==
  ASSUME OnceInv, TypeOK', NEW n \in Nodes, NEW slow \in SUBSET Conns, Inbound(n, slow)
  PROVE  OnceInv' /\ [Once!Next]_(Once!vars)
<1> DEFINE e == Head(inbox[n]).ev
           here == Local(n, ChannelOf[e])
           cs == {d \in here \ slow : phase[d] = "open"}
<1>1. /\ TypeOK /\ inbox[n] \in Seq(Message) /\ inbox[n] # <<>>
      /\ inbox' = [inbox EXCEPT ![n] = Tail(inbox[n])]
      /\ UNCHANGED <<executed, outbox>>
  BY DEF OnceInv, TypeOK, Inbound
<1>2. e \in Events /\ e \in Accepted
  <2>1. /\ Head(inbox[n]) \in Message
        /\ 1 \in DOMAIN inbox[n] /\ Head(inbox[n]) = inbox[n][1]
    BY <1>1, HeadTail
  <2>2. e \in Events
    BY <2>1 DEF Message
  <2>3. inbox[n][1].ev \in Accepted
    BY <2>1 DEF OnceInv, Honest
  <2> QED
    BY <2>1, <2>2, <2>3
<1>3. \A m \in Nodes : \A i \in DOMAIN inbox'[m] : inbox'[m][i].ev \in Accepted
  <2> SUFFICES ASSUME NEW m \in Nodes, NEW i \in DOMAIN inbox'[m]
               PROVE  inbox'[m][i].ev \in Accepted
    OBVIOUS
  <2>1. /\ inbox \in [Nodes -> Seq(Message)]
        /\ \A j \in DOMAIN inbox[m] : inbox[m][j].ev \in Accepted
    BY <1>1 DEF TypeOK, OnceInv, Honest
  <2>2. inbox'[m] = inbox[m] \/ (m = n /\ inbox'[m] = Tail(inbox[m]))
    BY <1>1, <2>1
  <2>3. \E j \in DOMAIN inbox[m] : inbox'[m][i] = inbox[m][j]
    <3>1. CASE inbox'[m] = inbox[m]
      BY <3>1
    <3>2. CASE m = n /\ inbox'[m] = Tail(inbox[m])
      <4>1. Head(inbox[m]) \in Message
        BY <1>1, <3>2, HeadTail
      <4> QED
        BY <1>1, <3>2, <4>1, QueueAfter
    <3> QED
      BY <2>2, <3>1, <3>2
  <2> QED
    BY <2>1, <2>3
<1>4. CASE UNCHANGED <<phase, moves, cache, received>>
  <2>1. UNCHANGED <<received, cache, executed, outbox>>
    BY <1>1, <1>4
  <2>2. \A m \in Nodes : \A i \in DOMAIN outbox'[m] :
          \E j \in DOMAIN outbox[m] : outbox'[m][i] = outbox[m][j]
    BY <2>1
  <2> QED
    BY <1>3, <2>1, <2>2, SilentStep
<1>5. CASE /\ e \notin cache[n]
           /\ cache' = [cache EXCEPT ![n] = cache[n] \cup {e}]
           /\ SendAll(e, here, slow)
  <2>0. here \in SUBSET Conns /\ \A d \in here : NodeOf[d] = n
    <3>1. ChannelOf[e] \in Channels /\ members \in [Channels -> SUBSET Conns]
      BY <1>1, <1>2 DEF Channels, TypeOK
    <3> HIDE DEF e
    <3> QED
      BY <3>1 DEF Local
  <2> HIDE DEF e, here
  <2>1. Accepted' = Accepted
    BY <1>1 DEF Accepted, Executed
  <2>2. Known'
    <3> SUFFICES ASSUME NEW d \in Conns, NEW x \in Events, Has(d, x)'
                 PROVE  x \in cache'[NodeOf[d]]
      BY DEF Known
    <3>1. cache \in [Nodes -> SUBSET Events] /\ NodeOf[d] \in Nodes
      BY <1>1, DeliveryAssumption DEF TypeOK
    <3>2. Has(d, x) \/ (d \in here /\ x = e)
      BY <1>1, <1>2, <1>5, <2>0, ReceivedAfter
    <3>3. Has(d, x) => x \in cache[NodeOf[d]]
      BY DEF OnceInv, Known
    <3> QED
      BY <1>5, <2>0, <3>1, <3>2, <3>3
  <2>3. Honest'
    BY <1>1, <1>3, <2>1 DEF OnceInv, Honest
  <2>4. \A d \in cs : ~Has(d, e)
    BY <1>2, <1>5, <2>0 DEF OnceInv, Known
  <2>5. received' = [d \in Conns |-> IF d \in cs THEN Append(received[d], e)
                                                 ELSE received[d]]
    BY <1>5 DEF SendAll
  <2>6. Once!Forward(e, cs)
    BY <1>2, <2>1, <2>4, <2>5 DEF Once!Forward, Once!DeliverTo, Once!Has, Has, Accepted
  <2>7. cs \in SUBSET Conns
    BY <2>0
  <2> QED
    BY <1>2, <2>2, <2>3, <2>6, <2>7 DEF OnceInv, Once!Next
<1> QED
  BY <1>4, <1>5 DEF Inbound, IsDuplicate

\* Redis repeats only what was executed.
LEMMA PushStep ==
  ASSUME OnceInv, TypeOK', NEW n \in Nodes, Push(n)
  PROVE  OnceInv' /\ UNCHANGED Once!vars
<1> DEFINE e == outbox[n][pushed[n] + 1]
           msg == [ev |-> e, origin |-> n]
<1>1. e \in Events /\ e \in Accepted
  <2>1. pushed[n] + 1 \in DOMAIN outbox[n] /\ outbox[n] \in Seq(Events)
    BY DEF OnceInv, TypeOK, Push
  <2> QED
    BY <2>1 DEF OnceInv, Honest
<1>2. /\ UNCHANGED <<received, cache, executed, outbox>>
      /\ \A m \in Nodes : inbox'[m] = inbox[m] \/ inbox'[m] = Append(inbox[m], msg)
  BY DEF Push
<1>3. msg \in Message /\ msg.ev = e
  BY <1>1 DEF Message
<1> HIDE DEF msg, e
<1>4. \A m \in Nodes : \A i \in DOMAIN inbox'[m] : inbox'[m][i].ev \in Accepted
  <2> SUFFICES ASSUME NEW m \in Nodes, NEW i \in DOMAIN inbox'[m]
               PROVE  inbox'[m][i].ev \in Accepted
    OBVIOUS
  <2>1. inbox[m] \in Seq(Message) /\ \A j \in DOMAIN inbox[m] : inbox[m][j].ev \in Accepted
    BY DEF OnceInv, TypeOK, Honest
  <2>2. inbox'[m][i] = msg \/ \E j \in DOMAIN inbox[m] : inbox'[m][i] = inbox[m][j]
    <3>1. \A j \in DOMAIN Append(inbox[m], msg) : Append(inbox[m], msg)[j] = msg
            \/ \E l \in DOMAIN inbox[m] : Append(inbox[m], msg)[j] = inbox[m][l]
      BY <1>3, <2>1, QueueAfter
    <3>2. CASE inbox'[m] = inbox[m]
      BY <3>2
    <3>3. CASE inbox'[m] = Append(inbox[m], msg)
      BY <3>1, <3>3
    <3> QED
      BY <1>2, <3>2, <3>3
  <2> QED
    BY <1>1, <1>3, <2>1, <2>2
<1> QED
  BY <1>2, <1>4, SilentStep

\* A command that is answered, or fails, leaves the others.
LEMMA DequeueStep ==
  ASSUME OnceInv, TypeOK', NEW n \in Nodes, Answer(n) \/ PublishFails(n)
  PROVE  OnceInv' /\ UNCHANGED Once!vars
<1>1. /\ outbox \in [Nodes -> Seq(Events)] /\ pushed \in [Nodes -> Nat]
      /\ pushed[n] <= Len(outbox[n])
  BY DEF OnceInv, TypeOK
<1>2. /\ outbox[n] # <<>>
      /\ outbox' = [outbox EXCEPT ![n] = Tail(outbox[n])]
      /\ UNCHANGED <<received, cache, executed, inbox>>
  BY <1>1 DEF Answer, PublishFails
<1>3. \A m \in Nodes : \A i \in DOMAIN outbox'[m] :
        \E j \in DOMAIN outbox[m] : outbox'[m][i] = outbox[m][j]
  <2>1. Head(outbox[n]) \in Events
    BY <1>1, <1>2, HeadTail
  <2>2. \A i \in DOMAIN Tail(outbox[n]) :
          \E j \in DOMAIN outbox[n] : Tail(outbox[n])[i] = outbox[n][j]
    BY <1>1, <1>2, <2>1, QueueAfter
  <2> QED
    BY <1>1, <1>2, <2>2
<1>4. \A m \in Nodes : \A i \in DOMAIN inbox'[m] : inbox'[m][i].ev \in Accepted
  BY <1>2 DEF OnceInv, Honest
<1> QED
  BY <1>2, <1>3, <1>4, SilentStep

\* Steps that leave both queues alone, or empty the inbox of a node.
LEMMA QuietStep ==
  ASSUME OnceInv, TypeOK', UNCHANGED <<received, cache, executed, outbox>>,
         \A m \in Nodes : inbox'[m] = inbox[m] \/ inbox'[m] = <<>>
  PROVE  OnceInv' /\ UNCHANGED Once!vars
<1>1. \A m \in Nodes : \A i \in DOMAIN inbox'[m] : inbox'[m][i].ev \in Accepted
  BY DEF OnceInv, Honest
<1> QED
  BY <1>1, SilentStep

\* The initial state maps to the initial state of the promise.
LEMMA OnceInit == Init => OnceInv /\ Once!Init
<1> SUFFICES ASSUME Init PROVE OnceInv /\ Once!Init
  OBVIOUS
<1>1. TypeOK
  BY InitTypes
<1>2. Accepted = {}
  BY DEF Init, Accepted, Executed
<1>3. Known /\ Honest
  BY DEF Init, Known, Honest, Has
<1> QED
  BY <1>1, <1>2, <1>3 DEF OnceInv, Once!Init, Init, Accepted

\* Every step keeps the invariant and is a step of the promise, or a stutter.
LEMMA OnceNext == OnceInv /\ [Next]_vars => OnceInv' /\ [Once!Next]_(Once!vars)
<1> SUFFICES ASSUME OnceInv, [Next]_vars PROVE OnceInv' /\ [Once!Next]_(Once!vars)
  OBVIOUS
<1>0. TypeOK'
  BY NextTypes DEF OnceInv
<1>1. ASSUME NEW c \in Conns, NEW e \in Events, NEW slow \in SUBSET Conns,
             Execute(c, e, slow)
      PROVE  OnceInv' /\ [Once!Next]_(Once!vars)
  BY <1>0, <1>1, ExecuteStep
<1>2. ASSUME NEW n \in Nodes, NEW slow \in SUBSET Conns, Inbound(n, slow)
      PROVE  OnceInv' /\ [Once!Next]_(Once!vars)
  BY <1>0, <1>2, InboundStep
<1>3. ASSUME NEW n \in Nodes, Push(n) PROVE OnceInv' /\ [Once!Next]_(Once!vars)
  BY <1>0, <1>3, PushStep
<1>4. ASSUME NEW n \in Nodes, Answer(n) \/ PublishFails(n)
      PROVE  OnceInv' /\ [Once!Next]_(Once!vars)
  BY <1>0, <1>4, DequeueStep
<1>5. ASSUME \/ \E c \in Conns : Close(c)
             \/ \E c \in Conns : \E r \in Rooms \cap Channels : Join(c, r) \/ Leave(c, r)
             \/ \E n \in Nodes : PublisherLost(n) \/ SubscriberLost(n)
             \/ \E n \in Nodes : \E ch \in Channels : Obey(n, ch)
             \/ \E client \in Clients : Ready(client)
             \/ UNCHANGED vars
      PROVE  OnceInv' /\ [Once!Next]_(Once!vars)
  <2>1. /\ UNCHANGED <<received, cache, executed, outbox>>
        /\ \A m \in Nodes : inbox'[m] = inbox[m] \/ inbox'[m] = <<>>
    BY <1>5 DEF Close, Join, Leave, PublisherLost, SubscriberLost, Obey, Ready,
                vars, OnceInv, TypeOK
  <2> QED
    BY <1>0, <2>1, QuietStep
<1> QED
  BY <1>1, <1>2, <1>3, <1>4, <1>5 DEF Next

\* Pulse implements EffectivelyOnce, with any number of nodes and faults.
THEOREM EffectivelyOnceHolds == Spec => DeliversOnce
<1>1. Spec => []OnceInv
  BY OnceInit, OnceNext, PTL DEF Spec
<1> QED
  BY <1>1, OnceInit, OnceNext, PTL DEF Spec, DeliversOnce, Once!Spec
-----------------------------------------------------------------------------
(***************************************************************************)
(* Nothing is lost.                                                        *)
(***************************************************************************)

\* c is to get e and does not have it.
Waits(c, e) == c \in audience[e] /\ phase[c] = "open" /\ ~Has(c, e)

\* e is on its way to the node of c, which stays subscribed, does not know it and
\* is going to find c in its tables.
Expected(c, e) ==
  /\ c \in members[ChannelOf[e]]
  /\ Subscribed(NodeOf[c], ChannelOf[e])
  /\ e \notin cache[NodeOf[c]]
  /\ UnderWay(e, c)

LossInv == TypeOK /\ \A c \in Conns, e \in Events : Waits(c, e) => Expected(c, e)

\* A node stays subscribed as long as it hears nothing else, asks for a channel
\* once more, or gives up another one.
LEMMA SubscribedSame ==
  ASSUME UNCHANGED <<commands, listening>>
  PROVE  \A n \in Nodes, ch \in Channels : Subscribed(n, ch)' <=> Subscribed(n, ch)
  BY DEF Subscribed

LEMMA SubscribedSend ==
  ASSUME TypeOK, NEW n \in Nodes, NEW op, NEW chs, Send(n, op, chs), UNCHANGED listening,
         NEW m \in Nodes, NEW ch \in Channels, Subscribed(m, ch),
         m = n /\ ch \in chs => op = "sub"
  PROVE  Subscribed(m, ch)'
<1>1. /\ commands \in [Nodes -> [Channels -> Seq({"sub", "unsub"})]]
      /\ \A i \in DOMAIN commands[m][ch] : commands[m][ch][i] = "sub"
  BY DEF TypeOK, Subscribed
<1>2. \/ commands'[m][ch] = commands[m][ch]
      \/ op = "sub" /\ commands'[m][ch] = Append(commands[m][ch], op)
  BY <1>1 DEF Send
<1>3. commands[m][ch] \in Seq({"sub", "unsub"})
  BY <1>1
<1>4. CASE commands'[m][ch] = commands[m][ch]
  BY <1>4 DEF Subscribed
<1>5. CASE op = "sub" /\ commands'[m][ch] = Append(commands[m][ch], op)
  <2>1. \A i \in DOMAIN commands'[m][ch] : commands'[m][ch][i] = "sub"
    BY <1>1, <1>3, <1>5
  <2> QED
    BY <2>1 DEF Subscribed
<1> QED
  BY <1>2, <1>4, <1>5

\* What SendAll does to one socket.
LEMMA SentTo ==
  ASSUME TypeOK, NEW e \in Events, NEW cs \in SUBSET Conns, NEW slow \in SUBSET Conns,
         SendAll(e, cs, slow), NEW c \in Conns, phase'[c] = "open"
  PROVE  /\ phase[c] = "open"
         /\ \A x \in Events : Has(c, x) => Has(c, x)'
         /\ c \in cs => Has(c, e)'
<1>1. received[c] \in Seq(Events) /\ phase[c] = "open" /\ c \notin slow
  BY DEF TypeOK, SendAll
<1>2. received'[c] = IF c \in cs THEN Append(received[c], e) ELSE received[c]
  BY <1>1 DEF SendAll
<1>3. CASE c \notin cs
  BY <1>1, <1>2, <1>3 DEF Has
<1>4. CASE c \in cs
  <2>1. /\ DOMAIN received'[c] = 1..(Len(received[c]) + 1)
        /\ DOMAIN received[c] = 1..Len(received[c]) /\ Len(received[c]) \in Nat
        /\ received'[c][Len(received[c]) + 1] = e
        /\ \A i \in 1..Len(received[c]) : received'[c][i] = received[c][i]
    BY <1>1, <1>2, <1>4
  <2>2. Len(received[c]) + 1 \in DOMAIN received'[c]
    BY <2>1
  <2>3. \A i \in DOMAIN received[c] : i \in DOMAIN received'[c]
    BY <2>1
  <2> QED
    BY <1>1, <2>1, <2>2, <2>3 DEF Has
<1> QED
  BY <1>1, <1>3, <1>4

\* A new command is outgoing, and so are those that were.
LEMMA OutgoingAppend ==
  ASSUME TypeOK, NEW n \in Nodes, NEW e \in Events, UNCHANGED pushed,
         outbox' = [outbox EXCEPT ![n] = Append(outbox[n], e)]
  PROVE  /\ Outgoing(e, n)'
         /\ \A x \in Events, m \in Nodes : Outgoing(x, m) => Outgoing(x, m)'
<1>1. /\ outbox \in [Nodes -> Seq(Events)] /\ pushed[n] \in Nat
      /\ pushed[n] <= Len(outbox[n]) /\ Len(outbox[n]) \in Nat
  BY DEF TypeOK
<1>2. /\ Len(outbox'[n]) = Len(outbox[n]) + 1
      /\ outbox'[n][Len(outbox[n]) + 1] = e
      /\ \A i \in 1..Len(outbox[n]) : outbox'[n][i] = outbox[n][i]
      /\ \A m \in Nodes \ {n} : outbox'[m] = outbox[m]
  BY <1>1
<1>3. Outgoing(e, n)'
  <2>1. Len(outbox[n]) + 1 \in (pushed[n] + 1)..(Len(outbox[n]) + 1)
    BY <1>1
  <2> QED
    BY <1>2, <2>1 DEF Outgoing
<1>4. ASSUME NEW x \in Events, Outgoing(x, n) PROVE Outgoing(x, n)'
  <2>1. PICK i \in (pushed[n] + 1)..Len(outbox[n]) : outbox[n][i] = x
    BY <1>4 DEF Outgoing
  <2>2. /\ i \in (pushed[n] + 1)..(Len(outbox[n]) + 1)
        /\ i \in 1..Len(outbox[n])
    BY <1>1, <2>1
  <2> QED
    BY <1>2, <2>1, <2>2 DEF Outgoing
<1>5. ASSUME NEW x \in Events, NEW m \in Nodes, m # n, Outgoing(x, m)
      PROVE  Outgoing(x, m)'
  BY <1>2, <1>5 DEF Outgoing
<1> QED
  BY <1>3, <1>4, <1>5

\* When the oldest command is gone the others are still outgoing.
LEMMA OutgoingTail ==
  ASSUME TypeOK, NEW n \in Nodes, outbox[n] # <<>>,
         outbox' = [outbox EXCEPT ![n] = Tail(outbox[n])],
         pushed' = [pushed EXCEPT ![n] = IF pushed[n] = 0 THEN 0 ELSE pushed[n] - 1],
         NEW x \in Events, NEW m \in Nodes, Outgoing(x, m)
  PROVE  Outgoing(x, m)' \/ (m = n /\ pushed[n] = 0 /\ x = Head(outbox[n]))
<1>1. /\ outbox \in [Nodes -> Seq(Events)] /\ pushed \in [Nodes -> Nat]
      /\ pushed[n] <= Len(outbox[n]) /\ Len(outbox[n]) \in Nat
  BY DEF TypeOK
<1>2. CASE m # n
  BY <1>1, <1>2 DEF Outgoing
<1>3. CASE m = n
  <2>1. PICK i \in (pushed[n] + 1)..Len(outbox[n]) : outbox[n][i] = x
    BY <1>3 DEF Outgoing
  <2>2. /\ Len(Tail(outbox[n])) = Len(outbox[n]) - 1
        /\ Head(outbox[n]) = outbox[n][1]
        /\ \A j \in 1..Len(Tail(outbox[n])) : Tail(outbox[n])[j] = outbox[n][j + 1]
    BY <1>1, HeadTail
  <2>3. outbox'[n] = Tail(outbox[n]) /\ pushed'[n] \in Nat
        /\ (pushed[n] = 0 => pushed'[n] = 0) /\ (pushed[n] # 0 => pushed'[n] = pushed[n] - 1)
    BY <1>1
  <2>4. CASE i = 1
    BY <1>1, <1>3, <2>1, <2>2, <2>4
  <2>5. CASE i # 1
    <3>1. /\ i - 1 \in 1..Len(Tail(outbox[n]))
          /\ i - 1 \in (pushed'[n] + 1)..Len(Tail(outbox[n]))
      BY <1>1, <2>1, <2>2, <2>3, <2>5
    <3>2. Tail(outbox[n])[i - 1] = x
      <4>1. Tail(outbox[n])[i - 1] = outbox[n][(i - 1) + 1] /\ (i - 1) + 1 = i
        BY <2>1, <2>2, <3>1
      <4> QED
        BY <2>1, <4>1
    <3> QED
      BY <1>3, <2>3, <3>1, <3>2 DEF Outgoing
  <2> QED
    BY <2>4, <2>5
<1> QED
  BY <1>2, <1>3

\* When the first message is gone the others are still incoming.
LEMMA IncomingTail ==
  ASSUME TypeOK, NEW n \in Nodes, inbox[n] # <<>>,
         inbox' = [inbox EXCEPT ![n] = Tail(inbox[n])],
         NEW x \in Events, NEW m \in Nodes, Incoming(x, m)
  PROVE  \/ Incoming(x, m)'
         \/ m = n /\ x = Head(inbox[n]).ev /\ Head(inbox[n]).origin # n
<1>1. inbox \in [Nodes -> Seq(Message)]
  BY DEF TypeOK
<1>2. CASE m # n
  BY <1>1, <1>2 DEF Incoming
<1>3. CASE m = n
  <2>1. PICK i \in DOMAIN inbox[n] : inbox[n][i].ev = x /\ inbox[n][i].origin # n
    BY <1>3 DEF Incoming
  <2>2. /\ Len(inbox[n]) \in Nat /\ Len(Tail(inbox[n])) = Len(inbox[n]) - 1
        /\ Head(inbox[n]) = inbox[n][1]
        /\ DOMAIN inbox[n] = 1..Len(inbox[n])
        /\ DOMAIN Tail(inbox[n]) = 1..Len(Tail(inbox[n]))
        /\ \A j \in 1..Len(Tail(inbox[n])) : Tail(inbox[n])[j] = inbox[n][j + 1]
    BY <1>1, HeadTail
  <2>3. CASE i = 1
    BY <1>3, <2>1, <2>2, <2>3
  <2>4. CASE i # 1
    <3>1. i - 1 \in DOMAIN Tail(inbox[n]) /\ (i - 1) + 1 = i
      BY <2>1, <2>2, <2>4
    <3>2. Tail(inbox[n])[i - 1] = inbox[n][i]
      <4>1. Tail(inbox[n])[i - 1] = inbox[n][(i - 1) + 1]
        BY <2>2, <3>1
      <4> QED
        BY <3>1, <4>1
    <3>3. inbox'[n] = Tail(inbox[n])
      BY <1>1
    <3> QED
      BY <1>3, <2>1, <3>1, <3>2, <3>3 DEF Incoming
  <2> QED
    BY <2>3, <2>4
<1> QED
  BY <1>2, <1>3

\* Steps that touch neither sockets nor caches, let no audience grow and no node
\* that is waited for stop listening.
LEMMA RouteStep ==
  ASSUME LossInv, TypeOK', UNCHANGED <<phase, members, received, cache>>,
         \A e \in Events : audience'[e] \subseteq audience[e],
         \A c \in Conns, e \in Events : Waits(c, e) /\ Waits(c, e)' =>
            UnderWay(e, c)' /\ Subscribed(NodeOf[c], ChannelOf[e])'
  PROVE  LossInv'
<1> SUFFICES ASSUME NEW c \in Conns, NEW e \in Events, Waits(c, e)'
             PROVE  Expected(c, e)'
  BY DEF LossInv
<1>1. Waits(c, e)
  BY DEF Waits, Has
<1>2. Expected(c, e)
  BY <1>1 DEF LossInv
<1> QED
  BY <1>1, <1>2 DEF Expected

\* A join, a leave or a close: who leaves is no longer waited for.
LEMMA TableStep ==
  ASSUME LossInv, TypeOK', NEW c \in Conns,
         Close(c) \/ \E r \in Rooms \cap Channels : Join(c, r) \/ Leave(c, r)
  PROVE  LossInv'
<1> SUFFICES ASSUME NEW d \in Conns, NEW e \in Events, Waits(d, e)'
             PROVE  Expected(d, e)'
  BY DEF LossInv
<1>0. /\ members \in [Channels -> SUBSET Conns] /\ ChannelOf[e] \in Channels
      /\ phase \in [Conns -> {"open", "closing", "closed"}]
      /\ audience \in [Events -> SUBSET Conns]
  BY DEF LossInv, TypeOK, Channels
<1>1. /\ UNCHANGED <<received, cache, outbox, pushed, inbox, listening>>
      /\ Waits(d, e) /\ (d \in members[ChannelOf[e]] => d \in members'[ChannelOf[e]])
  <2>1. CASE Close(c)
    BY <1>0, <2>1 DEF Close, redis, Waits, Has
  <2>2. CASE \E r \in Rooms \cap Channels : Join(c, r)
    BY <1>0, <2>2 DEF Join, redis, Waits, Has
  <2>3. CASE \E r \in Rooms \cap Channels : Leave(c, r)
    BY <1>0, <2>3 DEF Leave, redis, Waits, Has
  <2> QED
    BY <2>1, <2>2, <2>3
<1>2. Expected(d, e)
  BY <1>1 DEF LossInv
<1>3. UnderWay(e, d)'
  BY <1>1, <1>2 DEF Expected, UnderWay, Outgoing, Incoming
<1>4. Subscribed(NodeOf[d], ChannelOf[e])'
  <2>1. /\ Subscribed(NodeOf[d], ChannelOf[e]) /\ d \in members[ChannelOf[e]]
        /\ NodeOf[c] \in Nodes /\ NodeOf[d] \in Nodes /\ TypeOK
    BY <1>2, DeliveryAssumption DEF Expected, LossInv
  <2>2. ASSUME NEW chs, Send(NodeOf[c], "unsub", Emptied(c, chs)),
               d # c \/ ChannelOf[e] \notin chs
        PROVE  Subscribed(NodeOf[d], ChannelOf[e])'
    <3>1. ~(NodeOf[d] = NodeOf[c] /\ ChannelOf[e] \in Emptied(c, chs))
      BY <2>1, <2>2 DEF Emptied, Local
    <3> QED
      BY <1>0, <1>1, <2>1, <2>2, <3>1, SubscribedSend
  <2>3. CASE Close(c)
    <3>1. d # c
      BY <1>0, <2>3 DEF Close, Waits
    <3> QED
      BY <2>2, <2>3, <3>1 DEF Close
  <2>4. ASSUME NEW r \in Rooms \cap Channels, Join(c, r)
        PROVE  Subscribed(NodeOf[d], ChannelOf[e])'
    BY <1>0, <1>1, <2>1, <2>4, SubscribedSend DEF Join
  <2>5. ASSUME NEW r \in Rooms \cap Channels, Leave(c, r)
        PROVE  Subscribed(NodeOf[d], ChannelOf[e])'
    <3>1. d # c \/ ChannelOf[e] \notin {r}
      BY <1>0, <2>5 DEF Leave, Waits
    <3> QED
      BY <2>2, <2>5, <3>1 DEF Leave
  <2> QED
    BY <2>3, <2>4, <2>5
<1> QED
  BY <1>1, <1>2, <1>3, <1>4 DEF Expected

\* Execute sends the event to the sockets of its node and to the other nodes.
LEMMA ExecuteKeeps ==
  ASSUME LossInv, TypeOK', NEW c \in Conns, NEW e \in Events, NEW slow \in SUBSET Conns,
         Execute(c, e, slow)
  PROVE  LossInv'
<1> DEFINE n == NodeOf[c]
           ch == ChannelOf[e]
           self == IF ch \in Rooms THEN {c} ELSE {}
           here == Local(n, ch) \ self
           there == {d \in members[ch] : /\ MayPublish(n) /\ NodeOf[d] # n
                                         /\ Subscribed(NodeOf[d], ch)
                                         /\ e \notin cache[NodeOf[d]]}
<1>0. /\ TypeOK /\ n \in Nodes /\ here \in SUBSET Conns
      /\ \A d \in members[ch] : NodeOf[d] = n => d \in here \cup self
      /\ \A d \in here : NodeOf[d] = n
  <2>1. n \in Nodes /\ ch \in Channels /\ self \subseteq Conns
    BY DeliveryAssumption DEF Channels
  <2> HIDE DEF n, ch, self
  <2> QED
    BY <2>1 DEF LossInv, TypeOK, Local
<1>1. /\ SendAll(e, here, slow)
      /\ cache' = [cache EXCEPT ![n] = cache[n] \cup {e}]
      /\ IF MayPublish(n) THEN Enqueue(n, e) ELSE UNCHANGED outbox
      /\ audience' = [audience EXCEPT ![e] = (audience[e] \cup here \cup there) \ self]
      /\ UNCHANGED <<members, pushed, inbox, commands, listening>>
  BY DEF Execute, redis
<1>2. \A d \in there : /\ MayPublish(n) /\ d \in members[ch] /\ NodeOf[d] # n
                       /\ Subscribed(NodeOf[d], ch) /\ e \notin cache[NodeOf[d]]
  OBVIOUS
<1> HIDE DEF n, self, here, there
<1> SUFFICES ASSUME NEW d \in Conns, NEW x \in Events, Waits(d, x)'
             PROVE  Expected(d, x)'
  BY DEF LossInv
<1>3. /\ phase'[d] = "open" /\ phase[d] = "open" /\ ~Has(d, x)
      /\ ~(d \in here /\ x = e) /\ d \in audience'[x]
  <2>1. phase'[d] = "open" /\ d \in audience'[x] /\ ~Has(d, x)'
    BY DEF Waits
  <2> QED
    BY <1>0, <1>1, <2>1, SentTo
<1>4. \A y \in Events, m \in Nodes : Outgoing(y, m) => Outgoing(y, m)'
  <2>1. CASE MayPublish(n)
    BY <1>0, <1>1, <2>1, OutgoingAppend DEF Enqueue
  <2>2. CASE ~MayPublish(n)
    BY <1>1, <2>2 DEF Outgoing
  <2> QED
    BY <2>1, <2>2
<1>5. \A y \in Events, m \in Nodes : Incoming(y, m) => Incoming(y, m)'
  BY <1>1 DEF Incoming
<1>6. NodeOf[d] \in Nodes /\ cache \in [Nodes -> SUBSET Events]
      /\ audience \in [Events -> SUBSET Conns]
  BY <1>0, DeliveryAssumption DEF TypeOK
<1>7. CASE d \in audience[x]
  <2>1. Expected(d, x)
    BY <1>3, <1>7 DEF Waits, LossInv
  <2>2. UnderWay(x, d)'
    BY <1>4, <1>5, <1>6, <2>1 DEF Expected, UnderWay
  <2>3. x \notin cache'[NodeOf[d]]
    <3>1. x \notin cache[NodeOf[d]] /\ d \in members[ChannelOf[x]]
      BY <2>1 DEF Expected
    <3>2. x = e => d \notin self
      BY <1>1, <1>3, <1>6
    <3>3. ~(x = e /\ NodeOf[d] = n)
      BY <1>0, <1>3, <3>1, <3>2
    <3> QED
      BY <1>0, <1>1, <1>6, <3>1, <3>3
  <2>4. Subscribed(NodeOf[d], ChannelOf[x])'
    BY <1>1, <1>6, <2>1, SubscribedSame DEF Expected, Channels
  <2> QED
    BY <1>1, <2>1, <2>2, <2>3, <2>4 DEF Expected
<1>8. CASE d \notin audience[x]
  <2>1. x = e /\ d \in there
    BY <1>1, <1>3, <1>6, <1>8
  <2>2. Outgoing(e, n)'
    BY <1>0, <1>1, <1>2, <2>1, OutgoingAppend DEF Enqueue
  <2>3. UnderWay(x, d)'
    BY <1>0, <1>2, <2>1, <2>2 DEF UnderWay
  <2>4. x \notin cache'[NodeOf[d]]
    BY <1>0, <1>1, <1>2, <1>6, <2>1
  <2>5. Subscribed(NodeOf[d], ChannelOf[x])'
    BY <1>1, <1>2, <1>6, <2>1, SubscribedSame DEF Channels
  <2> QED
    BY <1>1, <1>2, <2>1, <2>3, <2>4, <2>5 DEF Expected
<1> QED
  BY <1>7, <1>8

\* Inbound drops only what is an echo or known, and nobody waits for that.
LEMMA InboundKeeps ==
  ASSUME LossInv, TypeOK', NEW n \in Nodes, NEW slow \in SUBSET Conns, Inbound(n, slow)
  PROVE  LossInv'
<1> DEFINE msg == Head(inbox[n])
           e == msg.ev
           here == Local(n, ChannelOf[e])
<1>1. /\ TypeOK /\ inbox[n] \in Seq(Message) /\ inbox[n] # <<>>
      /\ inbox' = [inbox EXCEPT ![n] = Tail(inbox[n])]
      /\ UNCHANGED <<members, outbox, pushed, commands, listening, audience>>
  BY DEF LossInv, TypeOK, Inbound, redis
<1>2. e \in Events /\ ChannelOf[e] \in Channels
  <2>1. msg \in Message
    BY <1>1, HeadTail
  <2> QED
    BY <2>1 DEF Message, Channels
<1>3. /\ here \in SUBSET Conns
      /\ \A d \in members[ChannelOf[e]] : NodeOf[d] = n => d \in here
  <2> HIDE DEF e
  <2> QED
    BY <1>1, <1>2 DEF Local, TypeOK
<1>4. \/ (msg.origin = n \/ e \in cache[n]) /\ UNCHANGED <<phase, cache, received>>
      \/ SendAll(e, here, slow) /\ cache' = [cache EXCEPT ![n] = cache[n] \cup {e}]
  BY DEF Inbound, IsEcho, IsDuplicate
<1> HIDE DEF e, here
<1> SUFFICES ASSUME NEW d \in Conns, NEW x \in Events, Waits(d, x)'
             PROVE  Expected(d, x)'
  BY DEF LossInv
<1>5. phase'[d] = "open" /\ d \in audience[x] /\ ~Has(d, x)'
  BY <1>1 DEF Waits
<1>6. Waits(d, x) /\ (SendAll(e, here, slow) => ~(d \in here /\ x = e))
  <2>1. CASE SendAll(e, here, slow)
    BY <1>1, <1>2, <1>3, <1>5, <2>1, SentTo DEF Waits
  <2>2. CASE UNCHANGED <<phase, cache, received>> /\ ~SendAll(e, here, slow)
    BY <1>5, <2>2 DEF Waits, Has
  <2> QED
    BY <1>4, <2>1, <2>2
<1>7. Expected(d, x) /\ NodeOf[d] \in Nodes /\ cache \in [Nodes -> SUBSET Events]
  BY <1>1, <1>6, DeliveryAssumption DEF LossInv, TypeOK
<1>8. x \notin cache'[NodeOf[d]] /\ ~(NodeOf[d] = n /\ x = e /\ msg.origin # n)
  <2>1. d \in members[ChannelOf[x]] /\ x \notin cache[NodeOf[d]]
    BY <1>7 DEF Expected
  <2>2. CASE (msg.origin = n \/ e \in cache[n]) /\ UNCHANGED <<phase, cache, received>>
    BY <2>1, <2>2
  <2>3. CASE SendAll(e, here, slow) /\ cache' = [cache EXCEPT ![n] = cache[n] \cup {e}]
    <3>1. ~(NodeOf[d] = n /\ x = e)
      BY <1>3, <1>6, <2>1, <2>3
    <3> QED
      BY <1>7, <2>1, <2>3, <3>1
  <2> QED
    BY <1>4, <2>2, <2>3
<1>9. UnderWay(x, d)'
  <2>1. \A m \in Nodes : Outgoing(x, m) => Outgoing(x, m)'
    BY <1>1 DEF Outgoing
  <2>2. Incoming(x, NodeOf[d]) => Incoming(x, NodeOf[d])'
    BY <1>1, <1>7, <1>8, IncomingTail DEF e
  <2> QED
    BY <1>7, <2>1, <2>2 DEF Expected, UnderWay
<1>10. Subscribed(NodeOf[d], ChannelOf[x])'
  BY <1>1, <1>7, SubscribedSame DEF Expected, Channels
<1> QED
  BY <1>1, <1>7, <1>8, <1>9, <1>10 DEF Expected

\* What Redis executes arrives where somebody waits for it.
LEMMA PushKeeps ==
  ASSUME LossInv, TypeOK', NEW n \in Nodes, Push(n)
  PROVE  LossInv'
<1>0. outbox[n][pushed[n] + 1] \in Events
  BY DEF LossInv, TypeOK, Push
<1> PICK e \in Events : e = outbox[n][pushed[n] + 1]
  BY <1>0
<1> DEFINE msg == [ev |-> e, origin |-> n]
<1>1. /\ UNCHANGED <<phase, members, received, cache, audience, commands, listening, outbox>>
      /\ pushed' = [pushed EXCEPT ![n] = pushed[n] + 1]
      /\ inbox' = [m \in Nodes |-> IF ChannelOf[e] \in listening[m]
                                     THEN Append(inbox[m], msg) ELSE inbox[m]]
  BY DEF Push, sockets, redis
<1>2. /\ TypeOK /\ pushed \in [Nodes -> Nat] /\ inbox \in [Nodes -> Seq(Message)]
      /\ outbox \in [Nodes -> Seq(Events)]
      /\ pushed[n] + 1 \in DOMAIN outbox[n]
  <2>1. /\ TypeOK /\ pushed \in [Nodes -> Nat] /\ inbox \in [Nodes -> Seq(Message)]
        /\ outbox \in [Nodes -> Seq(Events)]
    BY DEF LossInv, TypeOK
  <2>2. pushed[n] \in Nat /\ outbox[n] \in Seq(Events) /\ pushed[n] < Len(outbox[n])
    BY <2>1 DEF Push
  <2> QED
    BY <2>1, <2>2
<1>3. msg \in Message /\ msg.ev = e /\ msg.origin = n
  BY <1>2 DEF Message
<1> HIDE DEF msg
<1>4. ASSUME NEW m \in Nodes, NEW x \in Events, Outgoing(x, m)
      PROVE  Outgoing(x, m)' \/ (m = n /\ x = e)
  <2>1. CASE m # n
    BY <1>1, <1>2, <1>4, <2>1 DEF Outgoing
  <2>2. CASE m = n
    <3>1. PICK i \in (pushed[n] + 1)..Len(outbox[n]) : outbox[n][i] = x
      BY <1>4, <2>2 DEF Outgoing
    <3>2. CASE i = pushed[n] + 1
      BY <2>2, <3>1, <3>2
    <3>3. CASE i # pushed[n] + 1
      <4>1. pushed'[n] = pushed[n] + 1 /\ pushed[n] \in Nat
        BY <1>1, <1>2
      <4>2. i \in (pushed'[n] + 1)..Len(outbox[n])
        BY <3>1, <3>3, <4>1
      <4> QED
        BY <1>1, <2>2, <3>1, <4>2 DEF Outgoing
    <3> QED
      BY <3>2, <3>3
  <2> QED
    BY <2>1, <2>2
<1>5. ASSUME NEW m \in Nodes, ChannelOf[e] \in listening[m], m # n
      PROVE  Incoming(e, m)'
  <2>1. inbox'[m] = Append(inbox[m], msg) /\ inbox[m] \in Seq(Message)
    BY <1>1, <1>2, <1>5
  <2>2. /\ Len(inbox[m]) + 1 \in DOMAIN inbox'[m]
        /\ inbox'[m][Len(inbox[m]) + 1] = msg
    BY <1>3, <2>1
  <2> QED
    BY <1>3, <1>5, <2>2 DEF Incoming
<1>6. ASSUME NEW m \in Nodes, NEW x \in Events, Incoming(x, m)
      PROVE  Incoming(x, m)'
  <2>1. PICK i \in DOMAIN inbox[m] : inbox[m][i].ev = x /\ inbox[m][i].origin # m
    BY <1>6 DEF Incoming
  <2>2. inbox[m] \in Seq(Message)
        /\ (inbox'[m] = inbox[m] \/ inbox'[m] = Append(inbox[m], msg))
    BY <1>1, <1>2
  <2>3. i \in DOMAIN inbox'[m] /\ inbox'[m][i] = inbox[m][i]
    BY <1>3, <2>1, <2>2
  <2> QED
    BY <2>1, <2>3 DEF Incoming
<1>7. ASSUME NEW c \in Conns, NEW x \in Events, Waits(c, x)
      PROVE  UnderWay(x, c)' /\ Subscribed(NodeOf[c], ChannelOf[x])'
  <2>1. Expected(c, x) /\ NodeOf[c] \in Nodes
    BY <1>7, DeliveryAssumption DEF LossInv
  <2>2. Subscribed(NodeOf[c], ChannelOf[x])'
    BY <1>1, <2>1, SubscribedSame DEF Expected, Channels
  <2>3. ChannelOf[x] \in listening[NodeOf[c]]
    BY <2>1 DEF Expected, Subscribed
  <2>4. UnderWay(x, c)'
    BY <1>4, <1>5, <1>6, <2>1, <2>3 DEF Expected, UnderWay
  <2> QED
    BY <2>2, <2>4
<1> QED
  BY <1>1, <1>7, RouteStep

\* Answers and failures of commands, and lost connections.
LEMMA ClientKeeps ==
  ASSUME LossInv, TypeOK', NEW n \in Nodes,
         Answer(n) \/ PublishFails(n) \/ PublisherLost(n) \/ SubscriberLost(n)
  PROVE  LossInv'
<1>0. \A x \in Events : ChannelOf[x] \in Channels
  BY DEF Channels
<1>1. /\ outbox \in [Nodes -> Seq(Events)] /\ pushed \in [Nodes -> Nat] /\ TypeOK
      /\ \A m \in Nodes : pushed[m] <= Len(outbox[m]) /\ Len(outbox[m]) \in Nat
      /\ audience \in [Events -> SUBSET Conns]
      /\ inbox \in [Nodes -> Seq(Message)] /\ listening \in [Nodes -> SUBSET Channels]
  <2>1. TypeOK
    BY DEF LossInv
  <2>2. /\ outbox \in [Nodes -> Seq(Events)] /\ pushed \in [Nodes -> Nat]
        /\ \A m \in Nodes : pushed[m] <= Len(outbox[m])
        /\ audience \in [Events -> SUBSET Conns]
        /\ inbox \in [Nodes -> Seq(Message)] /\ listening \in [Nodes -> SUBSET Channels]
    BY <2>1 DEF TypeOK
  <2>3. \A m \in Nodes : Len(outbox[m]) \in Nat
    BY <2>2
  <2> QED
    BY <2>1, <2>2, <2>3
<1>2. ASSUME NEW c \in Conns, NEW x \in Events, Waits(c, x)
      PROVE  /\ Subscribed(NodeOf[c], ChannelOf[x]) /\ NodeOf[c] \in Nodes
             /\ UnderWay(x, c)
  BY <1>2, DeliveryAssumption DEF LossInv, Expected
<1>3. CASE Answer(n)
  <2>1. /\ pushed[n] # 0 /\ outbox[n] # <<>>
        /\ outbox' = [outbox EXCEPT ![n] = Tail(outbox[n])]
        /\ pushed' = [pushed EXCEPT ![n] = IF pushed[n] = 0 THEN 0 ELSE pushed[n] - 1]
        /\ UNCHANGED <<phase, members, received, cache, audience, commands, listening, inbox>>
    <3>1. pushed[n] # 0 /\ outbox[n] # <<>>
      BY <1>1, <1>3 DEF Answer
    <3>2. /\ outbox' = [outbox EXCEPT ![n] = Tail(outbox[n])]
          /\ pushed' = [pushed EXCEPT ![n] = pushed[n] - 1]
          /\ UNCHANGED <<phase, members, received, cache, audience, commands, listening, inbox>>
      BY <1>3 DEF Answer, sockets, redis
    <3> QED
      BY <3>1, <3>2
  <2>2. \A x \in Events, m \in Nodes : Outgoing(x, m) => Outgoing(x, m)'
    BY <1>1, <2>1, OutgoingTail
  <2>3. \A x \in Events, m \in Nodes : Incoming(x, m) => Incoming(x, m)'
    BY <2>1 DEF Incoming
  <2>4. ASSUME NEW c \in Conns, NEW x \in Events, Waits(c, x)
        PROVE  UnderWay(x, c)' /\ Subscribed(NodeOf[c], ChannelOf[x])'
    BY <1>0, <1>2, <2>1, <2>2, <2>3, <2>4, SubscribedSame DEF UnderWay
  <2> QED
    BY <2>1, <2>4, RouteStep
<1>4. CASE PublishFails(n)
  <2> DEFINE e == Head(outbox[n])
  <2>1. /\ pushed[n] = 0 /\ outbox[n] # <<>>
        /\ outbox' = [outbox EXCEPT ![n] = Tail(outbox[n])]
        /\ UNCHANGED pushed
        /\ audience' = [audience EXCEPT ![e] = {c \in audience[e] : Has(c, e)}]
        /\ UNCHANGED <<phase, members, received, cache, commands, listening, inbox>>
    BY <1>4 DEF PublishFails, sockets
  <2>2. pushed' = [pushed EXCEPT ![n] = IF pushed[n] = 0 THEN 0 ELSE pushed[n] - 1]
    BY <1>1, <2>1
  <2>3. \A x \in Events, m \in Nodes : Outgoing(x, m) => Outgoing(x, m)' \/ x = e
    BY <1>1, <2>1, <2>2, OutgoingTail
  <2>4. \A x \in Events, m \in Nodes : Incoming(x, m) => Incoming(x, m)'
    BY <2>1 DEF Incoming
  <2>5. e \in Events
    BY <1>1, <2>1, HeadTail
  <2> HIDE DEF e
  <2>6. ASSUME NEW c \in Conns, NEW x \in Events, Waits(c, x), Waits(c, x)'
        PROVE  UnderWay(x, c)' /\ Subscribed(NodeOf[c], ChannelOf[x])'
    <3>1. x # e
      BY <1>1, <2>1, <2>5, <2>6 DEF Waits
    <3> QED
      BY <1>0, <1>2, <2>1, <2>3, <2>4, <2>6, <3>1, SubscribedSame DEF UnderWay
  <2>7. \A x \in Events : audience'[x] \subseteq audience[x]
    BY <1>1, <2>1, <2>5
  <2> QED
    BY <2>1, <2>6, <2>7, RouteStep
<1>5. CASE PublisherLost(n)
  <2>1. /\ pushed' = [pushed EXCEPT ![n] = 0]
        /\ UNCHANGED <<phase, members, received, cache, audience, commands, listening, outbox, inbox>>
    BY <1>5 DEF PublisherLost, sockets
  <2>2. ASSUME NEW x \in Events, NEW m \in Nodes, Outgoing(x, m)
        PROVE  Outgoing(x, m)'
    <3>1. PICK i \in (pushed[m] + 1)..Len(outbox[m]) : outbox[m][i] = x
      BY <2>2 DEF Outgoing
    <3>2. pushed'[m] \in Nat /\ pushed'[m] <= pushed[m] /\ pushed[m] \in Nat
      BY <1>1, <2>1
    <3>3. i \in (pushed'[m] + 1)..Len(outbox[m])
      BY <1>1, <3>1, <3>2
    <3> QED
      BY <2>1, <3>1, <3>3 DEF Outgoing
  <2>3. \A x \in Events, m \in Nodes : Incoming(x, m) => Incoming(x, m)'
    BY <2>1 DEF Incoming
  <2>4. ASSUME NEW c \in Conns, NEW x \in Events, Waits(c, x)
        PROVE  UnderWay(x, c)' /\ Subscribed(NodeOf[c], ChannelOf[x])'
    BY <1>0, <1>2, <2>1, <2>2, <2>3, <2>4, SubscribedSame DEF UnderWay
  <2> QED
    BY <2>1, <2>4, RouteStep
<1>6. CASE SubscriberLost(n)
  <2>1. /\ listening' = [listening EXCEPT ![n] = {}]
        /\ inbox' = [inbox EXCEPT ![n] = <<>>]
        /\ audience' = [e \in Events |->
             {c \in audience[e] : NodeOf[c] = n => Has(c, e)}]
        /\ UNCHANGED <<phase, members, received, cache, outbox, pushed, commands>>
    BY <1>6 DEF SubscriberLost, sockets
  <2>2. \A x \in Events, m \in Nodes : Outgoing(x, m) => Outgoing(x, m)'
    BY <2>1 DEF Outgoing
  <2>3. \A x \in Events, m \in Nodes \ {n} : Incoming(x, m) => Incoming(x, m)'
    BY <1>1, <2>1 DEF Incoming
  <2>4. ASSUME NEW c \in Conns, NEW x \in Events, Waits(c, x), Waits(c, x)'
        PROVE  UnderWay(x, c)' /\ Subscribed(NodeOf[c], ChannelOf[x])'
    <3>1. NodeOf[c] # n
      BY <2>1, <2>4 DEF Waits
    <3>2. UnderWay(x, c)'
      BY <1>1, <1>2, <2>1, <2>2, <2>3, <2>4, <3>1 DEF UnderWay
    <3>3. Subscribed(NodeOf[c], ChannelOf[x])'
      BY <1>1, <1>2, <2>1, <2>4, <3>1 DEF Subscribed
    <3> QED
      BY <3>2, <3>3
  <2>5. \A x \in Events : audience'[x] \subseteq audience[x]
    BY <2>1
  <2> QED
    BY <2>1, <2>4, <2>5, RouteStep
<1> QED
  BY <1>3, <1>4, <1>5, <1>6

\* A node with only SUBSCRIBEs under way stays subscribed.
LEMMA SubscriptionKeeps ==
  ASSUME LossInv, TypeOK',
         \/ \E n \in Nodes : \E ch \in Channels : Obey(n, ch)
         \/ \E client \in Clients : Ready(client)
         \/ UNCHANGED vars
  PROVE  LossInv'
<1>1. UNCHANGED <<phase, members, received, cache, audience, outbox, pushed, inbox>>
  BY DEF Obey, Ready, vars, sockets
<1>2. ASSUME NEW c \in Conns, NEW x \in Events, Waits(c, x)
      PROVE  UnderWay(x, c)' /\ Subscribed(NodeOf[c], ChannelOf[x])'
  <2>1. Expected(c, x) /\ NodeOf[c] \in Nodes
    BY <1>2, DeliveryAssumption DEF LossInv
  <2>2. UnderWay(x, c)'
    BY <1>1, <2>1 DEF Expected, UnderWay, Outgoing, Incoming
  <2>3. Subscribed(NodeOf[c], ChannelOf[x])'
    <3>0. /\ Subscribed(NodeOf[c], ChannelOf[x]) /\ ChannelOf[x] \in Channels
          /\ listening \in [Nodes -> SUBSET Channels]
          /\ commands \in [Nodes -> [Channels -> Seq({"sub", "unsub"})]]
      BY <2>1 DEF Expected, Channels, LossInv, TypeOK
    <3>1. CASE \E n \in Nodes : \E ch \in Channels : Obey(n, ch)
      <4>1. PICK n \in Nodes, ch \in Channels : Obey(n, ch)
        BY <3>1
      <4>2. CASE n = NodeOf[c] /\ ch = ChannelOf[x]
        <5>1. /\ commands[n][ch] # <<>> /\ commands[n][ch] \in Seq({"sub", "unsub"})
              /\ commands'[n][ch] = Tail(commands[n][ch])
              /\ \A i \in DOMAIN commands[n][ch] : commands[n][ch][i] = "sub"
          BY <2>1, <3>0, <4>1, <4>2 DEF Obey, Subscribed
        <5>2. Head(commands[n][ch]) = "sub"
          BY <5>1
        <5>3. \A i \in DOMAIN commands'[n][ch] : commands'[n][ch][i] = "sub"
          BY <5>1
        <5>4. ch \in listening'[n]
          BY <3>0, <4>1, <5>2 DEF Obey
        <5> QED
          BY <4>2, <5>3, <5>4 DEF Subscribed
      <4>3. CASE ~(n = NodeOf[c] /\ ch = ChannelOf[x])
        <5>1. /\ commands'[NodeOf[c]][ChannelOf[x]] = commands[NodeOf[c]][ChannelOf[x]]
              /\ ChannelOf[x] \in listening[NodeOf[c]]
                   => ChannelOf[x] \in listening'[NodeOf[c]]
          BY <2>1, <3>0, <4>1, <4>3 DEF Obey
        <5> QED
          BY <3>0, <5>1 DEF Subscribed
      <4> QED
        BY <4>2, <4>3
    <3>2. CASE \E client \in Clients : Ready(client)
      <4>1. PICK client \in Clients : Ready(client)
        BY <3>2
      <4>2. /\ listening' = listening
            /\ \/ commands'[NodeOf[c]][ChannelOf[x]] = commands[NodeOf[c]][ChannelOf[x]]
               \/ commands'[NodeOf[c]][ChannelOf[x]]
                    = Append(commands[NodeOf[c]][ChannelOf[x]], "sub")
        BY <2>1, <3>0, <4>1 DEF Ready
      <4>3. commands[NodeOf[c]][ChannelOf[x]] \in Seq({"sub", "unsub"})
        BY <2>1, <3>0
      <4>4. \A i \in DOMAIN commands[NodeOf[c]][ChannelOf[x]] :
              commands[NodeOf[c]][ChannelOf[x]][i] = "sub"
        BY <3>0 DEF Subscribed
      <4>5. CASE commands'[NodeOf[c]][ChannelOf[x]] = commands[NodeOf[c]][ChannelOf[x]]
        BY <3>0, <4>2, <4>5 DEF Subscribed
      <4>6. CASE commands'[NodeOf[c]][ChannelOf[x]]
                   = Append(commands[NodeOf[c]][ChannelOf[x]], "sub")
        <5>1. \A i \in DOMAIN commands'[NodeOf[c]][ChannelOf[x]] :
                commands'[NodeOf[c]][ChannelOf[x]][i] = "sub"
          BY <4>3, <4>4, <4>6
        <5> QED
          BY <3>0, <4>2, <5>1 DEF Subscribed
      <4> QED
        BY <4>2, <4>5, <4>6
    <3>3. CASE UNCHANGED vars
      BY <3>0, <3>3 DEF vars, redis, Subscribed
    <3> QED
      BY <3>1, <3>2, <3>3
  <2> QED
    BY <2>2, <2>3
<1> QED
  BY <1>1, <1>2, RouteStep

\* Every step keeps LossInv.
LEMMA LossNext == LossInv /\ [Next]_vars => LossInv'
<1> SUFFICES ASSUME LossInv, [Next]_vars PROVE LossInv'
  OBVIOUS
<1>0. TypeOK'
  BY NextTypes DEF LossInv
<1>1. ASSUME NEW c \in Conns,
             Close(c) \/ \E r \in Rooms \cap Channels : Join(c, r) \/ Leave(c, r)
      PROVE  LossInv'
  BY <1>0, <1>1, TableStep
<1>2. ASSUME NEW c \in Conns, NEW e \in Events, NEW slow \in SUBSET Conns,
             Execute(c, e, slow)
      PROVE  LossInv'
  BY <1>0, <1>2, ExecuteKeeps
<1>3. ASSUME NEW n \in Nodes, NEW slow \in SUBSET Conns, Inbound(n, slow)
      PROVE  LossInv'
  BY <1>0, <1>3, InboundKeeps
<1>4. ASSUME NEW n \in Nodes, Push(n) PROVE LossInv'
  BY <1>0, <1>4, PushKeeps
<1>5. ASSUME NEW n \in Nodes,
             Answer(n) \/ PublishFails(n) \/ PublisherLost(n) \/ SubscriberLost(n)
      PROVE  LossInv'
  BY <1>0, <1>5, ClientKeeps
<1>6. ASSUME \/ \E n \in Nodes : \E ch \in Channels : Obey(n, ch)
             \/ \E client \in Clients : Ready(client)
             \/ UNCHANGED vars
      PROVE  LossInv'
  BY <1>0, <1>6, SubscriptionKeeps
<1> QED
  BY <1>1, <1>2, <1>3, <1>4, <1>5, <1>6 DEF Next

\* An executed event reaches, or is under way to, every socket it must reach.
THEOREM NothingIsLost == Spec => []NothingLost
<1>1. Init => LossInv
  <2> SUFFICES ASSUME Init PROVE LossInv
    OBVIOUS
  <2>1. \A e \in Events : audience[e] = {}
    BY DEF Init
  <2> QED
    BY <2>1, InitTypes DEF LossInv, Waits
<1>2. LossInv => NothingLost
  <2> SUFFICES ASSUME LossInv, NEW e \in Events, NEW c \in audience[e], phase[c] = "open"
               PROVE  Has(c, e) \/ UnderWay(e, c)
    BY DEF NothingLost
  <2>1. c \in Conns
    BY DEF LossInv, TypeOK
  <2> QED
    BY <2>1 DEF LossInv, Waits, Expected
<1> QED
  BY <1>1, <1>2, LossNext, PTL DEF Spec

-----------------------------------------------------------------------------
(***************************************************************************)
(* Order.                                                                  *)
(***************************************************************************)

\* n executed a before b.
Before(n, a, b) ==
  \E i, j \in DOMAIN executed[n] : i < j /\ executed[n][i] = a /\ executed[n][j] = b

\* No other node executed e.
Sole(n, e) == \A m \in Nodes \ {n} : ~Executed(m, e)

\* With the commands out of n, k of which are pushed, and the messages box at
\* another node: x is on its way there from n; x is on its way ahead of y.
ComingIn(n, out, k, box, x) ==
  \/ \E i \in DOMAIN out : k < i /\ out[i] = x
  \/ \E i \in DOMAIN box : box[i].origin = n /\ box[i].ev = x

AheadIn(n, out, k, box, x, y) ==
  \/ \E i, j \in DOMAIN out : k < i /\ i < j /\ out[i] = x /\ out[j] = y
  \/ \E i \in DOMAIN box, j \in DOMAIN out :
       box[i].origin = n /\ box[i].ev = x /\ k < j /\ out[j] = y
  \/ \E i, j \in DOMAIN box : /\ i < j /\ box[i].origin = n /\ box[i].ev = x
                              /\ box[j].origin = n /\ box[j].ev = y

Coming(n, m, x) == ComingIn(n, outbox[n], pushed[n], inbox[m], x)
Ahead(n, m, x, y) == AheadIn(n, outbox[n], pushed[n], inbox[m], x, y)

\* A node executes an event once and remembers it.
Distinct ==
  \A n \in Nodes :
    /\ \A i, j \in DOMAIN executed[n] : executed[n][i] = executed[n][j] => i = j
    /\ \A e \in Events : Executed(n, e) => e \in cache[n]

\* What sockets have and nodes publish was executed, what travels by its origin.
Sourced ==
  /\ \A c \in Conns, e \in Events : Has(c, e) => \E n \in Nodes : Executed(n, e)
  /\ \A n \in Nodes : \A i \in DOMAIN outbox[n] : Executed(n, outbox[n][i])
  /\ \A m \in Nodes : \A i \in DOMAIN inbox[m] : Executed(inbox[m][i].origin, inbox[m][i].ev)

\* The events of a node that never published again travel in order ...
Lined ==
  \A n \in Nodes \ resent, m \in Nodes : \A x, y \in Events :
    Ahead(n, m, x, y) => Before(n, x, y)

\* ... and none is still to come to a node one of whose sockets has a later one.
Passed ==
  \A n \in Nodes \ resent : \A c \in Conns : \A a, b \in Events :
    /\ NodeOf[c] # n /\ Before(n, a, b) /\ Sole(n, a) /\ Sole(n, b) /\ Has(c, b)
    => ~Coming(n, NodeOf[c], a)

\* A socket that has both has a ahead of b.
InOrder(q, a, b) == \A i, j \in DOMAIN q : q[i] = a /\ q[j] = b => i < j

Arrived ==
  \A n \in Nodes \ resent : \A c \in Conns : \A a, b \in Events :
    Before(n, a, b) /\ Sole(n, a) /\ Sole(n, b) => InOrder(received[c], a, b)

OrderInv == OnceInv /\ Distinct /\ Sourced /\ Lined /\ Passed /\ Arrived

\* The oldest command is answered, or fails before Redis executed it.
LEMMA LineAfterAnswer ==
  ASSUME NEW n \in Nodes, NEW out \in Seq(Events), NEW k \in Nat, NEW box,
         out # <<>>, NEW l \in Nat, l = IF k = 0 THEN 0 ELSE k - 1,
         NEW x, NEW y
  PROVE  /\ ComingIn(n, Tail(out), l, box, x) => ComingIn(n, out, k, box, x)
         /\ AheadIn(n, Tail(out), l, box, x, y) => AheadIn(n, out, k, box, x, y)
<1> DEFINE t == Tail(out)
<1>1. \A i \in DOMAIN t : i + 1 \in DOMAIN out /\ out[i + 1] = t[i] /\ i \in Nat
  BY HeadTail
<1> HIDE DEF t
<1>2. \A i \in DOMAIN t : l < i => k < i + 1
  BY <1>1
<1>3. \A i, j \in DOMAIN t : i < j => i + 1 < j + 1
  BY <1>1
<1>4. ComingIn(n, t, l, box, x) => ComingIn(n, out, k, box, x)
  BY <1>1, <1>2 DEF ComingIn
<1>5. ASSUME AheadIn(n, t, l, box, x, y) PROVE AheadIn(n, out, k, box, x, y)
  <2>1. CASE \E i, j \in DOMAIN t : l < i /\ i < j /\ t[i] = x /\ t[j] = y
    BY <1>1, <1>2, <1>3, <2>1 DEF AheadIn
  <2>2. CASE \E i \in DOMAIN box, j \in DOMAIN t :
               box[i].origin = n /\ box[i].ev = x /\ l < j /\ t[j] = y
    BY <1>1, <1>2, <2>2 DEF AheadIn
  <2>3. CASE \E i, j \in DOMAIN box : /\ i < j /\ box[i].origin = n /\ box[i].ev = x
                                      /\ box[j].origin = n /\ box[j].ev = y
    BY <2>3 DEF AheadIn
  <2> QED
    BY <1>5, <2>1, <2>2, <2>3 DEF AheadIn
<1> QED
  BY <1>4, <1>5 DEF t

\* The oldest message is processed: what is still to come was behind it.
LEMMA LineAfterInbound ==
  ASSUME NEW n \in Nodes, NEW out \in Seq(Events), NEW k \in Nat,
         NEW box \in Seq(Message), box # <<>>, NEW x, NEW y
  PROVE  /\ ComingIn(n, out, k, Tail(box), x) => ComingIn(n, out, k, box, x)
         /\ AheadIn(n, out, k, Tail(box), x, y) => AheadIn(n, out, k, box, x, y)
         /\ Head(box).origin = n => ComingIn(n, out, k, box, Head(box).ev)
         /\ Head(box).origin = n /\ ComingIn(n, out, k, Tail(box), x)
              => AheadIn(n, out, k, box, Head(box).ev, x)
<1> DEFINE t == Tail(box)
<1>1. /\ \A i \in DOMAIN t : i + 1 \in DOMAIN box /\ box[i + 1] = t[i] /\ i \in Nat /\ i > 0
      /\ 1 \in DOMAIN box /\ Head(box) = box[1]
  BY HeadTail
<1> HIDE DEF t
<1>2. \A i, j \in DOMAIN t : i < j => i + 1 < j + 1
  BY <1>1
<1>3. \A i \in DOMAIN t : 1 < i + 1
  BY <1>1
<1>4. ComingIn(n, out, k, t, x) => ComingIn(n, out, k, box, x)
  BY <1>1 DEF ComingIn
<1>5. ASSUME AheadIn(n, out, k, t, x, y) PROVE AheadIn(n, out, k, box, x, y)
  <2>1. CASE \E i, j \in DOMAIN out : k < i /\ i < j /\ out[i] = x /\ out[j] = y
    BY <2>1 DEF AheadIn
  <2>2. CASE \E i \in DOMAIN t, j \in DOMAIN out :
               t[i].origin = n /\ t[i].ev = x /\ k < j /\ out[j] = y
    BY <1>1, <2>2 DEF AheadIn
  <2>3. CASE \E i, j \in DOMAIN t : /\ i < j /\ t[i].origin = n /\ t[i].ev = x
                                    /\ t[j].origin = n /\ t[j].ev = y
    <3>1. PICK i, j \in DOMAIN t : /\ i < j /\ t[i].origin = n /\ t[i].ev = x
                                   /\ t[j].origin = n /\ t[j].ev = y
      BY <2>3
    <3>2. /\ i + 1 \in DOMAIN box /\ j + 1 \in DOMAIN box /\ i + 1 < j + 1
          /\ box[i + 1].origin = n /\ box[i + 1].ev = x
          /\ box[j + 1].origin = n /\ box[j + 1].ev = y
      BY <1>1, <1>2, <3>1
    <3> QED
      BY <3>2 DEF AheadIn
  <2> QED
    BY <1>5, <2>1, <2>2, <2>3 DEF AheadIn
<1>6. Head(box).origin = n => ComingIn(n, out, k, box, Head(box).ev)
  BY <1>1 DEF ComingIn
<1>7. ASSUME Head(box).origin = n, ComingIn(n, out, k, t, x)
      PROVE  AheadIn(n, out, k, box, Head(box).ev, x)
  <2>1. CASE \E j \in DOMAIN out : k < j /\ out[j] = x
    BY <1>1, <1>7, <2>1 DEF AheadIn
  <2>2. CASE \E j \in DOMAIN t : t[j].origin = n /\ t[j].ev = x
    <3>1. PICK j \in DOMAIN t : t[j].origin = n /\ t[j].ev = x
      BY <2>2
    <3>2. /\ 1 \in DOMAIN box /\ j + 1 \in DOMAIN box /\ 1 < j + 1
          /\ box[1].origin = n /\ box[1].ev = Head(box).ev
          /\ box[j + 1].origin = n /\ box[j + 1].ev = x
      BY <1>1, <1>3, <1>7, <3>1
    <3> QED
      BY <3>2 DEF AheadIn
  <2> QED
    BY <1>7, <2>1, <2>2 DEF ComingIn
<1> QED
  BY <1>4, <1>5, <1>6, <1>7 DEF t

\* Redis executes the next command of n: the message joins those ahead of it, or
\* goes nowhere.
LEMMA LineAfterPush ==
  ASSUME NEW n \in Nodes, NEW out \in Seq(Events), NEW k \in Nat, k < Len(out),
         NEW box \in Seq(Message), NEW after,
         after = box \/ after = Append(box, [ev |-> out[k + 1], origin |-> n]),
         NEW x, NEW y
  PROVE  /\ ComingIn(n, out, k + 1, after, x) => ComingIn(n, out, k, box, x)
         /\ AheadIn(n, out, k + 1, after, x, y) => AheadIn(n, out, k, box, x, y)
<1>0. out[k + 1] \in Events /\ k + 1 \in DOMAIN out /\ k < k + 1
  OBVIOUS
<1> DEFINE msg == [ev |-> out[k + 1], origin |-> n]
<1>1. msg \in Message /\ msg.ev = out[k + 1] /\ msg.origin = n
  BY <1>0 DEF Message
<1>2. \A i \in DOMAIN out : k + 1 < i => k < i
  OBVIOUS
<1> HIDE DEF msg
<1>3. \A i \in DOMAIN after : (i \in DOMAIN box /\ after[i] = box[i])
                              \/ (i = Len(box) + 1 /\ after[i] = msg)
  <2>1. CASE after = box
    BY <2>1
  <2>2. CASE after = Append(box, msg)
    <3>1. /\ Len(box) \in Nat /\ DOMAIN box = 1..Len(box) /\ DOMAIN after = 1..Len(box) + 1
          /\ \A i \in 1..Len(box) : after[i] = box[i]
          /\ after[Len(box) + 1] = msg
      BY <1>1, <2>2
    <3> QED
      BY <3>1
  <2> QED
    BY <2>1, <2>2 DEF msg
<1>4. \A i \in DOMAIN box : i < Len(box) + 1 /\ ~(Len(box) + 1 < i)
  OBVIOUS
<1>5. ComingIn(n, out, k + 1, after, x) => ComingIn(n, out, k, box, x)
  BY <1>0, <1>1, <1>2, <1>3 DEF ComingIn
<1>6. ASSUME AheadIn(n, out, k + 1, after, x, y) PROVE AheadIn(n, out, k, box, x, y)
  <2>1. CASE \E i, j \in DOMAIN out : k + 1 < i /\ i < j /\ out[i] = x /\ out[j] = y
    BY <1>2, <2>1 DEF AheadIn
  <2>2. CASE \E i \in DOMAIN after, j \in DOMAIN out :
               after[i].origin = n /\ after[i].ev = x /\ k + 1 < j /\ out[j] = y
    BY <1>0, <1>1, <1>2, <1>3, <2>2 DEF AheadIn
  <2>3. CASE \E i, j \in DOMAIN after : /\ i < j /\ after[i].origin = n /\ after[i].ev = x
                                        /\ after[j].origin = n /\ after[j].ev = y
    <3>1. PICK i, j \in DOMAIN after : /\ i < j /\ after[i].origin = n /\ after[i].ev = x
                                       /\ after[j].origin = n /\ after[j].ev = y
      BY <2>3
    <3>2. i \in DOMAIN box /\ box[i].origin = n /\ box[i].ev = x
      <4>1. ~(i = Len(box) + 1)
        BY <1>3, <1>4, <3>1
      <4> QED
        BY <1>3, <3>1, <4>1
    <3>3. CASE j \in DOMAIN box /\ after[j] = box[j]
      BY <3>1, <3>2, <3>3 DEF AheadIn
    <3>4. CASE after[j] = msg
      BY <1>0, <1>1, <3>1, <3>2, <3>4 DEF AheadIn
    <3> QED
      BY <1>3, <3>3, <3>4
  <2> QED
    BY <1>6, <2>1, <2>2, <2>3 DEF AheadIn
<1> QED
  BY <1>5, <1>6

\* A message from another node changes nothing for n.
LEMMA LineAfterOther ==
  ASSUME NEW n \in Nodes, NEW out, NEW k, NEW box \in Seq(Message), NEW after,
         NEW msg \in Message, msg.origin # n,
         after = box \/ after = Append(box, msg), NEW x, NEW y
  PROVE  /\ ComingIn(n, out, k, after, x) => ComingIn(n, out, k, box, x)
         /\ AheadIn(n, out, k, after, x, y) => AheadIn(n, out, k, box, x, y)
<1>1. \A i \in DOMAIN after : after[i].origin = n => i \in DOMAIN box /\ after[i] = box[i]
  OBVIOUS
<1> QED
  BY <1>1 DEF ComingIn, AheadIn

\* A node publishes e: e is behind all that is still to come.
LEMMA LineAfterEnqueue ==
  ASSUME NEW n \in Nodes, NEW out \in Seq(Events), NEW e \in Events, NEW k \in Nat,
         NEW box, NEW x, NEW y
  PROVE  /\ ComingIn(n, Append(out, e), k, box, x) => ComingIn(n, out, k, box, x) \/ x = e
         /\ AheadIn(n, Append(out, e), k, box, x, y)
              => AheadIn(n, out, k, box, x, y) \/ (y = e /\ ComingIn(n, out, k, box, x))
<1> DEFINE after == Append(out, e)
<1>1. \A i \in DOMAIN after : (i \in DOMAIN out /\ after[i] = out[i])
                              \/ (i = Len(out) + 1 /\ after[i] = e)
  OBVIOUS
<1>2. \A i \in DOMAIN after : ~(Len(out) + 1 < i)
  OBVIOUS
<1> HIDE DEF after
<1>3. ComingIn(n, after, k, box, x) => ComingIn(n, out, k, box, x) \/ x = e
  BY <1>1 DEF ComingIn
<1>4. ASSUME AheadIn(n, after, k, box, x, y)
      PROVE  AheadIn(n, out, k, box, x, y) \/ (y = e /\ ComingIn(n, out, k, box, x))
  <2>1. CASE \E i, j \in DOMAIN after : k < i /\ i < j /\ after[i] = x /\ after[j] = y
    <3>1. PICK i, j \in DOMAIN after : k < i /\ i < j /\ after[i] = x /\ after[j] = y
      BY <2>1
    <3>2. i \in DOMAIN out /\ out[i] = x
      <4>1. ~(i = Len(out) + 1)
        BY <1>2, <3>1
      <4> QED
        BY <1>1, <3>1, <4>1
    <3> QED
      BY <1>1, <3>1, <3>2 DEF AheadIn, ComingIn
  <2>2. CASE \E i \in DOMAIN box, j \in DOMAIN after :
               box[i].origin = n /\ box[i].ev = x /\ k < j /\ after[j] = y
    BY <1>1, <2>2 DEF AheadIn, ComingIn
  <2>3. CASE \E i, j \in DOMAIN box : /\ i < j /\ box[i].origin = n /\ box[i].ev = x
                                      /\ box[j].origin = n /\ box[j].ev = y
    BY <2>3 DEF AheadIn
  <2> QED
    BY <1>4, <2>1, <2>2, <2>3 DEF AheadIn
<1> QED
  BY <1>3, <1>4 DEF after

\* A node's order has no cycles.
LEMMA OrderStrict ==
  ASSUME TypeOK, Distinct, NEW n \in Nodes, NEW a \in Events, NEW b \in Events,
         Before(n, a, b)
  PROVE  a # b /\ ~Before(n, b, a) /\ Executed(n, a) /\ Executed(n, b)
<1>0. DOMAIN executed[n] \subseteq Nat
  <2>1. executed[n] \in Seq(Events)
    BY DEF TypeOK
  <2> QED
    BY <2>1
<1>1. PICK i, j \in DOMAIN executed[n] :
        i < j /\ executed[n][i] = a /\ executed[n][j] = b
  BY DEF Before
<1>2. a # b
  BY <1>0, <1>1 DEF Distinct
<1>3. ASSUME Before(n, b, a) PROVE FALSE
  <2>1. PICK k, l \in DOMAIN executed[n] :
          k < l /\ executed[n][k] = b /\ executed[n][l] = a
    BY <1>3 DEF Before
  <2>2. k = j /\ l = i
    BY <1>1, <2>1 DEF Distinct
  <2> QED
    BY <1>0, <1>1, <2>1, <2>2
<1> QED
  BY <1>1, <1>2, <1>3 DEF Executed

\* A socket is sent e last: a and b stay in order unless a is e and b is there.
LEMMA InOrderAfter ==
  ASSUME NEW q \in Seq(Events), NEW e \in Events, NEW a, NEW b, a # b,
         InOrder(q, a, b), a = e => \A j \in DOMAIN q : q[j] # b
  PROVE  InOrder(Append(q, e), a, b)
<1> SUFFICES ASSUME NEW i \in DOMAIN Append(q, e), NEW j \in DOMAIN Append(q, e),
                    Append(q, e)[i] = a, Append(q, e)[j] = b
             PROVE  i < j
  BY DEF InOrder
<1>1. \A h \in DOMAIN Append(q, e) :
        \/ h \in DOMAIN q /\ Append(q, e)[h] = q[h] /\ h < Len(q) + 1
        \/ h = Len(q) + 1 /\ Append(q, e)[h] = e
  OBVIOUS
<1>2. CASE i \in DOMAIN q /\ Append(q, e)[i] = q[i] /\ i < Len(q) + 1
  BY <1>1, <1>2 DEF InOrder
<1>3. CASE i = Len(q) + 1 /\ Append(q, e)[i] = e
  BY <1>1, <1>3
<1> QED
  BY <1>1, <1>2, <1>3

\* What comes from n was executed by n.
LEMMA ComingExecuted ==
  ASSUME Sourced, NEW n \in Nodes, NEW m \in Nodes, NEW x, Coming(n, m, x)
  PROVE  Executed(n, x)
  BY DEF Sourced, Coming, ComingIn

\* Steps that send nothing to sockets, execute nothing, and let no event get ahead
\* of another.
LEMMA LineStep ==
  ASSUME OrderInv, OnceInv', UNCHANGED <<received, executed>>, resent \subseteq resent',
         \A n \in Nodes : cache[n] \subseteq cache'[n],
         \A n \in Nodes : \A i \in DOMAIN outbox'[n] :
           \E j \in DOMAIN outbox[n] : outbox'[n][i] = outbox[n][j],
         \A m \in Nodes : \A i \in DOMAIN inbox'[m] :
           Executed(inbox'[m][i].origin, inbox'[m][i].ev),
         \A n \in Nodes \ resent', m \in Nodes : \A x \in Events :
           Coming(n, m, x)' => Coming(n, m, x),
         \A n \in Nodes \ resent', m \in Nodes : \A x, y \in Events :
           Ahead(n, m, x, y)' => Ahead(n, m, x, y)
  PROVE  OrderInv'
<1>1. /\ \A n, e : Executed(n, e)' <=> Executed(n, e)
      /\ \A n, e : Sole(n, e)' <=> Sole(n, e)
      /\ \A n, a, b : Before(n, a, b)' <=> Before(n, a, b)
      /\ \A c, e : Has(c, e)' <=> Has(c, e)
  BY DEF Executed, Sole, Before, Has
<1>2. Distinct'
  BY <1>1 DEF OrderInv, Distinct
<1>3. Sourced'
  <2>1. \A n \in Nodes : \A i \in DOMAIN outbox'[n] : Executed(n, outbox'[n][i])
    BY DEF OrderInv, Sourced
  <2> QED
    BY <1>1, <2>1 DEF OrderInv, Sourced
<1>4. Lined'
  BY <1>1 DEF OrderInv, Lined
<1>5. Passed'
  <2> SUFFICES ASSUME NEW n \in Nodes \ resent', NEW c \in Conns,
                      NEW a \in Events, NEW b \in Events, NodeOf[c] # n,
                      Before(n, a, b)', Sole(n, a)', Sole(n, b)', Has(c, b)'
               PROVE  ~Coming(n, NodeOf[c], a)'
    BY DEF Passed
  <2>1. ~Coming(n, NodeOf[c], a)
    BY <1>1 DEF OrderInv, Passed
  <2>2. NodeOf[c] \in Nodes
    BY DeliveryAssumption
  <2> QED
    BY <2>1, <2>2
<1>6. Arrived'
  BY <1>1 DEF OrderInv, Arrived
<1> QED
  BY <1>2, <1>3, <1>4, <1>5, <1>6 DEF OrderInv

\* Answers and failures of commands, and lost connections.
LEMMA ClientOrder ==
  ASSUME OrderInv, OnceInv', NEW n \in Nodes,
         Answer(n) \/ PublishFails(n) \/ PublisherLost(n) \/ SubscriberLost(n)
  PROVE  OrderInv'
<1>1. /\ outbox \in [Nodes -> Seq(Events)] /\ pushed \in [Nodes -> Nat]
      /\ inbox \in [Nodes -> Seq(Message)] /\ resent \in SUBSET Nodes
  BY DEF OrderInv, OnceInv, TypeOK
<1>2. \A m \in Nodes : \A i \in DOMAIN inbox[m] : Executed(inbox[m][i].origin, inbox[m][i].ev)
  BY DEF OrderInv, Sourced
<1>3. UNCHANGED <<received, executed, cache>>
  BY DEF Answer, PublishFails, PublisherLost, SubscriberLost
<1>4. CASE Answer(n) \/ PublishFails(n)
  <2>1. /\ outbox[n] # <<>> /\ outbox' = [outbox EXCEPT ![n] = Tail(outbox[n])]
        /\ pushed' = [pushed EXCEPT ![n] = IF pushed[n] = 0 THEN 0 ELSE pushed[n] - 1]
        /\ UNCHANGED <<inbox, resent>>
    <3>1. CASE Answer(n)
      <4>1. pushed[n] \in Nat /\ pushed[n] > 0 /\ pushed[n] <= Len(outbox[n])
            /\ outbox[n] \in Seq(Events)
        BY <3>1 DEF Answer, OrderInv, OnceInv, TypeOK
      <4>2. outbox[n] # <<>>
        BY <4>1
      <4>3. /\ outbox' = [outbox EXCEPT ![n] = Tail(outbox[n])]
            /\ pushed' = [pushed EXCEPT ![n] = pushed[n] - 1]
            /\ UNCHANGED <<inbox, resent>>
        BY <3>1 DEF Answer, redis
      <4>4. pushed[n] # 0
        BY <4>1
      <4> QED
        BY <4>2, <4>3, <4>4
    <3>2. CASE PublishFails(n)
      <4>1. /\ outbox[n] # <<>> /\ pushed[n] = 0 /\ UNCHANGED <<pushed, inbox, resent>>
            /\ outbox' = [outbox EXCEPT ![n] = Tail(outbox[n])]
        BY <3>2 DEF PublishFails
      <4>2. pushed = [pushed EXCEPT ![n] = IF pushed[n] = 0 THEN 0 ELSE pushed[n] - 1]
        BY <1>1, <4>1
      <4> QED
        BY <4>1, <4>2
    <3> QED
      BY <1>4, <3>1, <3>2
  <2>2. \A m \in Nodes : \A i \in DOMAIN outbox'[m] :
          \E j \in DOMAIN outbox[m] : outbox'[m][i] = outbox[m][j]
    BY <1>1, <2>1, QueueAfter
  <2>3. ASSUME NEW m \in Nodes, NEW d \in Nodes, NEW x \in Events, NEW y \in Events
        PROVE  /\ Coming(m, d, x)' => Coming(m, d, x)
               /\ Ahead(m, d, x, y)' => Ahead(m, d, x, y)
    <3>1. CASE m = n
      <4> DEFINE l == IF pushed[n] = 0 THEN 0 ELSE pushed[n] - 1
      <4>1. l \in Nat /\ pushed[n] \in Nat /\ outbox[n] \in Seq(Events)
        BY <1>1
      <4>2. outbox'[m] = Tail(outbox[n]) /\ pushed'[m] = l /\ inbox'[d] = inbox[d]
        BY <1>1, <2>1, <3>1
      <4>3. /\ ComingIn(n, Tail(outbox[n]), l, inbox[d], x)
                 => ComingIn(n, outbox[n], pushed[n], inbox[d], x)
            /\ AheadIn(n, Tail(outbox[n]), l, inbox[d], x, y)
                 => AheadIn(n, outbox[n], pushed[n], inbox[d], x, y)
        BY <2>1, <4>1, LineAfterAnswer
      <4> HIDE DEF l
      <4> QED
        BY <3>1, <4>2, <4>3 DEF Coming, Ahead
    <3>2. CASE m # n
      <4>1. outbox'[m] = outbox[m] /\ pushed'[m] = pushed[m] /\ inbox'[d] = inbox[d]
        BY <1>1, <2>1, <3>2
      <4> QED
        BY <4>1 DEF Coming, Ahead
    <3> QED
      BY <3>1, <3>2
  <2> QED
    BY <1>2, <1>3, <2>1, <2>2, <2>3, LineStep
<1>5. CASE PublisherLost(n)
  <2>1. /\ pushed' = [pushed EXCEPT ![n] = 0] /\ UNCHANGED <<outbox, inbox>>
        /\ resent' = IF pushed[n] > 0 THEN resent \cup {n} ELSE resent
    BY <1>5 DEF PublisherLost
  <2>2. ASSUME NEW m \in Nodes \ resent'
        PROVE  pushed'[m] = pushed[m]
    BY <1>1, <2>1, <2>2
  <2>3. \A m \in Nodes \ resent', d \in Nodes : \A x, y \in Events :
          /\ Coming(m, d, x)' => Coming(m, d, x)
          /\ Ahead(m, d, x, y)' => Ahead(m, d, x, y)
    BY <2>1, <2>2 DEF Coming, Ahead
  <2>4. resent \subseteq resent'
    BY <2>1
  <2> QED
    BY <1>2, <1>3, <2>1, <2>3, <2>4, LineStep
<1>6. CASE SubscriberLost(n)
  <2>1. inbox' = [inbox EXCEPT ![n] = <<>>] /\ UNCHANGED <<outbox, pushed, resent>>
    BY <1>6 DEF SubscriberLost
  <2>2. \A d \in Nodes : inbox'[d] = inbox[d] \/ inbox'[d] = <<>>
    BY <1>1, <2>1
  <2>3. \A d \in Nodes : \A i \in DOMAIN inbox'[d] :
          i \in DOMAIN inbox[d] /\ inbox'[d][i] = inbox[d][i]
    BY <2>2
  <2>4. ASSUME NEW m \in Nodes, NEW d \in Nodes, NEW x \in Events, NEW y \in Events
        PROVE  /\ Coming(m, d, x)' => Coming(m, d, x)
               /\ Ahead(m, d, x, y)' => Ahead(m, d, x, y)
    BY <2>1, <2>3 DEF Coming, Ahead, ComingIn, AheadIn
  <2> QED
    BY <1>2, <1>3, <2>1, <2>3, <2>4, LineStep
<1> QED
  BY <1>4, <1>5, <1>6

\* Redis executes a command.
LEMMA PushOrder ==
  ASSUME OrderInv, OnceInv', NEW n \in Nodes, Push(n)
  PROVE  OrderInv'
<1> DEFINE e == outbox[n][pushed[n] + 1]
           msg == [ev |-> e, origin |-> n]
<1>1. /\ outbox \in [Nodes -> Seq(Events)] /\ pushed \in [Nodes -> Nat]
      /\ inbox \in [Nodes -> Seq(Message)] /\ pushed[n] < Len(outbox[n])
  BY DEF OrderInv, OnceInv, TypeOK, Push
<1>2. /\ UNCHANGED <<received, executed, cache, outbox, resent>>
      /\ pushed' = [pushed EXCEPT ![n] = pushed[n] + 1]
      /\ inbox' = [m \in Nodes |-> IF ChannelOf[e] \in listening[m]
                                     THEN Append(inbox[m], msg) ELSE inbox[m]]
  BY DEF Push, redis
<1>3. e \in Events /\ pushed[n] + 1 \in DOMAIN outbox[n]
  <2>1. outbox[n] \in Seq(Events) /\ pushed[n] \in Nat
    BY <1>1
  <2> QED
    BY <1>1, <2>1
<1>4. Executed(n, e)
  BY <1>3 DEF OrderInv, Sourced
<1>5. msg \in Message /\ msg.ev = e /\ msg.origin = n
  BY <1>3 DEF Message
<1>6. \A d \in Nodes : inbox'[d] = inbox[d] \/ inbox'[d] = Append(inbox[d], msg)
  BY <1>2
<1>7. ASSUME NEW d \in Nodes, NEW i \in DOMAIN inbox'[d]
      PROVE  Executed(inbox'[d][i].origin, inbox'[d][i].ev)
  <2> HIDE DEF msg, e
  <2>1. inbox[d] \in Seq(Message)
    BY <1>1
  <2>2. inbox'[d][i] = msg \/ \E j \in DOMAIN inbox[d] : inbox'[d][i] = inbox[d][j]
    <3>1. \A j \in DOMAIN Append(inbox[d], msg) :
            \/ Append(inbox[d], msg)[j] = msg
            \/ \E l \in DOMAIN inbox[d] : Append(inbox[d], msg)[j] = inbox[d][l]
      BY <1>5, <2>1, QueueAfter
    <3> QED
      BY <1>6, <3>1
  <2> QED
    BY <1>4, <1>5, <2>2 DEF OrderInv, Sourced
<1>8. ASSUME NEW m \in Nodes, NEW d \in Nodes, NEW x \in Events, NEW y \in Events
      PROVE  /\ Coming(m, d, x)' => Coming(m, d, x)
             /\ Ahead(m, d, x, y)' => Ahead(m, d, x, y)
  <2>0. /\ inbox[d] \in Seq(Message) /\ outbox[n] \in Seq(Events) /\ pushed[n] \in Nat
        /\ outbox'[m] = outbox[m]
    BY <1>1, <1>2
  <2>1. CASE m = n
    <3>1. pushed'[m] = pushed[n] + 1
      BY <1>1, <1>2, <2>1
    <3>2. /\ ComingIn(n, outbox[n], pushed[n] + 1, inbox'[d], x)
               => ComingIn(n, outbox[n], pushed[n], inbox[d], x)
          /\ AheadIn(n, outbox[n], pushed[n] + 1, inbox'[d], x, y)
               => AheadIn(n, outbox[n], pushed[n], inbox[d], x, y)
      BY <1>1, <1>6, <2>0, LineAfterPush
    <3> QED
      BY <2>0, <2>1, <3>1, <3>2 DEF Coming, Ahead
  <2>2. CASE m # n
    <3>1. pushed'[m] = pushed[m]
      BY <1>1, <1>2, <2>2
    <3>2. msg.origin # m
      BY <1>5, <2>2
    <3> HIDE DEF msg
    <3>3. /\ ComingIn(m, outbox[m], pushed[m], inbox'[d], x)
               => ComingIn(m, outbox[m], pushed[m], inbox[d], x)
          /\ AheadIn(m, outbox[m], pushed[m], inbox'[d], x, y)
               => AheadIn(m, outbox[m], pushed[m], inbox[d], x, y)
      BY <1>5, <1>6, <2>0, <3>2, LineAfterOther
    <3> QED
      BY <2>0, <3>1, <3>3 DEF Coming, Ahead
  <2> QED
    BY <2>1, <2>2
<1> QED
  BY <1>2, <1>7, <1>8, LineStep

\* What SendAll makes of the events of one socket.
LEMMA SentToAny ==
  ASSUME NEW e, NEW cs, NEW slow, SendAll(e, cs, slow), NEW c \in Conns
  PROVE  \/ received'[c] = received[c]
         \/ c \in cs /\ received'[c] = Append(received[c], e)
  BY DEF SendAll

\* A node processes a message: it is an echo or known, or the first of those still
\* to come from its origin.
LEMMA InboundOrder ==
  ASSUME OrderInv, OnceInv', NEW n \in Nodes, NEW slow \in SUBSET Conns, Inbound(n, slow)
  PROVE  OrderInv'
<1> DEFINE msg == Head(inbox[n])
           e == msg.ev
           o == msg.origin
           here == Local(n, ChannelOf[e])
<1>1. /\ outbox \in [Nodes -> Seq(Events)] /\ pushed \in [Nodes -> Nat] /\ TypeOK
      /\ inbox \in [Nodes -> Seq(Message)] /\ received \in [Conns -> Seq(Events)]
      /\ cache \in [Nodes -> SUBSET Events]
  BY DEF OrderInv, OnceInv, TypeOK
<1>2. /\ inbox[n] # <<>> /\ inbox' = [inbox EXCEPT ![n] = Tail(inbox[n])]
      /\ UNCHANGED <<executed, outbox, pushed, resent>>
  BY DEF Inbound, redis
<1>3. \/ UNCHANGED <<cache, received>>
      \/ /\ o # n /\ e \notin cache[n] /\ SendAll(e, here, slow)
         /\ cache' = [cache EXCEPT ![n] = cache[n] \cup {e}]
  BY DEF Inbound, IsEcho, IsDuplicate
<1>4. /\ inbox[n] \in Seq(Message) /\ msg \in Message /\ 1 \in DOMAIN inbox[n]
      /\ msg = inbox[n][1] /\ e \in Events /\ o \in Nodes
  <2>1. /\ inbox[n] \in Seq(Message) /\ msg \in Message /\ msg = inbox[n][1]
        /\ 1 \in DOMAIN inbox[n]
    BY <1>1, <1>2, HeadTail
  <2> QED
    BY <2>1 DEF Message
<1>5. Executed(o, e)
  BY <1>4 DEF OrderInv, Sourced
<1>6. here \subseteq Conns /\ \A c \in here : NodeOf[c] = n
  <2>1. ChannelOf[e] \in Channels /\ members \in [Channels -> SUBSET Conns]
    BY <1>1, <1>4 DEF Channels, TypeOK
  <2> HIDE DEF e
  <2> QED
    BY <2>1 DEF Local
<1> HIDE DEF here
<1>7. \A d \in Nodes : \A i \in DOMAIN inbox'[d] :
        \E j \in DOMAIN inbox[d] : inbox'[d][i] = inbox[d][j]
  <2>1. \A i \in DOMAIN Tail(inbox[n]) :
          \E j \in DOMAIN inbox[n] : Tail(inbox[n])[i] = inbox[n][j]
    BY <1>2, <1>4, QueueAfter
  <2> QED
    BY <1>1, <1>2, <2>1
<1>8. \A d \in Nodes : \A i \in DOMAIN inbox'[d] :
        Executed(inbox'[d][i].origin, inbox'[d][i].ev)
  BY <1>7 DEF OrderInv, Sourced
<1>9. ASSUME NEW m \in Nodes, NEW d \in Nodes, NEW x \in Events, NEW y \in Events
      PROVE  /\ Coming(m, d, x)' => Coming(m, d, x)
             /\ Ahead(m, d, x, y)' => Ahead(m, d, x, y)
             /\ m = o => Coming(m, n, e)
             /\ m = o /\ Coming(m, n, x)' => Ahead(m, n, e, x)
  <2>1. /\ outbox'[m] = outbox[m] /\ pushed'[m] = pushed[m] /\ outbox[m] \in Seq(Events)
        /\ pushed[m] \in Nat /\ inbox'[n] = Tail(inbox[n])
        /\ d # n => inbox'[d] = inbox[d]
    BY <1>1, <1>2
  <2>2. /\ ComingIn(m, outbox[m], pushed[m], Tail(inbox[n]), x)
             => ComingIn(m, outbox[m], pushed[m], inbox[n], x)
        /\ AheadIn(m, outbox[m], pushed[m], Tail(inbox[n]), x, y)
             => AheadIn(m, outbox[m], pushed[m], inbox[n], x, y)
        /\ o = m => ComingIn(m, outbox[m], pushed[m], inbox[n], e)
        /\ o = m /\ ComingIn(m, outbox[m], pushed[m], Tail(inbox[n]), x)
             => AheadIn(m, outbox[m], pushed[m], inbox[n], e, x)
    BY <1>2, <1>4, <2>1, LineAfterInbound
  <2> HIDE DEF e, o
  <2> QED
    BY <2>1, <2>2 DEF Coming, Ahead
<1> HIDE DEF e, o, msg
<1>10. CASE UNCHANGED <<cache, received>>
  BY <1>2, <1>8, <1>9, <1>10, LineStep
<1>11. CASE /\ o # n /\ e \notin cache[n] /\ SendAll(e, here, slow)
            /\ cache' = [cache EXCEPT ![n] = cache[n] \cup {e}]
  <2>1. /\ \A m, x : Executed(m, x)' <=> Executed(m, x)
        /\ \A m, x : Sole(m, x)' <=> Sole(m, x)
        /\ \A m, a, b : Before(m, a, b)' <=> Before(m, a, b)
    BY <1>2 DEF Executed, Sole, Before
  <2>2. \A c \in Conns, x \in Events : Has(c, x)' => Has(c, x) \/ (c \in here /\ x = e)
    BY <1>1, <1>4, <1>6, <1>11, ReceivedAfter
  <2>3. Distinct'
    <3>1. \A m \in Nodes : cache[m] \subseteq cache'[m]
      BY <1>1, <1>11
    <3> QED
      BY <1>2, <2>1, <3>1 DEF OrderInv, Distinct
  <2>4. Sourced'
    BY <1>2, <1>4, <1>5, <1>8, <2>1, <2>2 DEF OrderInv, Sourced
  <2>5. Lined'
    BY <1>2, <1>9, <2>1 DEF OrderInv, Lined
  <2>6. \A m \in Nodes : Sole(m, e) => m = o
    BY <1>4, <1>5 DEF Sole
  <2>7. Passed'
    <3> SUFFICES ASSUME NEW m \in Nodes \ resent, NEW c \in Conns,
                        NEW a \in Events, NEW b \in Events, NodeOf[c] # m,
                        Before(m, a, b), Sole(m, a), Sole(m, b), Has(c, b)',
                        Coming(m, NodeOf[c], a)'
                 PROVE  FALSE
      BY <1>2, <2>1 DEF Passed
    <3>0. NodeOf[c] \in Nodes
      BY DeliveryAssumption
    <3>1. CASE Has(c, b)
      BY <1>9, <3>0, <3>1 DEF OrderInv, Passed
    <3>2. CASE c \in here /\ b = e
      <4>1. m = o /\ NodeOf[c] = n
        BY <1>6, <2>6, <3>2
      <4>2. Ahead(m, n, e, a)
        BY <1>9, <4>1
      <4>3. Before(m, b, a)
        BY <1>4, <3>2, <4>2 DEF OrderInv, Lined
      <4> QED
        BY <1>1, <4>3, OrderStrict DEF OrderInv
    <3> QED
      BY <2>2, <3>1, <3>2
  <2>8. Arrived'
    <3> SUFFICES ASSUME NEW m \in Nodes \ resent, NEW c \in Conns,
                        NEW a \in Events, NEW b \in Events,
                        Before(m, a, b), Sole(m, a), Sole(m, b)
                 PROVE  InOrder(received'[c], a, b)
      BY <1>2, <2>1 DEF Arrived
    <3>1. InOrder(received[c], a, b)
      BY DEF OrderInv, Arrived
    <3>2. received[c] \in Seq(Events) /\ a # b
      BY <1>1, OrderStrict DEF OrderInv
    <3>3. CASE received'[c] = received[c]
      BY <3>1, <3>3
    <3>4. CASE c \in here /\ received'[c] = Append(received[c], e)
      <4>1. ASSUME a = e, NEW j \in DOMAIN received[c], received[c][j] = b
            PROVE  FALSE
        <5>1. m = o /\ NodeOf[c] = n /\ Has(c, b)
          BY <1>6, <2>6, <3>4, <4>1 DEF Has
        <5>2. Coming(m, n, a)
          BY <1>4, <1>9, <4>1, <5>1
        <5> QED
          BY <1>11, <5>1, <5>2 DEF OrderInv, Passed
      <4> QED
        BY <1>4, <3>1, <3>2, <3>4, <4>1, InOrderAfter
    <3> QED
      BY <1>11, <3>3, <3>4, SentToAny
  <2> QED
    BY <2>3, <2>4, <2>5, <2>7, <2>8 DEF OrderInv
<1> QED
  BY <1>3, <1>10, <1>11

\* What a node executed, and in which order, after it executes e.
LEMMA ExecutedAfter ==
  ASSUME TypeOK, NEW n \in Nodes, NEW e \in Events,
         executed' = [executed EXCEPT ![n] = Append(executed[n], e)],
         NEW m \in Nodes, NEW x, NEW y
  PROVE  /\ Executed(m, x)' <=> Executed(m, x) \/ (m = n /\ x = e)
         /\ Before(m, x, y) => Before(m, x, y)'
         /\ Before(m, x, y)' <=> Before(m, x, y) \/ (m = n /\ y = e /\ Executed(n, x))
<1>1. executed \in [Nodes -> Seq(Events)]
  BY DEF TypeOK
<1>2. CASE m # n
  BY <1>1, <1>2 DEF Executed, Before
<1>3. CASE m = n
  <2> DEFINE q == executed[n]
             r == executed'[n]
  <2>1. r = Append(q, e) /\ q \in Seq(Events)
    BY <1>1
  <2> HIDE DEF q, r
  <2>2. /\ DOMAIN r = 1..(Len(q) + 1) /\ Len(q) + 1 \in DOMAIN r /\ r[Len(q) + 1] = e
        /\ \A i \in DOMAIN q : i \in DOMAIN r /\ r[i] = q[i] /\ i < Len(q) + 1
        /\ \A i \in DOMAIN r : ~(Len(q) + 1 < i)
    BY <2>1
  <2>3. \A i \in DOMAIN r : i \in DOMAIN q \/ i = Len(q) + 1
    BY <2>1
  <2>4. (\E i \in DOMAIN r : r[i] = x) <=> (\E i \in DOMAIN q : q[i] = x) \/ x = e
    BY <2>2, <2>3
  <2>5. (\E i, j \in DOMAIN q : i < j /\ q[i] = x /\ q[j] = y)
        => (\E i, j \in DOMAIN r : i < j /\ r[i] = x /\ r[j] = y)
    BY <2>2
  <2>6. ASSUME y = e, \E i \in DOMAIN q : q[i] = x
        PROVE  \E i, j \in DOMAIN r : i < j /\ r[i] = x /\ r[j] = y
    BY <2>2, <2>6
  <2>7. ASSUME \E i, j \in DOMAIN r : i < j /\ r[i] = x /\ r[j] = y
        PROVE  \/ \E i, j \in DOMAIN q : i < j /\ q[i] = x /\ q[j] = y
               \/ y = e /\ \E i \in DOMAIN q : q[i] = x
    <3>1. PICK i \in DOMAIN r, j \in DOMAIN r : i < j /\ r[i] = x /\ r[j] = y
      BY <2>7
    <3>2. i \in DOMAIN q /\ q[i] = x
      BY <2>2, <2>3, <3>1
    <3> QED
      BY <2>2, <2>3, <3>1, <3>2
  <2> QED
    BY <1>3, <2>4, <2>5, <2>6, <2>7 DEF Executed, Before, q, r
<1> QED
  BY <1>2, <1>3

\* A node executes an event: it gets behind all others, on the sockets of the node
\* and on the way to the other nodes.
LEMMA ExecuteOrder ==
  ASSUME OrderInv, OnceInv', NEW d \in Conns, NEW e \in Events, NEW slow \in SUBSET Conns,
         Execute(d, e, slow)
  PROVE  OrderInv'
<1> DEFINE n == NodeOf[d]
           ch == ChannelOf[e]
           here == Local(n, ch) \ (IF ch \in Rooms THEN {d} ELSE {})
<1>1. /\ outbox \in [Nodes -> Seq(Events)] /\ pushed \in [Nodes -> Nat] /\ TypeOK
      /\ inbox \in [Nodes -> Seq(Message)] /\ received \in [Conns -> Seq(Events)]
      /\ cache \in [Nodes -> SUBSET Events] /\ executed \in [Nodes -> Seq(Events)]
  BY DEF OrderInv, OnceInv, TypeOK
<1>2. /\ SendAll(e, here, slow) /\ e \notin cache[n]
      /\ cache' = [cache EXCEPT ![n] = cache[n] \cup {e}]
      /\ executed' = [executed EXCEPT ![n] = Append(executed[n], e)]
      /\ \/ outbox' = [outbox EXCEPT ![n] = Append(outbox[n], e)]
         \/ outbox' = outbox
      /\ UNCHANGED <<pushed, inbox, resent>>
  BY DEF Execute, IsDuplicate, Enqueue, redis
<1>3. /\ n \in Nodes /\ here \subseteq Conns /\ \A c \in here : NodeOf[c] = n
  <2>1. ch \in Channels /\ members \in [Channels -> SUBSET Conns] /\ n \in Nodes
    BY <1>1, DeliveryAssumption DEF Channels, TypeOK
  <2> HIDE DEF ch, n
  <2> QED
    BY <2>1 DEF Local
<1> HIDE DEF here, n
<1>4. ~Executed(n, e)
  BY <1>2, <1>3 DEF OrderInv, Distinct
<1>5. \A m \in Nodes, x \in Events : Executed(m, x)' <=> Executed(m, x) \/ (m = n /\ x = e)
  BY <1>1, <1>2, <1>3, ExecutedAfter
<1>6. \A m \in Nodes, x, y \in Events :
        Before(m, x, y)' <=> Before(m, x, y) \/ (m = n /\ y = e /\ Executed(n, x))
  BY <1>1, <1>2, <1>3, ExecutedAfter
<1>7. \A m \in Nodes, x \in Events :
        Sole(m, x)' => Sole(m, x) /\ (x = e => m = n)
  BY <1>3, <1>5 DEF Sole
<1>8. \A c \in Conns, x \in Events : Has(c, x)' => Has(c, x) \/ (c \in here /\ x = e)
  BY <1>1, <1>2, <1>3, ReceivedAfter
\* e is new to everybody, or was executed elsewhere too.
<1>9. \A c \in Conns : Has(c, e) => ~Sole(n, e)'
  <2> SUFFICES ASSUME NEW c \in Conns, Has(c, e), Sole(n, e)' PROVE FALSE
    OBVIOUS
  <2>1. PICK m \in Nodes : Executed(m, e)
    BY DEF OrderInv, Sourced
  <2>2. m # n /\ Executed(m, e)'
    BY <1>4, <1>5, <2>1
  <2> QED
    BY <2>1, <2>2 DEF Sole
<1>10. ASSUME NEW m \in Nodes, NEW k \in Nodes, NEW x \in Events, NEW y \in Events
       PROVE  /\ Coming(m, k, x)' => Coming(m, k, x) \/ (m = n /\ x = e)
              /\ Ahead(m, k, x, y)' =>
                   Ahead(m, k, x, y) \/ (m = n /\ y = e /\ Coming(m, k, x))
  <2>1. /\ pushed'[m] = pushed[m] /\ inbox'[k] = inbox[k] /\ pushed[m] \in Nat
        /\ outbox[m] \in Seq(Events)
        /\ \/ outbox'[m] = outbox[m]
           \/ m = n /\ outbox'[m] = Append(outbox[m], e)
    BY <1>1, <1>2
  <2>2. CASE outbox'[m] = outbox[m]
    BY <2>1, <2>2 DEF Coming, Ahead
  <2>3. CASE m = n /\ outbox'[m] = Append(outbox[m], e)
    <3>1. /\ ComingIn(m, Append(outbox[m], e), pushed[m], inbox[k], x)
               => ComingIn(m, outbox[m], pushed[m], inbox[k], x) \/ x = e
          /\ AheadIn(m, Append(outbox[m], e), pushed[m], inbox[k], x, y)
               => \/ AheadIn(m, outbox[m], pushed[m], inbox[k], x, y)
                  \/ y = e /\ ComingIn(m, outbox[m], pushed[m], inbox[k], x)
      BY <2>1, LineAfterEnqueue
    <3> QED
      BY <2>1, <2>3, <3>1 DEF Coming, Ahead
  <2> QED
    BY <2>1, <2>2, <2>3
<1>11. Distinct'
  <2>1. ASSUME NEW m \in Nodes, NEW i \in DOMAIN executed'[m], NEW j \in DOMAIN executed'[m],
               executed'[m][i] = executed'[m][j]
        PROVE  i = j
    <3>1. CASE m # n
      BY <1>1, <1>2, <2>1, <3>1 DEF OrderInv, Distinct
    <3>2. CASE m = n
      <4>1. executed'[n] = Append(executed[n], e) /\ executed[n] \in Seq(Events)
        BY <1>1, <1>2, <1>3
      <4>2. \A h \in DOMAIN executed'[n] :
              \/ h \in DOMAIN executed[n] /\ executed'[n][h] = executed[n][h]
              \/ h = Len(executed[n]) + 1 /\ executed'[n][h] = e
        BY <4>1
      <4>3. \A h \in DOMAIN executed[n] : executed[n][h] # e
        BY <1>4 DEF Executed
      <4>4. \A g, h \in DOMAIN executed[n] : executed[n][g] = executed[n][h] => g = h
        BY <1>3 DEF OrderInv, Distinct
      <4> QED
        BY <2>1, <3>2, <4>2, <4>3, <4>4
    <3> QED
      BY <3>1, <3>2
  <2>2. \A m \in Nodes, x \in Events : Executed(m, x)' => x \in cache'[m]
    BY <1>1, <1>2, <1>3, <1>5 DEF OrderInv, Distinct
  <2> QED
    BY <2>1, <2>2 DEF Distinct
<1>12. Sourced'
  <2>1. \A c \in Conns, x \in Events : Has(c, x)' => \E m \in Nodes : Executed(m, x)'
    BY <1>3, <1>5, <1>8 DEF OrderInv, Sourced
  <2>2. ASSUME NEW m \in Nodes, NEW i \in DOMAIN outbox'[m]
        PROVE  Executed(m, outbox[m][i])'
    <3>1. outbox[m] \in Seq(Events)
      BY <1>1
    <3>2. /\ outbox'[m][i] \in Events
          /\ Executed(m, outbox'[m][i]) \/ (m = n /\ outbox'[m][i] = e)
      <4>1. CASE outbox'[m] = outbox[m]
        BY <2>2, <3>1, <4>1 DEF OrderInv, Sourced
      <4>2. CASE m = n /\ outbox'[m] = Append(outbox[m], e)
        <5>1. outbox'[m][i] = e \/ \E j \in DOMAIN outbox[m] : outbox'[m][i] = outbox[m][j]
          BY <2>2, <3>1, <4>2, QueueAfter
        <5> QED
          BY <3>1, <4>2, <5>1 DEF OrderInv, Sourced
      <4> QED
        BY <1>1, <1>2, <1>3, <4>1, <4>2
    <3>3. PICK x \in Events : x = outbox'[m][i]
      BY <3>2
    <3>4. Executed(m, x)'
      BY <1>5, <3>2, <3>3
    <3> QED
      BY <3>3, <3>4 DEF Executed
  <2>3. ASSUME NEW m \in Nodes, NEW i \in DOMAIN inbox'[m]
        PROVE  Executed(inbox[m][i].origin, inbox[m][i].ev)'
    <3>1. inbox[m] \in Seq(Message) /\ inbox'[m] = inbox[m] /\ i \in DOMAIN inbox[m]
      BY <1>1, <1>2, <2>3
    <3>2. inbox[m][i] \in Message
      BY <3>1
    <3>3. /\ inbox[m][i].origin \in Nodes /\ inbox[m][i].ev \in Events
          /\ Executed(inbox[m][i].origin, inbox[m][i].ev)
      BY <3>1, <3>2 DEF Message, OrderInv, Sourced
    <3>4. PICK o \in Nodes, x \in Events : o = inbox[m][i].origin /\ x = inbox[m][i].ev
      BY <3>3
    <3>5. Executed(o, x)'
      BY <1>5, <3>3, <3>4
    <3> QED
      BY <3>1, <3>4, <3>5 DEF Executed
  <2> QED
    BY <2>1, <2>2, <2>3 DEF Sourced
<1>13. Lined'
  <2> SUFFICES ASSUME NEW m \in Nodes \ resent, NEW k \in Nodes, NEW x \in Events,
                      NEW y \in Events, Ahead(m, k, x, y)'
               PROVE  Before(m, x, y)'
    BY <1>2 DEF Lined
  <2>1. CASE Ahead(m, k, x, y)
    BY <1>6, <2>1 DEF OrderInv, Lined
  <2>2. CASE m = n /\ y = e /\ Coming(m, k, x)
    <3>1. Executed(m, x)
      BY <2>2, ComingExecuted DEF OrderInv
    <3> QED
      BY <1>6, <2>2, <3>1
  <2> QED
    BY <1>10, <2>1, <2>2
<1>14. Passed'
  <2> SUFFICES ASSUME NEW m \in Nodes \ resent, NEW c \in Conns, NEW a \in Events,
                      NEW b \in Events, NodeOf[c] # m,
                      Before(m, a, b)', Sole(m, a)', Sole(m, b)', Has(c, b)',
                      Coming(m, NodeOf[c], a)'
               PROVE  FALSE
    BY <1>2 DEF Passed
  <2>0. NodeOf[c] \in Nodes
    BY DeliveryAssumption
  <2>1. Has(c, b)
    BY <1>3, <1>7, <1>8
  <2>2. Before(m, a, b)
    BY <1>6, <1>9, <2>1
  <2>3. Coming(m, NodeOf[c], a)
    <3>1. ~(m = n /\ a = e)
      BY <1>1, <1>4, <2>2, OrderStrict DEF OrderInv
    <3> QED
      BY <1>10, <2>0, <3>1
  <2> QED
    BY <1>7, <2>1, <2>2, <2>3 DEF OrderInv, Passed
<1>15. Arrived'
  <2> SUFFICES ASSUME NEW m \in Nodes \ resent, NEW c \in Conns, NEW a \in Events,
                      NEW b \in Events, Before(m, a, b)', Sole(m, a)', Sole(m, b)'
               PROVE  InOrder(received'[c], a, b)
    BY <1>2 DEF Arrived
  <2>1. received[c] \in Seq(Events)
    BY <1>1
  <2>2. a # b /\ a # e /\ InOrder(received[c], a, b)
    <3>1. CASE Before(m, a, b)
      <4>1. a # b /\ Executed(m, a)
        BY <1>1, <3>1, OrderStrict DEF OrderInv
      <4>2. InOrder(received[c], a, b)
        BY <1>7, <3>1 DEF OrderInv, Arrived
      <4> QED
        BY <1>4, <1>7, <4>1, <4>2
    <3>2. CASE m = n /\ b = e /\ Executed(n, a)
      <4>1. a # e
        BY <1>4, <3>2
      <4>2. ~Has(c, b)
        BY <1>9, <3>2
      <4> QED
        BY <3>2, <4>1, <4>2 DEF InOrder, Has
    <3> QED
      BY <1>6, <3>1, <3>2
  <2>3. InOrder(Append(received[c], e), a, b)
    BY <2>1, <2>2, InOrderAfter
  <2> QED
    BY <1>2, <2>2, <2>3, SentToAny
<1> QED
  BY <1>11, <1>12, <1>13, <1>14, <1>15 DEF OrderInv

\* Every step keeps OrderInv.
LEMMA OrderNext == OrderInv /\ [Next]_vars => OrderInv'
<1> SUFFICES ASSUME OrderInv, [Next]_vars PROVE OrderInv'
  OBVIOUS
<1>0. OnceInv'
  BY OnceNext DEF OrderInv
<1>1. ASSUME NEW c \in Conns, NEW e \in Events, NEW slow \in SUBSET Conns,
             Execute(c, e, slow)
      PROVE  OrderInv'
  BY <1>0, <1>1, ExecuteOrder
<1>2. ASSUME NEW n \in Nodes, NEW slow \in SUBSET Conns, Inbound(n, slow)
      PROVE  OrderInv'
  BY <1>0, <1>2, InboundOrder
<1>3. ASSUME NEW n \in Nodes, Push(n) PROVE OrderInv'
  BY <1>0, <1>3, PushOrder
<1>4. ASSUME NEW n \in Nodes,
             Answer(n) \/ PublishFails(n) \/ PublisherLost(n) \/ SubscriberLost(n)
      PROVE  OrderInv'
  BY <1>0, <1>4, ClientOrder
<1>5. ASSUME \/ \E c \in Conns : Close(c)
             \/ \E c \in Conns : \E r \in Rooms \cap Channels : Join(c, r) \/ Leave(c, r)
             \/ \E n \in Nodes : \E ch \in Channels : Obey(n, ch)
             \/ \E client \in Clients : Ready(client)
             \/ UNCHANGED vars
      PROVE  OrderInv'
  <2>1. UNCHANGED <<received, cache, executed, outbox, pushed, inbox, resent>>
    BY <1>5 DEF Close, Join, Leave, Obey, Ready, vars, redis
  <2>2. /\ \A n, m \in Nodes : \A x \in Events : Coming(n, m, x)' => Coming(n, m, x)
        /\ \A n, m \in Nodes : \A x, y \in Events : Ahead(n, m, x, y)' => Ahead(n, m, x, y)
    BY <2>1 DEF Coming, Ahead
  <2>3. \A m \in Nodes : \A i \in DOMAIN inbox'[m] :
          Executed(inbox'[m][i].origin, inbox'[m][i].ev)
    BY <2>1 DEF OrderInv, Sourced
  <2> QED
    BY <1>0, <2>1, <2>2, <2>3, LineStep
<1> QED
  BY <1>1, <1>2, <1>3, <1>4, <1>5 DEF Next

\* What one node alone executed, and never had to publish again, reaches every
\* socket of every node in the order in which it was executed.
THEOREM OrderIsKept == Spec => []OrderKept
<1>1. Init => OrderInv
  <2> SUFFICES ASSUME Init PROVE OrderInv
    OBVIOUS
  <2>1. /\ \A n \in Nodes : executed[n] = <<>> /\ outbox[n] = <<>> /\ inbox[n] = <<>>
        /\ \A c \in Conns : received[c] = <<>>
    BY DEF Init
  <2>2. /\ \A n \in Nodes : \A x : ~Executed(n, x)
        /\ \A n \in Nodes : \A x, y : ~Before(n, x, y)
        /\ \A c \in Conns : \A x : ~Has(c, x)
        /\ \A n, m \in Nodes : \A x, y : ~Ahead(n, m, x, y)
    BY <2>1 DEF Executed, Before, Has, Ahead, AheadIn
  <2>3. Distinct /\ Sourced /\ Lined /\ Passed /\ Arrived
    BY <2>1, <2>2 DEF Distinct, Sourced, Lined, Passed, Arrived
  <2> QED
    BY <2>3, OnceInit DEF OrderInv
<1>2. OrderInv => OrderKept
  <2> SUFFICES ASSUME OrderInv, NEW n \in Nodes \ resent,
                      NEW i \in DOMAIN executed[n], NEW j \in DOMAIN executed[n], i < j,
                      \A m \in Nodes \ {n} : ~Executed(m, executed[n][i])
                                             /\ ~Executed(m, executed[n][j]),
                      NEW c \in Conns
               PROVE  InOrder(received[c], executed[n][i], executed[n][j])
    BY DEF OrderKept, InOrder
  <2>1. executed[n] \in Seq(Events)
    BY DEF OrderInv, OnceInv, TypeOK
  <2>2. executed[n][i] \in Events /\ executed[n][j] \in Events
    BY <2>1
  <2>3. PICK a \in Events, b \in Events : a = executed[n][i] /\ b = executed[n][j]
    BY <2>2
  <2>4. Before(n, a, b) /\ Sole(n, a) /\ Sole(n, b)
    BY <2>3 DEF Before, Sole
  <2> QED
    BY <2>3, <2>4 DEF OrderInv, Arrived
<1> QED
  BY <1>1, <1>2, OrderNext, PTL DEF Spec
=============================================================================

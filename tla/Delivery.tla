------------------------------- MODULE Delivery -------------------------------
(***************************************************************************)
(* How a message gets from its sender to the sockets of all nodes:         *)
(* handleRoomMessage and handleDirectMessage send it to the local sockets, *)
(* record it in the node's idempotency cache and publish it, and           *)
(* handleInboundRedisEvent sends it to the sockets of the other nodes.     *)
(*                                                                         *)
(* A sender that missed the ACK sends the event again, on any of its       *)
(* sockets and so to any node.  The publisher client of a node sends its   *)
(* commands in order without waiting for answers, and sends the unanswered *)
(* ones again after it reconnects.  Redis pushes a message to the nodes    *)
(* that are subscribed at that moment; what is under way to a node is lost *)
(* with its subscriber client's connection.                                *)
(*                                                                         *)
(* A node sends a SUBSCRIBE for the first local member of a channel and an *)
(* UNSUBSCRIBE for the last, and nobody waits for either: a channel may be *)
(* joined again while the UNSUBSCRIBE of the last leave is under way.      *)
(* These commands do not fail here: ChannelSubscriptions says what is      *)
(* known of the counts when they do.  The caches forget nothing:           *)
(* Idempotency says what is known of them when they do.                    *)
(***************************************************************************)
EXTENDS Naturals, FiniteSets, Sequences

CONSTANTS
  Nodes, Conns, Users, Rooms, Events,
  Members,          \* who is in each room when the first event is sent
  NodeOf, UserOf,   \* the node and the user of each connection
  SenderOf,         \* the user who sends each event
  ChannelOf,        \* the room, or the recipient, each event is sent to
  MaxInFlight,      \* maxInFlightPublishes of each node
  MaxMoves,         \* bound on sockets that join, leave, stall or close
  MaxFaults,        \* bound on lost Redis connections and failed commands
  MaxBoth           \* bound on moves and faults together

\* The channels that matter: those some event is sent to.
Channels == {ChannelOf[e] : e \in Events}

ASSUME DeliveryAssumption ==
  /\ NodeOf \in [Conns -> Nodes] /\ UserOf \in [Conns -> Users]
  /\ SenderOf \in [Events -> Users] /\ ChannelOf \in [Events -> Rooms \cup Users]
  /\ Rooms \cap Users = {} /\ Members \in [Rooms -> SUBSET Conns]
  /\ MaxInFlight \in [Nodes -> Nat \ {0}]
  /\ IsFiniteSet(Conns) /\ MaxMoves \in Nat /\ MaxFaults \in Nat
  /\ MaxBoth \in Nat

VARIABLES
  phase,      \* readyState of each socket: "open", "closing" or "closed"
  members,    \* connections in each room, and of each user
  moves,
  cache,      \* IdempotencyManager: events each node knows
  executed,   \* history: events each node executed itself, in order
  received,   \* events given to each socket, in order
  outbox,     \* PUBLISH commands of each node without an answer, oldest first
  pushed,     \* how many of them Redis has executed on this connection
  inbox,      \* messages Redis has pushed to each node
  commands,   \* for each node and channel, its SUBSCRIBEs and UNSUBSCRIBEs under
              \* way, oldest first; those for different channels do not interact
  listening,  \* channels each node is subscribed to
  down,       \* clients <<node, role>> that are not connected
  faults,
  resent,     \* history: nodes that sent a command again
  audience    \* history: connections each event is on its way to or has reached

sockets == <<phase, members, moves>>
redis == <<listening, down, faults, resent>>
vars == <<sockets, cache, executed, received, outbox, pushed, inbox, commands, redis,
          audience>>

Clients == Nodes \X {"publisher", "subscriber"}

Has(c, e) == \E i \in DOMAIN received[c] : received[c][i] = e
Local(n, ch) == {c \in members[ch] : NodeOf[c] = n}

\* Every socket is open and every subscription made.
Init ==
  /\ phase = [c \in Conns |-> "open"]
  /\ members = [ch \in Channels |-> IF ch \in Rooms THEN Members[ch]
                                    ELSE {c \in Conns : UserOf[c] = ch}]
  /\ moves = 0
  /\ cache = [n \in Nodes |-> {}]
  /\ executed = [n \in Nodes |-> <<>>]
  /\ received = [c \in Conns |-> <<>>]
  /\ outbox = [n \in Nodes |-> <<>>] /\ pushed = [n \in Nodes |-> 0]
  /\ inbox = [n \in Nodes |-> <<>>]
  /\ commands = [n \in Nodes |-> [ch \in Channels |-> <<>>]]
  /\ listening = [n \in Nodes |-> {ch \in Channels : Local(n, ch) # {}}]
  /\ down = {} /\ faults = 0 /\ resent = {}
  /\ audience = [e \in Events |-> {}]

-----------------------------------------------------------------------------
(***************************************************************************)
(* Sockets                                                                 *)
(***************************************************************************)

Move(k) ==
  moves' = moves + k /\ moves' <= MaxMoves /\ moves' + faults <= MaxBoth
Fault ==
  faults' = faults + 1 /\ faults' <= MaxFaults /\ moves + faults' <= MaxBoth

IsConnected(n) == {<<n, "publisher">>, <<n, "subscriber">>} \cap down = {}

\* subscribe or unsubscribe of each of chs by node n.  Without both clients no
\* command is sent; restoreSubscriptions makes up for the SUBSCRIBEs.
Send(n, op, chs) ==
  commands' = [commands EXCEPT ![n] = [ch \in Channels |->
    IF IsConnected(n) /\ ch \in chs THEN Append(@[ch], op) ELSE @[ch]]]

\* Mutant: the UNSUBSCRIBE is sent while there are other local members.
EmptiedByAny(c, chs) == {ch \in chs : c \in members[ch]}

\* The channels of chs whose last local member is c.
Emptied(c, chs) == {ch \in chs : Local(NodeOf[c], ch) = {c}}

\* A socket that is closing still hands over the frames it receives.
Join(c, r) ==
  /\ phase[c] # "closed" /\ c \notin members[r] /\ Move(1)
  /\ members' = [members EXCEPT ![r] = @ \cup {c}]
  /\ Send(NodeOf[c], "sub", {ch \in {r} : Local(NodeOf[c], ch) = {}})
  /\ UNCHANGED <<phase, cache, executed, received, outbox, pushed, inbox, redis,
       audience>>

Leave(c, r) ==
  /\ phase[c] # "closed" /\ c \in members[r] /\ Move(1)
  /\ members' = [members EXCEPT ![r] = @ \ {c}]
  /\ audience' = [e \in Events |-> IF ChannelOf[e] = r THEN audience[e] \ {c}
                                                       ELSE audience[e]]
  /\ Send(NodeOf[c], "unsub", Emptied(c, {r}))
  /\ UNCHANGED <<phase, cache, executed, received, outbox, pushed, inbox, redis>>

\* The close event: the connection leaves all tables.
Close(c) ==
  /\ phase[c] # "closed" /\ Move(1)
  /\ phase' = [phase EXCEPT ![c] = "closed"]
  /\ members' = [ch \in Channels |-> members[ch] \ {c}]
  /\ Send(NodeOf[c], "unsub", Emptied(c, Channels))
  /\ UNCHANGED <<cache, executed, received, outbox, pushed, inbox, redis, audience>>

\* Connection.send of e to each of cs.  A socket that is not open is skipped; an
\* open one with bufferedAmount over the limit, one of slow, is closed instead.
SendAll(e, cs, slow) ==
  /\ received' = [c \in Conns |-> IF c \in cs \ slow /\ phase[c] = "open"
                                    THEN Append(received[c], e) ELSE received[c]]
  /\ phase' = [c \in Conns |-> IF c \in slow THEN "closing" ELSE phase[c]]
  /\ Move(Cardinality(slow))

-----------------------------------------------------------------------------
(***************************************************************************)
(* Messages                                                                *)
(***************************************************************************)

\* What publish asks before it sends; otherwise it throws.
MayPublish(n) == IsConnected(n) /\ Len(outbox[n]) < MaxInFlight[n]

\* Mutant: the cache is not consulted.
KnowsNothing(n, e) == FALSE

\* IdempotencyManager.check.
IsDuplicate(n, e) == e \in cache[n]

\* Mutant: the newest command is sent first.
EnqueueFirst(n, e) ==
  outbox' = [outbox EXCEPT ![n] = <<e>> \o @]

\* The publisher client takes a PUBLISH.
Enqueue(n, e) ==
  outbox' = [outbox EXCEPT ![n] = Append(@, e)]

\* Node n is subscribed to ch and has not asked Redis to end that.
Subscribed(n, ch) ==
  ch \in listening[n] /\ \A i \in DOMAIN commands[n][ch] : commands[n][ch][i] = "sub"

\* A frame with a new event: handleRoomMessage of a member, or
\* handleDirectMessage, with the ACK to the sender.  A duplicate is answered with
\* its ACK, a ROOM_MESSAGE from outside the room with an error; neither changes
\* anything.
Execute(c, e, slow) ==
  LET n == NodeOf[c]
      ch == ChannelOf[e]
      self == IF ch \in Rooms THEN {c} ELSE {}
      here == Local(n, ch) \ self
      there == {d \in members[ch] : /\ MayPublish(n) /\ NodeOf[d] # n
                                    /\ Subscribed(NodeOf[d], ch)
                                    /\ e \notin cache[NodeOf[d]]}
  IN
  /\ phase[c] # "closed" /\ UserOf[c] = SenderOf[e]
  /\ ~IsDuplicate(n, e)
  /\ ch \in Rooms => c \in members[ch]
  /\ slow \subseteq {d \in here \cup {c} : phase[d] = "open"}
  /\ SendAll(e, here, slow)
  /\ cache' = [cache EXCEPT ![n] = @ \cup {e}]
  /\ executed' = [executed EXCEPT ![n] = Append(@, e)]
  /\ IF MayPublish(n) THEN Enqueue(n, e) ELSE UNCHANGED outbox
  /\ audience' = [audience EXCEPT ![e] = (@ \cup here \cup there) \ self]
  /\ UNCHANGED <<commands, members, pushed, inbox, redis>>

\* Mutant: the comparison is the wrong way round.
IsForeign(n, m) == m.origin # n

\* The self-echo check.
IsEcho(n, m) == m.origin = n

\* handleInboundRedisEvent.
Inbound(n, slow) ==
  LET m == Head(inbox[n])
      e == m.ev
      here == Local(n, ChannelOf[e])
  IN
  /\ inbox[n] # <<>>
  /\ inbox' = [inbox EXCEPT ![n] = Tail(@)]
  /\ IF IsEcho(n, m) \/ IsDuplicate(n, e)
       THEN slow = {} /\ UNCHANGED <<phase, moves, cache, received>>
       ELSE /\ slow \subseteq {c \in here : phase[c] = "open"}
            /\ cache' = [cache EXCEPT ![n] = @ \cup {e}]
            /\ SendAll(e, here, slow)
  /\ UNCHANGED <<commands, members, executed, outbox, pushed, redis, audience>>

-----------------------------------------------------------------------------
(***************************************************************************)
(* Redis                                                                   *)
(***************************************************************************)

\* Redis executes the next command of a node's publisher.
Push(n) ==
  LET e == outbox[n][pushed[n] + 1]
  IN
  /\ <<n, "publisher">> \notin down /\ pushed[n] < Len(outbox[n])
  /\ pushed' = [pushed EXCEPT ![n] = @ + 1]
  /\ inbox' = [m \in Nodes |->
       IF ChannelOf[e] \in listening[m]
         THEN Append(inbox[m], [ev |-> e, origin |-> n]) ELSE inbox[m]]
  /\ UNCHANGED <<commands, sockets, cache, executed, received, outbox, redis, audience>>

\* The answer to the oldest command arrives.
Answer(n) ==
  /\ <<n, "publisher">> \notin down /\ pushed[n] > 0
  /\ pushed' = [pushed EXCEPT ![n] = @ - 1]
  /\ outbox' = [outbox EXCEPT ![n] = Tail(@)]
  /\ UNCHANGED <<commands, sockets, cache, executed, received, inbox, redis, audience>>

\* The oldest command fails; the error is logged and the event goes nowhere.
PublishFails(n) ==
  LET e == Head(outbox[n])
  IN
  /\ outbox[n] # <<>> /\ pushed[n] = 0 /\ Fault
  /\ outbox' = [outbox EXCEPT ![n] = Tail(@)]
  /\ audience' = [audience EXCEPT ![e] = {c \in @ : Has(c, e)}]
  /\ UNCHANGED <<commands, sockets, cache, executed, received, pushed, inbox, listening,
                 down, resent>>

\* The publisher's connection is lost: every command without an answer is going
\* to be sent again.
PublisherLost(n) ==
  /\ <<n, "publisher">> \notin down /\ Fault
  /\ down' = down \cup {<<n, "publisher">>}
  /\ pushed' = [pushed EXCEPT ![n] = 0]
  /\ resent' = IF pushed[n] > 0 THEN resent \cup {n} ELSE resent
  /\ UNCHANGED <<commands, sockets, cache, executed, received, outbox, inbox, listening,
                 audience>>

\* The subscriber's connection is lost, with the messages under way on it.
SubscriberLost(n) ==
  /\ <<n, "subscriber">> \notin down /\ Fault
  /\ down' = down \cup {<<n, "subscriber">>}
  /\ listening' = [listening EXCEPT ![n] = {}]
  /\ inbox' = [inbox EXCEPT ![n] = <<>>]
  /\ audience' = [e \in Events |->
       {c \in audience[e] : NodeOf[c] = n => Has(c, e)}]
  /\ UNCHANGED <<commands, sockets, cache, executed, received, outbox, pushed, resent>>

\* A client is ready again.  When both are, restoreSubscriptions subscribes to
\* every channel that has a local member.
Ready(client) ==
  /\ client \in down
  /\ down' = down \ {client}
  /\ commands' = [commands EXCEPT ![client[1]] = [ch \in Channels |->
       IF down' \cap ({client[1]} \X {"publisher", "subscriber"}) = {}
            /\ Local(client[1], ch) # {}
         THEN Append(@[ch], "sub") ELSE @[ch]]]
  /\ UNCHANGED <<sockets, cache, executed, received, outbox, pushed, inbox, listening,
       faults, resent, audience>>

\* Redis executes the next SUBSCRIBE or UNSUBSCRIBE for a channel.
Obey(n, ch) ==
  /\ <<n, "subscriber">> \notin down /\ commands[n][ch] # <<>>
  /\ listening' = [listening EXCEPT ![n] =
       IF Head(commands[n][ch]) = "sub" THEN @ \cup {ch} ELSE @ \ {ch}]
  /\ commands' = [commands EXCEPT ![n][ch] = Tail(@)]
  /\ UNCHANGED <<sockets, cache, executed, received, outbox, pushed, inbox, down,
       faults, resent, audience>>

Next ==
  \/ \E c \in Conns :
       \/ Close(c)
       \/ \E r \in Rooms \cap Channels : Join(c, r) \/ Leave(c, r)
       \/ \E e \in Events, slow \in SUBSET Conns : Execute(c, e, slow)
  \/ \E n \in Nodes :
       \/ \E slow \in SUBSET Conns : Inbound(n, slow)
       \/ Push(n) \/ Answer(n) \/ PublishFails(n)
       \/ PublisherLost(n) \/ SubscriberLost(n)
       \/ \E ch \in Channels : Obey(n, ch)
  \/ \E client \in Clients : Ready(client)

Spec == Init /\ [][Next]_vars

-----------------------------------------------------------------------------
(***************************************************************************)
(* Properties                                                              *)
(***************************************************************************)

Message == [ev : Events, origin : Nodes]

\* Tables, caches and queues have their types, and no node has more than
\* maxInFlightPublishes commands in flight.
TypeOK ==
  /\ phase \in [Conns -> {"open", "closing", "closed"}]
  /\ members \in [Channels -> SUBSET Conns]
  /\ moves \in 0..MaxMoves
  /\ cache \in [Nodes -> SUBSET Events]
  /\ executed \in [Nodes -> Seq(Events)]
  /\ received \in [Conns -> Seq(Events)]
  /\ outbox \in [Nodes -> Seq(Events)]
  /\ pushed \in [Nodes -> Nat]
  /\ \A n \in Nodes : pushed[n] <= Len(outbox[n]) /\ Len(outbox[n]) <= MaxInFlight[n]
  /\ inbox \in [Nodes -> Seq(Message)]
  /\ commands \in [Nodes -> [Channels -> Seq({"sub", "unsub"})]]
  /\ listening \in [Nodes -> SUBSET Channels]
  /\ down \in SUBSET Clients
  /\ faults \in 0..MaxFaults
  /\ resent \in SUBSET Nodes
  /\ audience \in [Events -> SUBSET Conns]

Executed(n, e) == \E i \in DOMAIN executed[n] : executed[n][i] = e

Once == INSTANCE EffectivelyOnce WITH
          accepted <- {e \in Events : \E n \in Nodes : Executed(n, e)}

\* Pulse keeps its promise: whatever is repeated, by senders, by Redis clients or
\* by echoes, and to whichever node, no socket is sent an event twice, and none
\* that no node executed.
DeliversOnce == Once!Spec

\* Two events that one node alone executed, and that it never had to publish
\* again, reach every socket in the order in which the node executed them, also
\* when one goes to a room and one to a user.
OrderKept ==
  \A n \in Nodes \ resent : \A i, j \in DOMAIN executed[n] :
    LET a == executed[n][i]
        b == executed[n][j]
    IN (/\ i < j
        /\ \A m \in Nodes \ {n} : ~Executed(m, a) /\ ~Executed(m, b))
       => \A c \in Conns : \A p, q \in DOMAIN received[c] :
            received[c][p] = a /\ received[c][q] = b => p < q

\* A PUBLISH of e that Redis is still to execute, or to execute again.
Outgoing(e, n) == \E i \in (pushed[n] + 1)..Len(outbox[n]) : outbox[n][i] = e

\* A message with e, from another node, that n is still to process.
Incoming(e, n) ==
  \E i \in DOMAIN inbox[n] : inbox[n][i].ev = e /\ inbox[n][i].origin # n

UnderWay(e, c) ==
  (\E n \in Nodes \ {NodeOf[c]} : Outgoing(e, n)) \/ Incoming(e, NodeOf[c])

\* An executed event never gets lost between the nodes: every open socket of its
\* room or of its recipient, on every node that is subscribed when the event is
\* executed and has no UNSUBSCRIBE of an earlier leave under way,
\* has it or it is under way to that socket's node, unless the executing node
\* could not publish, the PUBLISH failed, the socket's node lost its subscriber, or
\* the socket left or sent the event itself.
NothingLost ==
  \A e \in Events : \A c \in audience[e] :
    phase[c] = "open" => Has(c, e) \/ UnderWay(e, c)
=============================================================================

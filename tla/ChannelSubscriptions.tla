------------------------- MODULE ChannelSubscriptions -------------------------
(***************************************************************************)
(* How a node keeps its Redis SUBSCRIBEs in step with its local sockets:   *)
(*                                                                         *)
(*   RoomManager / ConnectionManager   who holds a channel                 *)
(*   ChannelRegistry                   reference count per channel         *)
(*   RedisPubSubManager                subscribedChannels, (un)subscribe,  *)
(*                                     restoreSubscriptions                *)
(*   RedisConnectionManager            isConnected: both clients are up    *)
(*                                                                         *)
(* A channel is pulse:room:<id> or pulse:user:<id>; its holders are the    *)
(* connections in the room, or of the user.  The callers do not await the  *)
(* registry, and the registry awaits a Redis command only after it changed *)
(* its count, so joins and leaves overtake commands that are in flight.    *)
(* The subscriber client answers commands in order and sends unanswered    *)
(* ones again after it reconnects, before it reports that it is ready.     *)
(* A client that fails to reconnect retryMaxAttempts times in a row ends,  *)
(* and nothing in the server connects it again.  RedisConnection counts    *)
(* those attempts; here a client that is down comes back or ends.          *)
(***************************************************************************)
EXTENDS Naturals, FiniteSets, Sequences

CONSTANTS
  Channels,
  Conns,
  AutoResubscribe,  \* the client library restores subscriptions by itself
  MaxPending,       \* bound on commands in flight when a socket acts
  MaxOutages,       \* bound on the number of lost connections
  MaxFailures       \* bound on the commands answered by an error

ASSUME ChannelAssumption ==
  /\ IsFiniteSet(Conns)
  /\ AutoResubscribe \in BOOLEAN
  /\ MaxPending \in Nat \ {0}
  /\ MaxOutages \in Nat /\ MaxFailures \in Nat

VARIABLES
  holders,     \* RoomManager.rooms and ConnectionManager.userConnections
  refCount,    \* ChannelRegistry.channelRefCounts; 0 stands for no entry
  subscribed,  \* RedisPubSubManager.subscribedChannels
  pending,     \* commands sent by the subscriber client, oldest first
  wire,        \* channels Redis delivers to this node while subUp
  subUp,       \* subscriberStatus is connected
  pubUp,       \* publisherStatus is connected
  ended,       \* the clients whose retryStrategy has given up
  outages,
  failures     \* how many commands have failed

redisState == <<subUp, pubUp, ended, outages>>
vars == <<holders, refCount, subscribed, pending, wire, redisState, failures>>

Command == [op : {"sub", "unsub"}, chs : SUBSET Channels,
            by : {"increment", "decrement", "restore"}]

IsConnected == subUp /\ pubUp

Init ==
  /\ holders = [ch \in Channels |-> {}]
  /\ refCount = [ch \in Channels |-> 0]
  /\ subscribed = {}
  /\ pending = <<>>
  /\ wire = {}
  /\ subUp = TRUE /\ pubUp = TRUE /\ ended = {} /\ outages = 0
  /\ failures = 0

-----------------------------------------------------------------------------
\* A command is only sent when both clients are up.
Send(o, ch, who) ==
  pending' = IF IsConnected
               THEN Append(pending, [op |-> o, chs |-> {ch}, by |-> who])
               ELSE pending

\* RedisPubSubManager.subscribe.
Subscribe(ch) ==
  IF ch \in subscribed
    THEN UNCHANGED <<subscribed, pending>>
    ELSE subscribed' = subscribed \cup {ch} /\ Send("sub", ch, "increment")

\* Mutant: the channel is not forgotten.
UnsubscribeKeep(ch) ==
  Send("unsub", ch, "decrement") /\ UNCHANGED subscribed

\* RedisPubSubManager.unsubscribe.
Unsubscribe(ch) ==
  IF ch \in subscribed
    THEN subscribed' = subscribed \ {ch} /\ Send("unsub", ch, "decrement")
    ELSE UNCHANGED <<subscribed, pending>>

\* Mutant: further holders are not counted.
IncrementOnce(ch) ==
  /\ refCount' = [refCount EXCEPT ![ch] = 1]
  /\ IF refCount[ch] = 0 THEN Subscribe(ch) ELSE UNCHANGED <<subscribed, pending>>

\* incrementSubscription up to its await.
Increment(ch) ==
  /\ refCount' = [refCount EXCEPT ![ch] = @ + 1]
  /\ IF refCount[ch] = 0 THEN Subscribe(ch) ELSE UNCHANGED <<subscribed, pending>>

\* decrementSubscription up to its await; nothing happens at 0.
Decrement(ch) ==
  /\ refCount' = [refCount EXCEPT ![ch] = IF @ = 0 THEN 0 ELSE @ - 1]
  /\ IF refCount[ch] = 1 THEN Unsubscribe(ch) ELSE UNCHANGED <<subscribed, pending>>

\* joinRoom of a room the connection is not in, or addConnection.
Hold(ch, c) ==
  /\ c \notin holders[ch]
  /\ Len(pending) < MaxPending
  /\ holders' = [holders EXCEPT ![ch] = @ \cup {c}]
  /\ Increment(ch)
  /\ UNCHANGED <<wire, redisState, failures>>

\* leaveRoom of a room the connection is in, or removeConnection.
Release(ch, c) ==
  /\ c \in holders[ch]
  /\ Len(pending) < MaxPending
  /\ holders' = [holders EXCEPT ![ch] = @ \ {c}]
  /\ Decrement(ch)
  /\ UNCHANGED <<wire, redisState, failures>>

\* Redis executes the oldest command and answers it.
Answer ==
  /\ subUp
  /\ pending # <<>>
  /\ wire' = IF Head(pending).op = "sub" THEN wire \cup Head(pending).chs
                                         ELSE wire \ Head(pending).chs
  /\ pending' = Tail(pending)
  /\ UNCHANGED <<holders, refCount, subscribed, redisState, failures>>

\* Mutant: a failed unsubscribe gives its reference back.
FailGivesBack ==
  /\ pending # <<>> /\ failures < MaxFailures
  /\ failures' = failures + 1
  /\ refCount' = [ch \in Channels |->
       IF ch \notin Head(pending).chs \/ Head(pending).by = "restore"
         THEN refCount[ch]
         ELSE IF Head(pending).by = "increment" THEN 0 ELSE refCount[ch] + 1]
  /\ pending' = Tail(pending)
  /\ UNCHANGED <<holders, subscribed, wire, redisState>>

\* The oldest command fails: the registry rolls its count back, to no entry
\* after a subscribe and to 1 after an unsubscribe.
Fail ==
  /\ pending # <<>> /\ failures < MaxFailures
  /\ failures' = failures + 1
  /\ refCount' = [ch \in Channels |->
       IF ch \notin Head(pending).chs \/ Head(pending).by = "restore"
         THEN refCount[ch]
         ELSE IF Head(pending).by = "increment" THEN 0 ELSE 1]
  /\ pending' = Tail(pending)
  /\ UNCHANGED <<holders, subscribed, wire, redisState>>

\* Either client loses its connection.
SubscriberDown ==
  /\ subUp /\ outages < MaxOutages
  /\ subUp' = FALSE /\ outages' = outages + 1
  /\ wire' = IF AutoResubscribe THEN wire ELSE {}
  /\ UNCHANGED <<holders, refCount, subscribed, pending, pubUp, ended, failures>>

PublisherDown ==
  /\ pubUp /\ outages < MaxOutages
  /\ pubUp' = FALSE /\ outages' = outages + 1
  /\ UNCHANGED <<holders, refCount, subscribed, pending, wire, subUp, ended, failures>>

\* Mutant: subscriptions are not restored.
NoRestore == UNCHANGED pending

\* restoreSubscriptions, when both clients are up again.
RestoreSubscriptions ==
  pending' = IF subscribed = {} THEN pending
             ELSE Append(pending, [op |-> "sub", chs |-> subscribed, by |-> "restore"])

\* Either client is ready again; "connected" is emitted when both are.
SubscriberUp ==
  /\ ~subUp /\ "subscriber" \notin ended /\ subUp' = TRUE
  /\ IF pubUp THEN RestoreSubscriptions ELSE UNCHANGED pending
  /\ UNCHANGED <<holders, refCount, subscribed, wire, pubUp, ended, outages, failures>>

PublisherUp ==
  /\ ~pubUp /\ "publisher" \notin ended /\ pubUp' = TRUE
  /\ IF subUp THEN RestoreSubscriptions ELSE UNCHANGED pending
  /\ UNCHANGED <<holders, refCount, subscribed, wire, subUp, ended, outages, failures>>

\* What the rollbacks of all commands in flight leave of a count: the answer to
\* the last command that names the channel decides.
RolledBack(ch) ==
  LET asked == {i \in 1..Len(pending) :
                  ch \in pending[i].chs /\ pending[i].by # "restore"}
      last == CHOOSE i \in asked : \A j \in asked : j <= i
  IN  IF asked = {} THEN refCount[ch]
      ELSE IF pending[last].by = "increment" THEN 0 ELSE 1

\* retryStrategy returns null after retryMaxAttempts: the client ends, and a
\* subscriber that ends rejects every command it still has.
SubscriberGivesUp ==
  /\ ~subUp /\ "subscriber" \notin ended
  /\ ended' = ended \cup {"subscriber"}
  /\ refCount' = [ch \in Channels |-> RolledBack(ch)]
  /\ pending' = <<>>
  /\ failures' = IF pending = <<>> THEN failures ELSE failures + 1
  /\ UNCHANGED <<holders, subscribed, wire, subUp, pubUp, outages>>

PublisherGivesUp ==
  /\ ~pubUp /\ "publisher" \notin ended
  /\ ended' = ended \cup {"publisher"}
  /\ UNCHANGED <<holders, refCount, subscribed, pending, wire, subUp, pubUp, outages,
                 failures>>

Next ==
  \/ \E ch \in Channels, c \in Conns : Hold(ch, c) \/ Release(ch, c)
  \/ Answer \/ Fail
  \/ SubscriberDown \/ PublisherDown \/ SubscriberUp \/ PublisherUp
  \/ SubscriberGivesUp \/ PublisherGivesUp

\* Redis answers a client that is connected.  A client that is not makes at most
\* retryMaxAttempts attempts, which configuration requires to be at least 1, so
\* in the end it is ready again or has given up: which of the two is open.
Fairness ==
  /\ WF_vars(Answer)
  /\ WF_vars(SubscriberUp \/ SubscriberGivesUp)
  /\ WF_vars(PublisherUp \/ PublisherGivesUp)

Spec == Init /\ [][Next]_vars
FairSpec == Spec /\ Fairness

-----------------------------------------------------------------------------
(***************************************************************************)
(* Properties                                                              *)
(***************************************************************************)

\* The maps, sets and commands have their types.
TypeOK ==
  /\ holders \in [Channels -> SUBSET Conns]
  /\ refCount \in [Channels -> 0..(Cardinality(Conns) + 1)]
  /\ subscribed \in SUBSET Channels
  /\ pending \in Seq(Command)
  /\ wire \in SUBSET Channels
  /\ subUp \in BOOLEAN /\ pubUp \in BOOLEAN
  /\ ended \in SUBSET {"publisher", "subscriber"}
  /\ outages \in 0..MaxOutages
  /\ failures \in 0..(MaxFailures + 1)

\* As long as no command has failed, the registry counts exactly the local
\* holders, and remembers for restoreSubscriptions exactly the channels that
\* have one, whatever outages and commands in flight there are.
RefCountExact ==
  failures = 0 =>
    \A ch \in Channels :
      /\ refCount[ch] = Cardinality(holders[ch])
      /\ ch \in subscribed <=> refCount[ch] > 0

\* Whatever commands fail and in whatever order, the rollbacks never make the
\* registry count more than one holder too many, so the subscriptions that
\* failures leak do not add up.
OvercountBounded ==
  \A ch \in Channels : refCount[ch] <= Cardinality(holders[ch]) + 1

\* As long as no command has failed: when both clients are up and no command is
\* in flight, Redis delivers every channel that has a local holder.
Listening ==
  failures = 0 /\ IsConnected /\ pending = <<>> =>
    \A ch \in Channels : holders[ch] # {} => ch \in wire

\* A channel that is held is in the end delivered, or released: outages and
\* commands in flight delay a subscription, and only an error answer loses it or
\* a client that has used up its retryMaxAttempts.
EventuallyListening ==
  \A ch \in Channels :
    holders[ch] # {} ~>
      (holders[ch] = {} \/ (subUp /\ ch \in wire) \/ failures > 0 \/ ended # {})

\* When both clients are up and no command is in flight, Redis delivers every
\* channel the registry counts a holder for: a subscribe that failed can be
\* repeated by the next 0 -> 1 transition.  It does not hold: pub/sub still takes
\* the channel of a failed subscribe for subscribed.
RetrySubscribes ==
  IsConnected /\ pending = <<>> =>
    \A ch \in Channels : refCount[ch] > 0 => ch \in wire
=============================================================================

---------------------------- MODULE ChannelProofs ----------------------------
(***************************************************************************)
(* Proofs about ChannelSubscriptions, for every set of channels and        *)
(* connections and every number of outages and commands in flight.         *)
(***************************************************************************)
EXTENDS ChannelSubscriptions, TLAPS, FiniteSetTheorems

\* The type invariant without the bound on the counts.
Types ==
  /\ holders \in [Channels -> SUBSET Conns]
  /\ refCount \in [Channels -> Nat]
  /\ subscribed \in SUBSET Channels
  /\ pending \in Seq(Command)
  /\ wire \in SUBSET Channels
  /\ subUp \in BOOLEAN /\ pubUp \in BOOLEAN
  /\ ended \in SUBSET {"publisher", "subscriber"}
  /\ outages \in 0..MaxOutages
  /\ failures \in 0..(MaxFailures + 1)
  /\ "subscriber" \notin ended => failures <= MaxFailures

\* A command for one channel, or for all subscribed channels, is a command.
LEMMA CommandType ==
  ASSUME Types
  PROVE  /\ \A ch \in Channels, o \in {"sub", "unsub"}, w \in {"increment", "decrement"} :
              [op |-> o, chs |-> {ch}, by |-> w] \in Command
         /\ [op |-> "sub", chs |-> subscribed, by |-> "restore"] \in Command
  BY DEF Types, Command

\* The number of holders of a channel, before and after a step of one of them.
LEMMA HolderCount ==
  ASSUME Types, NEW ch \in Channels, NEW c \in Conns
  PROVE  /\ Cardinality(holders[ch]) \in Nat
         /\ Cardinality(holders[ch]) <= Cardinality(Conns)
         /\ Cardinality(Conns) \in Nat
         /\ c \notin holders[ch] =>
              Cardinality(holders[ch] \cup {c}) = Cardinality(holders[ch]) + 1
         /\ c \in holders[ch] =>
              Cardinality(holders[ch] \ {c}) = Cardinality(holders[ch]) - 1
         /\ holders[ch] = {} <=> Cardinality(holders[ch]) = 0
<1>1. holders[ch] \subseteq Conns /\ IsFiniteSet(Conns)
  BY ChannelAssumption DEF Types
<1>2. IsFiniteSet(holders[ch]) /\ Cardinality(holders[ch]) <= Cardinality(Conns)
  BY <1>1, FS_Subset
<1> QED
  BY <1>1, <1>2, FS_CardinalityType, FS_AddElement, FS_RemoveElement, FS_EmptySet

\* What subscribe, unsubscribe and the registry may do to the commands and the
\* set of subscribed channels.
LEMMA SendType ==
  ASSUME Types, NEW ch \in Channels,
         \/ subscribed' = subscribed \cup {ch} /\ Send("sub", ch, "increment")
         \/ subscribed' = subscribed \ {ch} /\ Send("unsub", ch, "decrement")
         \/ UNCHANGED <<subscribed, pending>>
  PROVE  subscribed' \in SUBSET Channels /\ pending' \in Seq(Command)
<1>0. pending \in Seq(Command) /\ subscribed \subseteq Channels
  BY DEF Types
<1>1. ASSUME NEW o \in {"sub", "unsub"}, NEW w \in {"increment", "decrement"}
      PROVE  Append(pending, [op |-> o, chs |-> {ch}, by |-> w]) \in Seq(Command)
  <2>1. [op |-> o, chs |-> {ch}, by |-> w] \in Command
    BY CommandType
  <2> QED
    BY <1>0, <2>1
<1>2. \/ UNCHANGED pending
      \/ pending' = Append(pending, [op |-> "sub", chs |-> {ch}, by |-> "increment"])
      \/ pending' = Append(pending, [op |-> "unsub", chs |-> {ch}, by |-> "decrement"])
  BY DEF Send
<1> QED
  BY <1>0, <1>1, <1>2

LEMMA RestoreType ==
  ASSUME Types, RestoreSubscriptions \/ UNCHANGED pending
  PROVE  pending' \in Seq(Command)
<1> DEFINE restore == [op |-> "sub", chs |-> subscribed, by |-> "restore"]
<1>1. restore \in Command /\ pending \in Seq(Command)
  BY CommandType DEF Types
<1>2. pending' = pending \/ pending' = Append(pending, restore)
  BY DEF RestoreSubscriptions
<1> HIDE DEF restore
<1> QED
  BY <1>1, <1>2

\* The rollbacks of the commands in flight leave a count as it is, or 0, or 1.
LEMMA RolledBackValue ==
  \A ch \in Channels : RolledBack(ch) \in {0, 1, refCount[ch]}
  BY DEF RolledBack

\* The initial state has its types.
LEMMA InitTypes == Init => Types
  BY ChannelAssumption DEF Init, Types

\* Every step keeps the types.
LEMMA NextTypes == Types /\ [Next]_vars => Types'
<1> SUFFICES ASSUME Types, [Next]_vars PROVE Types'
  OBVIOUS
<1>1. ASSUME NEW ch \in Channels, NEW c \in Conns, Hold(ch, c) PROVE Types'
  <2>1. subscribed' \in SUBSET Channels /\ pending' \in Seq(Command)
    BY <1>1, SendType DEF Hold, Increment, Subscribe
  <2> QED
    BY <1>1, <2>1 DEF Types, Hold, Increment, redisState
<1>2. ASSUME NEW ch \in Channels, NEW c \in Conns, Release(ch, c) PROVE Types'
  <2>1. subscribed' \in SUBSET Channels /\ pending' \in Seq(Command)
    BY <1>2, SendType DEF Release, Decrement, Unsubscribe
  <2>2. refCount' \in [Channels -> Nat]
    BY <1>2 DEF Types, Release, Decrement
  <2> QED
    BY <1>2, <2>1, <2>2 DEF Types, Release, redisState
<1>3. CASE Answer
  <2>1. Head(pending) \in Command /\ Tail(pending) \in Seq(Command)
    BY <1>3 DEF Answer, Types
  <2>2. Head(pending).chs \subseteq Channels
    BY <2>1 DEF Command
  <2> QED
    BY <1>3, <2>1, <2>2 DEF Answer, Types, redisState
<1>4. CASE Fail
  <2>1. Tail(pending) \in Seq(Command)
    BY <1>4 DEF Fail, Types
  <2>2. refCount' \in [Channels -> Nat]
    BY <1>4 DEF Fail, Types
  <2>3. failures' \in 0..MaxFailures /\ MaxFailures \in Nat
    BY <1>4, ChannelAssumption DEF Fail, Types
  <2>4. failures' \in 0..(MaxFailures + 1) /\ failures' <= MaxFailures
    BY <2>3
  <2> QED
    BY <1>4, <2>1, <2>2, <2>4 DEF Fail, Types, redisState
<1>5. CASE SubscriberDown
  <2>1. outages < MaxOutages /\ outages' = outages + 1
    BY <1>5 DEF SubscriberDown
  <2>2. outages' \in 0..MaxOutages
    BY <2>1, ChannelAssumption DEF Types
  <2> QED
    BY <1>5, <2>2, Zenon DEF SubscriberDown, Types
<1>6. CASE PublisherDown
  <2>1. outages < MaxOutages /\ outages' = outages + 1
    BY <1>6 DEF PublisherDown
  <2>2. outages' \in 0..MaxOutages
    BY <2>1, ChannelAssumption DEF Types
  <2> QED
    BY <1>6, <2>2, Zenon DEF PublisherDown, Types
<1>7. CASE SubscriberUp
  <2>1. RestoreSubscriptions \/ UNCHANGED pending
    BY <1>7, Zenon DEF SubscriberUp
  <2>2. pending' \in Seq(Command)
    BY <2>1, RestoreType
  <2> QED
    BY <1>7, <2>2, Zenon DEF SubscriberUp, Types
<1>8. CASE PublisherUp
  <2>1. RestoreSubscriptions \/ UNCHANGED pending
    BY <1>8, Zenon DEF PublisherUp
  <2>2. pending' \in Seq(Command)
    BY <2>1, RestoreType
  <2> QED
    BY <1>8, <2>2, Zenon DEF PublisherUp, Types
<1>9. CASE SubscriberGivesUp
  <2>1. ended' \in SUBSET {"publisher", "subscriber"} /\ "subscriber" \in ended'
    BY <1>9 DEF SubscriberGivesUp, Types
  <2>2. refCount' \in [Channels -> Nat]
    <3>1. \A ch \in Channels : RolledBack(ch) \in Nat
      BY RolledBackValue DEF Types
    <3> QED
      BY <1>9, <3>1 DEF SubscriberGivesUp
  <2>3. failures' \in 0..(MaxFailures + 1)
    BY <1>9, ChannelAssumption DEF SubscriberGivesUp, Types
  <2>4. pending' \in Seq(Command)
    BY <1>9 DEF SubscriberGivesUp
  <2> QED
    BY <1>9, <2>1, <2>2, <2>3, <2>4, Zenon DEF SubscriberGivesUp, Types
<1>10. CASE PublisherGivesUp
  <2>1. /\ ended' \in SUBSET {"publisher", "subscriber"}
        /\ "subscriber" \notin ended' => "subscriber" \notin ended
    BY <1>10 DEF PublisherGivesUp, Types
  <2> QED
    BY <1>10, <2>1, Zenon DEF PublisherGivesUp, Types
<1>11. CASE UNCHANGED vars
  BY <1>11 DEF vars, redisState, Types
<1> QED
  BY <1>1, <1>2, <1>3, <1>4, <1>5, <1>6, <1>7, <1>8, <1>9, <1>10, <1>11, Zenon DEF Next

-----------------------------------------------------------------------------
(***************************************************************************)
(* Counts                                                                  *)
(***************************************************************************)

\* A join or a leave moves the count of its own channel only.
LEMMA CountStep ==
  ASSUME Types, NEW ch \in Channels, NEW c \in Conns, Hold(ch, c) \/ Release(ch, c)
  PROVE  /\ \A d \in Channels \ {ch} :
              refCount'[d] = refCount[d] /\ holders'[d] = holders[d]
         /\ Hold(ch, c) =>
              /\ refCount'[ch] = refCount[ch] + 1
              /\ Cardinality(holders'[ch]) = Cardinality(holders[ch]) + 1
         /\ Release(ch, c) =>
              /\ refCount'[ch] = IF refCount[ch] = 0 THEN 0 ELSE refCount[ch] - 1
              /\ Cardinality(holders'[ch]) = Cardinality(holders[ch]) - 1
<1>1. \A d \in Channels \ {ch} : refCount'[d] = refCount[d] /\ holders'[d] = holders[d]
  BY DEF Types, Hold, Release, Increment, Decrement
<1>2. ASSUME Hold(ch, c)
      PROVE  /\ refCount'[ch] = refCount[ch] + 1
             /\ Cardinality(holders'[ch]) = Cardinality(holders[ch]) + 1
  <2>1. /\ holders'[ch] = holders[ch] \cup {c} /\ c \notin holders[ch]
        /\ refCount'[ch] = refCount[ch] + 1
    BY <1>2 DEF Types, Hold, Increment
  <2> QED
    BY <2>1, HolderCount
<1>3. ASSUME Release(ch, c)
      PROVE  /\ refCount'[ch] = IF refCount[ch] = 0 THEN 0 ELSE refCount[ch] - 1
             /\ Cardinality(holders'[ch]) = Cardinality(holders[ch]) - 1
  <2>1. /\ holders'[ch] = holders[ch] \ {c} /\ c \in holders[ch]
        /\ refCount'[ch] = IF refCount[ch] = 0 THEN 0 ELSE refCount[ch] - 1
    BY <1>3 DEF Types, Release, Decrement
  <2> QED
    BY <2>1, HolderCount
<1> QED
  BY <1>1, <1>2, <1>3

\* Steps of Redis and of the clients leave holders and counts alone, except
\* the rollbacks of failed commands.
LEMMA RedisStep ==
  ASSUME Types, [Next]_vars,
         ~ \E ch \in Channels, c \in Conns : Hold(ch, c) \/ Release(ch, c)
  PROVE  /\ UNCHANGED <<holders, subscribed>>
         /\ Fail \/ SubscriberGivesUp \/ UNCHANGED refCount
  BY Zenon DEF Next, Answer, Fail, SubscriberDown, PublisherDown, SubscriberUp,
     PublisherUp, SubscriberGivesUp, PublisherGivesUp, vars

\* Every step keeps the bound on the overcount.
LEMMA NextOvercount ==
  Types /\ OvercountBounded /\ [Next]_vars => OvercountBounded'
<1> SUFFICES ASSUME Types, OvercountBounded, [Next]_vars, NEW d \in Channels
             PROVE  refCount'[d] <= Cardinality(holders'[d]) + 1
  BY DEF OvercountBounded
<1>0. /\ refCount[d] \in Nat /\ refCount[d] <= Cardinality(holders[d]) + 1
      /\ \A c \in Conns : Cardinality(holders[d]) \in Nat
      /\ \A c \in Conns : c \in holders[d] => Cardinality(holders[d]) # 0
  BY HolderCount DEF Types, OvercountBounded
<1>1. ASSUME NEW ch \in Channels, NEW c \in Conns, Hold(ch, c) \/ Release(ch, c)
      PROVE  refCount'[d] <= Cardinality(holders'[d]) + 1
  <2>1. CASE d # ch
    BY <1>0, <1>1, <2>1, CountStep
  <2>2. CASE d = ch /\ Hold(ch, c)
    BY <1>0, <2>2, CountStep
  <2>3. CASE d = ch /\ Release(ch, c)
    <3>1. c \in holders[d]
      BY <2>3 DEF Release
    <3> QED
      BY <1>0, <2>3, <3>1, CountStep
  <2> QED
    BY <1>1, <2>1, <2>2, <2>3
<1>2. ASSUME ~ \E ch \in Channels, c \in Conns : Hold(ch, c) \/ Release(ch, c)
      PROVE  refCount'[d] <= Cardinality(holders'[d]) + 1
  <2>1. IsFiniteSet(holders[d])
    BY ChannelAssumption, FS_Subset DEF Types
  <2>2. Cardinality(holders[d]) \in Nat
    BY <2>1, FS_CardinalityType
  <2>3. holders' = holders /\ (Fail \/ SubscriberGivesUp \/ refCount' = refCount)
    BY <1>2, RedisStep
  <2>4. refCount'[d] \in {0, 1, refCount[d]}
    BY <2>3, RolledBackValue DEF Fail, SubscriberGivesUp
  <2> QED
    BY <1>0, <2>2, <2>3, <2>4
<1> QED
  BY <1>1, <1>2

\* The rollbacks of failed commands never make the registry overcount a channel
\* by more than one.
THEOREM Overcount == Spec => []OvercountBounded
<1>1. Init => OvercountBounded
  BY FS_EmptySet DEF Init, OvercountBounded
<1> QED
  BY <1>1, InitTypes, NextTypes, NextOvercount, PTL DEF Spec

\* The maps, sets and commands have their types.
THEOREM TypeCorrect == Spec => []TypeOK
<1>1. ASSUME Types, OvercountBounded PROVE TypeOK
  <2>1. \A ch \in Channels : Cardinality(holders[ch]) \in Nat
                            /\ Cardinality(holders[ch]) <= Cardinality(Conns)
    BY <1>1, ChannelAssumption, FS_Subset, FS_CardinalityType DEF Types
  <2>2. Cardinality(Conns) \in Nat
    BY ChannelAssumption, FS_CardinalityType
  <2>3. refCount \in [Channels -> 0..(Cardinality(Conns) + 1)]
    BY <1>1, <2>1, <2>2 DEF Types, OvercountBounded
  <2> QED
    BY <1>1, <2>3, Zenon DEF Types, TypeOK
<1> QED
  BY <1>1, InitTypes, NextTypes, Overcount, PTL DEF Spec

-----------------------------------------------------------------------------
(***************************************************************************)
(* As long as no command has failed                                        *)
(***************************************************************************)

\* A command that tells Redis about ch, and what the commands from position i
\* on do about it: the last one that names ch is a SUBSCRIBE.
Names(k, ch) == ch \in pending[k].chs
NoUnsub(i, ch) ==
  \A k \in 1..Len(pending) : k >= i /\ Names(k, ch) => pending[k].op = "sub"

\* Once every command in flight is answered, Redis delivers ch.
WillListen(ch) ==
  \/ ch \in wire /\ NoUnsub(1, ch)
  \/ \E i \in 1..Len(pending) : Names(i, ch) /\ NoUnsub(i, ch)

ListenInv == failures = 0 /\ IsConnected => \A ch \in subscribed : WillListen(ch)

\* Adding a command that subscribes ch, or does not name it, keeps WillListen.
LEMMA AppendListen ==
  ASSUME Types, NEW d \in Channels, NEW cmd \in Command,
         pending' = Append(pending, cmd), UNCHANGED wire,
         \/ cmd.op = "sub" /\ d \in cmd.chs
         \/ d \notin cmd.chs /\ WillListen(d)
  PROVE  WillListen(d)'
<1>1. /\ Len(pending') = Len(pending) + 1 /\ Len(pending) \in Nat
      /\ pending'[Len(pending) + 1] = cmd
      /\ \A k \in 1..Len(pending) : pending'[k] = pending[k]
  BY DEF Types
<1>2. CASE cmd.op = "sub" /\ d \in cmd.chs
  BY <1>1, <1>2 DEF WillListen, Names, NoUnsub
<1>3. CASE d \notin cmd.chs /\ d \in wire /\ NoUnsub(1, d)
  BY <1>1, <1>3 DEF WillListen, Names, NoUnsub
<1>4. CASE d \notin cmd.chs /\ \E i \in 1..Len(pending) : Names(i, d) /\ NoUnsub(i, d)
  <2>1. PICK i \in 1..Len(pending) : Names(i, d) /\ NoUnsub(i, d)
    BY <1>4
  <2>2. i \in 1..Len(pending') /\ Names(i, d)' /\ NoUnsub(i, d)'
    BY <1>1, <1>4, <2>1 DEF Names, NoUnsub
  <2> QED
    BY <2>2 DEF WillListen
<1> QED
  BY <1>2, <1>3, <1>4 DEF WillListen

\* Answering the oldest command keeps WillListen.
LEMMA AnswerListen ==
  ASSUME Types, Answer, NEW d \in Channels, WillListen(d)
  PROVE  WillListen(d)'
<1>1. /\ Len(pending) \in Nat \ {0} /\ Len(pending') = Len(pending) - 1
      /\ \A k \in 1..Len(pending') : pending'[k] = pending[k + 1]
      /\ Head(pending) = pending[1]
  BY DEF Types, Answer
<1>2. wire' = IF pending[1].op = "sub" THEN wire \cup pending[1].chs
                                       ELSE wire \ pending[1].chs
  BY <1>1 DEF Answer
<1>3. CASE d \in wire /\ NoUnsub(1, d)
  <2>1. d \in wire'
    BY <1>1, <1>2, <1>3 DEF Names, NoUnsub
  <2>2. NoUnsub(1, d)'
    BY <1>1, <1>3 DEF Names, NoUnsub
  <2> QED
    BY <2>1, <2>2 DEF WillListen
<1>4. CASE \E i \in 1..Len(pending) : Names(i, d) /\ NoUnsub(i, d)
  <2>1. PICK i \in 1..Len(pending) : Names(i, d) /\ NoUnsub(i, d)
    BY <1>4
  <2>2. CASE i = 1
    <3>1. d \in wire'
      BY <1>1, <1>2, <2>1, <2>2 DEF Names, NoUnsub
    <3>2. NoUnsub(1, d)'
      BY <1>1, <2>1, <2>2 DEF Names, NoUnsub
    <3> QED
      BY <3>1, <3>2 DEF WillListen
  <2>3. CASE i # 1
    <3>1. i - 1 \in 1..Len(pending') /\ Names(i - 1, d)' /\ NoUnsub(i - 1, d)'
      BY <1>1, <2>1, <2>3 DEF Names, NoUnsub
    <3> QED
      BY <3>1 DEF WillListen
  <2> QED
    BY <2>2, <2>3
<1> QED
  BY <1>3, <1>4 DEF WillListen

ExactInv == Types /\ RefCountExact /\ ListenInv

\* Without commands in flight there is nothing to roll back.
LEMMA NothingRolledBack ==
  ASSUME pending = <<>>
  PROVE  \A ch \in Channels : RolledBack(ch) = refCount[ch]
<1>1. 1..Len(pending) = {}
  OBVIOUS
<1>2. \A ch \in Channels :
        {i \in 1..Len(pending) : ch \in pending[i].chs /\ pending[i].by # "restore"} = {}
  BY <1>1
<1> QED
  BY <1>2 DEF RolledBack

\* After a step with no failure so far there was none before, and the step is
\* not a failure: a subscriber that ended had nothing in flight.
LEMMA NoFailure ==
  ASSUME Types, [Next]_vars, failures' = 0
  PROVE  /\ failures = 0 /\ ~Fail
         /\ SubscriberGivesUp => UNCHANGED <<refCount, pending>>
<1>1. failures \in Nat
  BY ChannelAssumption DEF Types
<1>2. failures' = failures \/ Fail \/ SubscriberGivesUp
  BY Zenon DEF Next, Hold, Release, Answer, SubscriberDown, PublisherDown,
     SubscriberUp, PublisherUp, PublisherGivesUp, vars
<1>3. Fail => failures' = failures + 1
  BY DEF Fail
<1>4. SubscriberGivesUp => failures' = failures \/ failures' = failures + 1
  BY DEF SubscriberGivesUp
<1>5. failures = 0 /\ ~Fail
  BY <1>1, <1>2, <1>3, <1>4
<1>6. ASSUME SubscriberGivesUp PROVE UNCHANGED <<refCount, pending>>
  <2>1. pending = <<>> /\ pending' = <<>>
    BY <1>1, <1>5, <1>6 DEF SubscriberGivesUp
  <2>2. refCount' = [ch \in Channels |-> refCount[ch]]
    BY <1>6, <2>1, NothingRolledBack DEF SubscriberGivesUp
  <2> QED
    BY <2>1, <2>2 DEF Types
<1> QED
  BY <1>5, <1>6

\* As long as no command has failed the counts stay exact.
LEMMA NextRefCount ==
  ASSUME Types, RefCountExact, [Next]_vars
  PROVE  RefCountExact'
<1> SUFFICES ASSUME failures' = 0 PROVE RefCountExact'
  BY DEF RefCountExact
<1>0. failures = 0 /\ ~Fail
  BY NoFailure
<1>1. ASSUME NEW ch \in Channels, NEW c \in Conns, Hold(ch, c)
      PROVE  RefCountExact'
  <2>1. subscribed' = IF refCount[ch] = 0 THEN subscribed \cup {ch} ELSE subscribed
    BY <1>1 DEF Hold, Increment, Subscribe
  <2> QED
    BY <1>0, <1>1, <2>1, CountStep DEF RefCountExact, Types
<1>2. ASSUME NEW ch \in Channels, NEW c \in Conns, Release(ch, c)
      PROVE  RefCountExact'
  <2>1. subscribed' = IF refCount[ch] = 1 THEN subscribed \ {ch} ELSE subscribed
    BY <1>2 DEF Release, Decrement, Unsubscribe
  <2>2. refCount[ch] # 0
    BY <1>0, <1>2, HolderCount DEF RefCountExact, Release
  <2> QED
    BY <1>0, <1>2, <2>1, <2>2, CountStep DEF RefCountExact, Types
<1>3. ASSUME ~ \E ch \in Channels, c \in Conns : Hold(ch, c) \/ Release(ch, c)
      PROVE  RefCountExact'
  <2>1. UNCHANGED <<holders, subscribed, refCount>>
    BY <1>0, <1>3, NoFailure, RedisStep
  <2> QED
    BY <1>0, <2>1 DEF RefCountExact
<1> QED
  BY <1>1, <1>2, <1>3

\* As long as no command has failed every subscribed channel will be delivered.
LEMMA NextListen ==
  ASSUME Types, RefCountExact, ListenInv, [Next]_vars
  PROVE  ListenInv'
<1> SUFFICES ASSUME failures' = 0, IsConnected', NEW d \in subscribed'
             PROVE  WillListen(d)'
  BY DEF ListenInv
<1>0. d \in Channels /\ failures = 0 /\ ~Fail
  BY NextTypes, NoFailure DEF Types
<1>1. ASSUME NEW ch \in Channels, NEW c \in Conns, Hold(ch, c)
      PROVE  WillListen(d)'
  <2>1. IsConnected /\ UNCHANGED wire
    BY <1>1 DEF Hold, IsConnected, redisState
  <2>2. CASE UNCHANGED <<subscribed, pending>>
    BY <1>0, <2>1, <2>2 DEF ListenInv, WillListen, Names, NoUnsub
  <2>3. CASE subscribed' = subscribed \cup {ch} /\ Send("sub", ch, "increment")
    <3>1. pending' = Append(pending, [op |-> "sub", chs |-> {ch}, by |-> "increment"])
      BY <2>1, <2>3 DEF Send
    <3>2. d = ch \/ WillListen(d)
      BY <1>0, <2>1, <2>3 DEF ListenInv
    <3> QED
      BY <1>0, <2>1, <3>1, <3>2, AppendListen, CommandType
  <2> QED
    BY <1>1, <2>2, <2>3 DEF Hold, Increment, Subscribe
<1>2. ASSUME NEW ch \in Channels, NEW c \in Conns, Release(ch, c)
      PROVE  WillListen(d)'
  <2>1. IsConnected /\ UNCHANGED wire
    BY <1>2 DEF Release, IsConnected, redisState
  <2>2. CASE UNCHANGED <<subscribed, pending>>
    BY <1>0, <2>1, <2>2 DEF ListenInv, WillListen, Names, NoUnsub
  <2>3. CASE subscribed' = subscribed \ {ch} /\ Send("unsub", ch, "decrement")
    <3>1. pending' = Append(pending, [op |-> "unsub", chs |-> {ch}, by |-> "decrement"])
      BY <2>1, <2>3 DEF Send
    <3>2. d # ch /\ WillListen(d)
      BY <1>0, <2>1, <2>3 DEF ListenInv
    <3> QED
      BY <1>0, <2>1, <3>1, <3>2, AppendListen, CommandType
  <2> QED
    BY <1>2, <2>2, <2>3 DEF Release, Decrement, Unsubscribe
<1>3. CASE Answer
  BY <1>0, <1>3, AnswerListen DEF Answer, ListenInv, IsConnected, redisState
<1>4. CASE Fail
  BY <1>0, <1>4
<1>5. CASE SubscriberDown \/ PublisherDown
  BY <1>5, Zenon DEF SubscriberDown, PublisherDown, IsConnected
<1>6. CASE SubscriberUp \/ PublisherUp
  <2>1. RestoreSubscriptions /\ UNCHANGED <<subscribed, wire>>
    BY <1>6, Zenon DEF SubscriberUp, PublisherUp, IsConnected
  <2>2. pending' = Append(pending, [op |-> "sub", chs |-> subscribed, by |-> "restore"])
    BY <2>1 DEF RestoreSubscriptions
  <2> QED
    BY <1>0, <2>1, <2>2, AppendListen, CommandType
<1>7. CASE SubscriberGivesUp \/ PublisherGivesUp
  BY <1>7, Zenon DEF SubscriberGivesUp, PublisherGivesUp, IsConnected
<1>8. CASE UNCHANGED vars
  BY <1>0, <1>8 DEF vars, redisState, ListenInv, IsConnected, WillListen, Names, NoUnsub
<1> QED
  BY <1>1, <1>2, <1>3, <1>4, <1>5, <1>6, <1>7, <1>8, Zenon DEF Next

\* The initial state satisfies the invariant.
LEMMA InitExact == Init => ExactInv
  BY InitTypes, FS_EmptySet DEF Init, ExactInv, RefCountExact, ListenInv

\* As long as no command has failed, the registry counts exactly the local holders and
\* restoreSubscriptions knows exactly the channels that have one.
THEOREM CountsExact == Spec => []RefCountExact
<1>1. ExactInv /\ [Next]_vars => ExactInv'
  BY NextTypes, NextRefCount, NextListen DEF ExactInv
<1>2. ExactInv => RefCountExact
  BY DEF ExactInv
<1> QED
  BY <1>1, <1>2, InitExact, PTL DEF Spec

\* As long as no command has failed, through any outages: once both clients are up
\* and every command is answered Redis delivers every channel that is held.
THEOREM HeldIsDelivered == Spec => []Listening
<1>1. ExactInv /\ [Next]_vars => ExactInv'
  BY NextTypes, NextRefCount, NextListen DEF ExactInv
<1>2. ASSUME ExactInv PROVE Listening
  <2>1. SUFFICES ASSUME failures = 0, IsConnected, pending = <<>>, NEW ch \in Channels,
                        holders[ch] # {}
                 PROVE  ch \in wire
    BY DEF Listening
  <2>2. Cardinality(holders[ch]) # 0 /\ Cardinality(holders[ch]) \in Nat
    <3>1. IsFiniteSet(holders[ch])
      BY <1>2, ChannelAssumption, FS_Subset DEF ExactInv, Types
    <3> QED
      BY <2>1, <3>1, FS_EmptySet, FS_CardinalityType
  <2>3. ch \in subscribed
    BY <1>2, <2>1, <2>2 DEF ExactInv, RefCountExact
  <2>4. WillListen(ch)
    BY <1>2, <2>1, <2>3 DEF ExactInv, ListenInv
  <2> QED
    BY <2>1, <2>4 DEF WillListen
<1> QED
  BY <1>1, <1>2, InitExact, PTL DEF Spec
=============================================================================

---------------------------- MODULE PresenceProofs ----------------------------
(***************************************************************************)
(* Proofs about Presence: for every set of nodes, users and connections,   *)
(* no lease outlives its connection by more than Ttl, and while commands   *)
(* do not fail, an open connection has an unexpired lease.                 *)
(***************************************************************************)
EXTENDS Presence, SequenceTheorems, TLAPS

-----------------------------------------------------------------------------
(***************************************************************************)
(* The inductive invariants                                                *)
(***************************************************************************)

Cmd == [op : Ops, conns : SUBSET Conns, at : Nat, sent : Nat,
        user : Users \cup {"none"}, status : {"ONLINE", "OFFLINE", "none"}]

Typed ==
  /\ now \in Nat
  /\ up \subseteq Nodes
  /\ phase \in [Conns -> {"new", "open", "gone"}]
  /\ lease \in [Conns -> Nat]
  /\ commands \in [Nodes -> Seq(Cmd)]
  /\ nextFlush \in [Nodes -> Nat]
  /\ resync \in [Nodes -> SUBSET Conns]
  /\ goneAt \in [Conns -> Nat]

\* At time t, with connections in phases ph that went at times ga: a command that
\* waits was sent with a time of the past, and one that will set the lease of a
\* connection that is gone was sent before it went.
CmdOK(k, t, ph, ga) ==
  /\ k.at <= t
  /\ k.op \in {"register", "remove"} => \E c \in Conns : k.conns = {c}
  /\ k.op \in {"register", "renew"} =>
       \A c \in k.conns : ph[c] = "gone" => k.at <= ga[c]

QueuesOK ==
  \A n \in Nodes : \A i \in DOMAIN commands[n] : CmdOK(commands[n][i], now, phase, goneAt)

LeasesOK ==
  \A c \in Conns : /\ lease[c] <= now + Ttl
                   /\ phase[c] = "gone" => lease[c] <= goneAt[c] + Ttl

GhostInv == Typed /\ QueuesOK /\ LeasesOK

\* Timing of a command of node n, at time t with phases ph and timers nf: Redis
\* executes it within MaxDelay; the time in it is that of its sending; it is
\* about connections of n that have been opened; and a renewal is one of the
\* latest flush.
CmdTimely(n, k, t, ph, nf) ==
  /\ k.sent <= t /\ t <= k.sent + MaxDelay
  /\ k.op \in {"register", "remove", "renew"} => k.at = k.sent
  /\ k.op \in {"register", "renew"} => \A c \in k.conns : NodeOf[c] = n /\ ph[c] # "new"
  /\ k.op = "remove" => \A c \in k.conns : ph[c] = "gone"
  /\ k.op = "renew" => nf[n] = k.at + FlushInterval

QueuesTimely ==
  \A n \in Nodes : \A i \in DOMAIN commands[n] :
    CmdTimely(n, commands[n][i], now, phase, nextFlush)

\* The timer of a running node is set within one interval.
TimersOK ==
  /\ \A n \in up : now <= nextFlush[n] /\ nextFlush[n] <= now + FlushInterval
  /\ \A c \in Conns : phase[c] = "open" => NodeOf[c] \in up

\* k sets the lease of c.
Sets(k, o, c) == k.op = o /\ c \in k.conns

\* A registration that waits is followed by the flush within an interval of it,
\* or by the renewal that this flush has sent.
RegistrationsFollowed ==
  \A c \in Conns : \A i \in DOMAIN commands[NodeOf[c]] :
    LET q == commands[NodeOf[c]]
    IN phase[c] = "open" /\ Sets(q[i], "register", c) =>
         \/ nextFlush[NodeOf[c]] <= q[i].at + FlushInterval
         \/ \E j \in DOMAIN q : /\ i < j /\ Sets(q[j], "renew", c)
                                /\ q[j].sent <= q[i].at + FlushInterval

\* The lease of an open connection lasts until the renewal that is under way,
\* or the one that the next flush sends, has been executed at the latest.
Covered(c) ==
  LET q == commands[NodeOf[c]]
  IN \/ \E i \in DOMAIN q : Sets(q[i], "register", c)
     \/ \E i \in DOMAIN q : Sets(q[i], "renew", c) /\ lease[c] > q[i].sent + MaxDelay
     \/ lease[c] > nextFlush[NodeOf[c]] + MaxDelay

LeaseInv ==
  /\ failures \in Nat /\ QueuesTimely /\ TimersOK
  /\ failures = 0 => /\ RegistrationsFollowed
                     /\ \A c \in Conns : phase[c] = "open" => Covered(c)

-----------------------------------------------------------------------------
(***************************************************************************)
(* Queues of commands                                                      *)
(***************************************************************************)

LEMMA Constants ==
  /\ NodeOf \in [Conns -> Nodes] /\ UserOf \in [Conns -> Users]
  /\ Ttl \in Nat /\ FlushInterval \in Nat /\ FlushInterval > 0 /\ MaxDelay \in Nat
  BY PresenceAssumption

\* R is Q with x at the end of the queue of n.
Appended(Q, R, n, x) ==
  /\ R \in [Nodes -> Seq(Cmd)]
  /\ \A m \in Nodes \ {n} : R[m] = Q[m]
  /\ \A i \in DOMAIN R[n] : \/ i \in DOMAIN Q[n] /\ R[n][i] = Q[n][i]
                            \/ i = Len(Q[n]) + 1 /\ R[n][i] = x
  /\ \A i \in DOMAIN Q[n] : i \in DOMAIN R[n] /\ R[n][i] = Q[n][i] /\ i < Len(Q[n]) + 1
  /\ Len(Q[n]) + 1 \in DOMAIN R[n] /\ R[n][Len(Q[n]) + 1] = x

\* R is Q without the first command of n, and perhaps with x at the end.
Shifted(Q, R, n, x) ==
  /\ R \in [Nodes -> Seq(Cmd)]
  /\ \A m \in Nodes \ {n} : R[m] = Q[m]
  /\ \A i \in DOMAIN R[n] : \/ i + 1 \in DOMAIN Q[n] /\ R[n][i] = Q[n][i + 1]
                            \/ R[n][i] = x
  /\ \A i \in DOMAIN Q[n] : i # 1 => i - 1 \in DOMAIN R[n] /\ R[n][i - 1] = Q[n][i]

LEMMA AppendIsAppended ==
  ASSUME NEW Q \in [Nodes -> Seq(Cmd)], NEW n \in Nodes, NEW x \in Cmd, NEW R,
         R = [Q EXCEPT ![n] = Append(Q[n], x)]
  PROVE  Appended(Q, R, n, x)
<1> DEFINE q == Q[n]
           r == Append(q, x)
<1>1. q \in Seq(Cmd)
  OBVIOUS
<1> HIDE DEF q
<1>2. /\ r \in Seq(Cmd) /\ Len(r) = Len(q) + 1 /\ DOMAIN r = 1..Len(q) + 1
      /\ \A i \in 1..Len(q) : r[i] = q[i]
      /\ r[Len(q) + 1] = x
  BY <1>1, AppendProperties
<1>3. DOMAIN q = 1..Len(q) /\ Len(q) \in Nat
  BY <1>1
<1>4. R \in [Nodes -> Seq(Cmd)] /\ R[n] = r /\ \A m \in Nodes \ {n} : R[m] = Q[m]
  BY <1>2 DEF q
<1> HIDE DEF r
<1>5. /\ \A i \in DOMAIN r : (i \in DOMAIN q /\ r[i] = q[i]) \/ (i = Len(q) + 1 /\ r[i] = x)
      /\ \A i \in DOMAIN q : i \in DOMAIN r /\ r[i] = q[i] /\ i < Len(q) + 1
      /\ Len(q) + 1 \in DOMAIN r
  BY <1>2, <1>3
<1> QED
  BY <1>2, <1>4, <1>5 DEF Appended, q

LEMMA TailIsShifted ==
  ASSUME NEW Q \in [Nodes -> Seq(Cmd)], NEW n \in Nodes, Q[n] # <<>>, NEW x \in Cmd, NEW R,
         \/ R = [Q EXCEPT ![n] = Tail(Q[n])]
         \/ R = [Q EXCEPT ![n] = Append(Tail(Q[n]), x)]
  PROVE  Shifted(Q, R, n, x)
<1> DEFINE q == Q[n]
           t == Tail(q)
           r == R[n]
<1>1. q \in Seq(Cmd) /\ q # <<>>
  OBVIOUS
<1> HIDE DEF q
<1>2. t \in Seq(Cmd) /\ Len(t) = Len(q) - 1 /\ \A i \in 1..Len(t) : t[i] = q[i + 1]
  BY <1>1, HeadTailProperties
<1> HIDE DEF t
<1>3. DOMAIN q = 1..Len(q) /\ Len(q) \in Nat /\ DOMAIN t = 1..Len(t) /\ Len(t) \in Nat
  BY <1>1, <1>2
<1>4. /\ Append(t, x) \in Seq(Cmd) /\ DOMAIN Append(t, x) = 1..Len(t) + 1
      /\ \A i \in 1..Len(t) : Append(t, x)[i] = t[i]
      /\ Append(t, x)[Len(t) + 1] = x
  BY <1>2, AppendProperties
<1>5. r \in {t, Append(t, x)} /\ R \in [Nodes -> Seq(Cmd)] /\ \A m \in Nodes \ {n} : R[m] = Q[m]
  <2>1. CASE R = [Q EXCEPT ![n] = t]
    BY <1>2, <2>1
  <2>2. CASE R = [Q EXCEPT ![n] = Append(t, x)]
    BY <1>4, <2>2
  <2> QED
    BY <2>1, <2>2 DEF q, t
<1> HIDE DEF r
<1>6. /\ \A i \in DOMAIN r : (i \in 1..Len(t) /\ r[i] = t[i]) \/ r[i] = x
      /\ \A i \in 1..Len(t) : i \in DOMAIN r /\ r[i] = t[i]
  <2>1. CASE r = t
    BY <1>3, <2>1
  <2>2. CASE r = Append(t, x)
    BY <1>3, <1>4, <2>2
  <2> QED
    BY <1>5, <2>1, <2>2
<1>7. \A i \in DOMAIN r : (i + 1 \in DOMAIN q /\ r[i] = q[i + 1]) \/ r[i] = x
  BY <1>2, <1>3, <1>6
<1>8. ASSUME NEW i \in DOMAIN q, i # 1 PROVE i - 1 \in DOMAIN r /\ r[i - 1] = q[i]
  <2>1. i - 1 \in 1..Len(t) /\ (i - 1) + 1 = i
    BY <1>2, <1>3, <1>8
  <2> QED
    BY <1>2, <1>6, <2>1
<1> QED
  BY <1>5, <1>7, <1>8 DEF Shifted, q, r

\* The commands that the handlers send.
LEMMA SentCommands ==
  ASSUME Typed
  PROVE  /\ \A o \in {"register", "remove", "renew"}, cs \in SUBSET Conns :
              LET k == LeaseCommand(o, cs)
              IN k \in Cmd /\ k.op = o /\ k.conns = cs /\ k.at = now /\ k.sent = now
         /\ \A o \in {"count", "publish"}, at \in Nat, u \in Users \cup {"none"},
               st \in {"ONLINE", "OFFLINE", "none"} :
              LET k == EventCommand(o, at, u, st)
              IN k \in Cmd /\ k.op = o /\ k.at = at /\ k.sent = now
  BY DEF Typed, LeaseCommand, EventCommand, Cmd, Ops

\* The first command of a queue.
LEMMA FirstCommand ==
  ASSUME Typed, NEW n \in Nodes, commands[n] # <<>>
  PROVE  1 \in DOMAIN commands[n] /\ Head(commands[n]) = commands[n][1] /\ Head(commands[n]) \in Cmd
<1>1. commands[n] \in Seq(Cmd)
  BY DEF Typed
<1> QED
  BY <1>1

\* What a command that is executed or fails does to the queues: it is taken out,
\* and at most a count or a publication follows.
LEMMA CommandDone ==
  ASSUME Typed, QueuesOK, NEW n \in Nodes, Execute(n) \/ Fail(n)
  PROVE  \E x \in Cmd : /\ x.op \in {"count", "publish"} /\ x.at <= now /\ x.sent = now
                        /\ Shifted(commands, commands', n, x)
<1> DEFINE cmd == Head(commands[n])
<1>1. commands[n] # <<>>
  BY DEF Execute, Fail
<1>2. 1 \in DOMAIN commands[n] /\ cmd = commands[n][1] /\ cmd \in Cmd
  BY <1>1, FirstCommand
<1>3. cmd.at \in Nat /\ cmd.at <= now /\ cmd.user \in Users \cup {"none"}
      /\ cmd.status \in {"ONLINE", "OFFLINE", "none"} /\ cmd.op \in Ops /\ cmd.conns \in SUBSET Conns
  BY <1>2 DEF QueuesOK, CmdOK, Cmd
<1>4. CmdOK(cmd, now, phase, goneAt)
  BY <1>2 DEF QueuesOK
<1>5. commands \in [Nodes -> Seq(Cmd)] /\ now \in Nat
  BY DEF Typed
<1> HIDE DEF cmd
<1>6. ASSUME commands' = [commands EXCEPT ![n] = Tail(commands[n])]
      PROVE  \E x \in Cmd : /\ x.op \in {"count", "publish"} /\ x.at <= now /\ x.sent = now
                            /\ Shifted(commands, commands', n, x)
  <2> DEFINE x == EventCommand("publish", now, "none", "none")
  <2>1. x \in Cmd /\ x.op = "publish" /\ x.at = now /\ x.sent = now
    BY <1>5, SentCommands
  <2> HIDE DEF x
  <2>2. Shifted(commands, commands', n, x)
    BY <1>1, <1>5, <1>6, <2>1, TailIsShifted
  <2> QED
    BY <1>5, <2>1, <2>2
<1>7. ASSUME NEW o \in {"count", "publish"}, NEW at \in Nat, at <= now, NEW u \in Users \cup {"none"},
             NEW st \in {"ONLINE", "OFFLINE", "none"},
             commands' = [commands EXCEPT ![n] = Append(Tail(commands[n]), EventCommand(o, at, u, st))]
      PROVE  \E x \in Cmd : /\ x.op \in {"count", "publish"} /\ x.at <= now /\ x.sent = now
                            /\ Shifted(commands, commands', n, x)
  <2> DEFINE x == EventCommand(o, at, u, st)
  <2>1. x \in Cmd /\ x.op = o /\ x.at = at /\ x.sent = now
    BY <1>7, SentCommands
  <2>2. commands' = [commands EXCEPT ![n] = Append(Tail(commands[n]), x)]
    BY <1>7
  <2> HIDE DEF x
  <2>3. Shifted(commands, commands', n, x)
    BY <1>1, <1>5, <2>1, <2>2, TailIsShifted
  <2> QED
    BY <1>7, <2>1, <2>3
<1>8. ASSUME Counted(n, cmd)
      PROVE  \E x \in Cmd : /\ x.op \in {"count", "publish"} /\ x.at <= now /\ x.sent = now
                            /\ Shifted(commands, commands', n, x)
  <2>1. CASE cmd.status = "none"
    BY <1>6, <1>8, <2>1 DEF Counted
  <2>2. CASE cmd.status # "none"
    <3>1. commands' = [commands EXCEPT ![n] =
                         Append(Tail(commands[n]), EventCommand("publish", now, cmd.user, cmd.status))]
      BY <1>8, <2>2 DEF Counted
    <3>2. now <= now
      BY <1>5
    <3> QED
      BY <1>3, <1>5, <1>7, <3>1, <3>2
  <2> QED
    BY <2>1, <2>2
<1>9. ASSUME cmd.op \in {"register", "remove"}, NEW transition, NEW st \in {"ONLINE", "OFFLINE"},
             Reply(n, cmd, UserOf[ConnOf(cmd)], transition, st)
      PROVE  \E x \in Cmd : /\ x.op \in {"count", "publish"} /\ x.at <= now /\ x.sent = now
                            /\ Shifted(commands, commands', n, x)
  <2>1. \E c \in Conns : cmd.conns = {c}
    BY <1>4, <1>9 DEF CmdOK
  <2>2. ConnOf(cmd) \in Conns
    BY <2>1 DEF ConnOf
  <2>3. UserOf[ConnOf(cmd)] \in Users
    BY <2>2, Constants
  <2> DEFINE e == IF transition THEN st ELSE "none"
  <2>4. e \in {"ONLINE", "OFFLINE", "none"}
    OBVIOUS
  <2>5. commands' = [commands EXCEPT ![n] =
                       Append(Tail(commands[n]), EventCommand("count", cmd.at, UserOf[ConnOf(cmd)], e))]
    BY <1>9 DEF Reply
  <2> HIDE DEF e
  <2> QED
    BY <1>3, <1>7, <2>3, <2>4, <2>5
<1>10. CASE Execute(n)
  <2>1. CASE cmd.op = "register" /\ Register(n, cmd)
    BY <1>9, <2>1 DEF Register
  <2>2. CASE cmd.op = "remove" /\ Remove(n, cmd)
    BY <1>9, <2>2 DEF Remove
  <2>3. CASE Renew(n, cmd) \/ Publish(n, cmd)
    BY <1>6, <2>3 DEF Renew, Publish
  <2>4. CASE Count(n, cmd)
    BY <1>8, <2>4 DEF Count
  <2> QED
    BY <1>10, <2>1, <2>2, <2>3, <2>4 DEF Execute, cmd
<1>11. CASE Fail(n)
  BY <1>6, <1>8, <1>11 DEF Fail, cmd
<1> QED
  BY <1>10, <1>11

\* What an executed command k does to the lease of c, which was old and is new.
LeaseBy(k, c, old, new) ==
  IF k.op \in {"register", "renew"} /\ c \in k.conns
    THEN new = k.at + Ttl
    ELSE new = old \/ (new = 0 /\ (old <= k.at \/ (k.op = "remove" /\ c \in k.conns)))

LEMMA PrunedLeases ==
  ASSUME Typed, NEW u, NEW at \in Nat
  PROVE  /\ Pruned(u, at) \in [Conns -> Nat]
         /\ \A c \in Conns : \/ Pruned(u, at)[c] = lease[c]
                             \/ Pruned(u, at)[c] = 0 /\ lease[c] <= at
<1>1. \A c \in Conns : lease[c] \in Nat /\ (lease[c] > at \/ lease[c] <= at)
  BY DEF Typed
<1>2. ASSUME NEW c \in Conns
      PROVE  \/ Pruned(u, at)[c] = lease[c]
             \/ Pruned(u, at)[c] = 0 /\ lease[c] <= at
  BY <1>1 DEF Pruned, Unexpired
<1>3. Pruned(u, at) \in [Conns -> Nat]
  BY <1>1 DEF Pruned
<1> QED
  BY <1>2, <1>3

LEMMA LeaseChange ==
  ASSUME Typed, QueuesOK, NEW n \in Nodes, Execute(n)
  PROVE  /\ lease' \in [Conns -> Nat]
         /\ \A c \in Conns : LeaseBy(commands[n][1], c, lease[c], lease'[c])
<1> DEFINE k == Head(commands[n])
<1>1. commands[n] # <<>>
  BY DEF Execute
<1>2. 1 \in DOMAIN commands[n] /\ k = commands[n][1] /\ k \in Cmd
  BY <1>1, FirstCommand
<1>3. CmdOK(k, now, phase, goneAt) /\ k.at \in Nat /\ k.conns \subseteq Conns
  BY <1>2 DEF QueuesOK, Cmd
<1>4. lease \in [Conns -> Nat]
  BY DEF Typed
<1>5. \/ k.op = "register" /\ Register(n, k)
      \/ k.op = "remove" /\ Remove(n, k)
      \/ k.op = "renew" /\ Renew(n, k)
      \/ k.op = "count" /\ Count(n, k)
      \/ k.op = "publish" /\ Publish(n, k)
  BY DEF Execute
<1> SUFFICES lease' \in [Conns -> Nat] /\ \A c \in Conns : LeaseBy(k, c, lease[c], lease'[c])
  BY <1>2
<1> HIDE DEF k
<1>6. k.at + Ttl \in Nat
  BY <1>3, Constants
<1>7. ASSUME NEW P \in [Conns -> Nat], \A d \in Conns : P[d] = lease[d] \/ (P[d] = 0 /\ lease[d] <= k.at),
             NEW c \in Conns, k.conns = {c},
             \/ k.op = "register" /\ lease' = [P EXCEPT ![c] = k.at + Ttl]
             \/ k.op = "remove" /\ lease' = [P EXCEPT ![c] = 0]
      PROVE  lease' \in [Conns -> Nat] /\ \A d \in Conns : LeaseBy(k, d, lease[d], lease'[d])
  <2>1. lease' \in [Conns -> Nat]
    BY <1>6, <1>7
  <2>2. ASSUME NEW d \in Conns, d # c PROVE LeaseBy(k, d, lease[d], lease'[d])
    <3>1. lease'[d] = P[d] /\ d \notin k.conns
      BY <1>7, <2>2
    <3> QED
      BY <1>7, <3>1 DEF LeaseBy
  <2>3. LeaseBy(k, c, lease[c], lease'[c])
    BY <1>7 DEF LeaseBy
  <2> QED
    BY <2>1, <2>2, <2>3
<1>8. CASE k.op \in {"register", "remove"} /\ (Register(n, k) \/ Remove(n, k))
  <2>1. PICK c \in Conns : k.conns = {c}
    BY <1>3, <1>8 DEF CmdOK
  <2>2. ConnOf(k) = c
    BY <2>1 DEF ConnOf
  <2>3. /\ Pruned(UserOf[c], k.at) \in [Conns -> Nat]
        /\ \A d \in Conns : \/ Pruned(UserOf[c], k.at)[d] = lease[d]
                            \/ Pruned(UserOf[c], k.at)[d] = 0 /\ lease[d] <= k.at
    BY <1>3, PrunedLeases
  <2>4. \/ k.op = "register" /\ lease' = [Pruned(UserOf[c], k.at) EXCEPT ![c] = k.at + Ttl]
        \/ k.op = "remove" /\ lease' = [Pruned(UserOf[c], k.at) EXCEPT ![c] = 0]
    BY <1>5, <1>8, <2>2 DEF Register, Remove
  <2> QED
    BY <1>7, <2>1, <2>3, <2>4
<1>9. CASE k.op = "renew" /\ Renew(n, k)
  <2>1. lease' = [c \in Conns |-> IF c \in k.conns THEN k.at + Ttl ELSE lease[c]]
    BY <1>9 DEF Renew
  <2>2. lease' \in [Conns -> Nat]
    BY <1>4, <1>6, <2>1
  <2>3. ASSUME NEW c \in Conns PROVE LeaseBy(k, c, lease[c], lease'[c])
    BY <1>9, <2>1 DEF LeaseBy
  <2> QED
    BY <2>2, <2>3
<1>10. CASE k.op = "count" /\ Count(n, k)
  <2>1. lease' = Pruned(k.user, k.at)
    BY <1>10 DEF Count
  <2>2. /\ lease' \in [Conns -> Nat]
        /\ \A c \in Conns : lease'[c] = lease[c] \/ (lease'[c] = 0 /\ lease[c] <= k.at)
    BY <1>3, <2>1, PrunedLeases
  <2> QED
    BY <1>10, <2>2 DEF LeaseBy
<1>11. CASE k.op = "publish" /\ Publish(n, k)
  <2>1. lease' = lease
    BY <1>11 DEF Publish
  <2> QED
    BY <1>4, <1>11, <2>1 DEF LeaseBy
<1> QED
  BY <1>5, <1>8, <1>9, <1>10, <1>11

-----------------------------------------------------------------------------
(***************************************************************************)
(* No lease outlives its connection by more than Ttl                       *)
(***************************************************************************)

\* Commands stay as they should be while time passes, and when a connection that
\* was not gone goes now or opens.
LEMMA StillOK ==
  ASSUME NEW k \in Cmd, NEW t \in Nat, NEW t2 \in Nat, t <= t2,
         NEW ph, NEW ph2, NEW ga, NEW ga2, CmdOK(k, t, ph, ga),
         \A c \in Conns : \/ ph2[c] # "gone"
                          \/ ph[c] = "gone" /\ ga2[c] = ga[c]
                          \/ ga2[c] = t
  PROVE  CmdOK(k, t2, ph2, ga2)
<1>1. k.at \in Nat /\ k.conns \subseteq Conns
  BY DEF Cmd
<1>2. k.at <= t /\ k.at <= t2
  BY <1>1 DEF CmdOK
<1>3. ASSUME k.op \in {"register", "renew"}, NEW c \in k.conns, ph2[c] = "gone" PROVE k.at <= ga2[c]
  BY <1>1, <1>2, <1>3 DEF CmdOK
<1> QED
  BY <1>2, <1>3 DEF CmdOK

\* A step after which every waiting command is an old one or in order.
LEMMA QueuesStep ==
  ASSUME GhostInv, NEW n \in Nodes,
         commands' \in [Nodes -> Seq(Cmd)], \A m \in Nodes \ {n} : commands'[m] = commands[m],
         \A i \in DOMAIN commands'[n] :
           \/ \E j \in DOMAIN commands[n] : commands'[n][i] = commands[n][j]
           \/ CmdOK(commands'[n][i], now', phase', goneAt'),
         now' \in Nat, now <= now',
         \A c \in Conns : \/ phase'[c] # "gone"
                          \/ phase[c] = "gone" /\ goneAt'[c] = goneAt[c]
                          \/ goneAt'[c] = now
  PROVE  QueuesOK'
<1>1. now \in Nat /\ commands \in [Nodes -> Seq(Cmd)]
  BY DEF GhostInv, Typed
<1>2. ASSUME NEW m \in Nodes, NEW j \in DOMAIN commands[m]
      PROVE  CmdOK(commands[m][j], now', phase', goneAt')
  <2> DEFINE k == commands[m][j]
  <2>1. k \in Cmd
    BY <1>1
  <2>2. CmdOK(k, now, phase, goneAt)
    BY DEF GhostInv, QueuesOK
  <2> HIDE DEF k
  <2>3. CmdOK(k, now', phase', goneAt')
    BY <1>1, <2>1, <2>2, StillOK
  <2> QED
    BY <2>3 DEF k
<1>3. ASSUME NEW m \in Nodes, NEW i \in DOMAIN commands'[m]
      PROVE  CmdOK(commands'[m][i], now', phase', goneAt')
  <2>1. CASE m = n
    BY <1>2, <2>1
  <2>2. CASE m # n
    BY <1>2, <2>2
  <2> QED
    BY <2>1, <2>2
<1> QED
  BY <1>3 DEF QueuesOK

LEMMA GhostInitially == Init => GhostInv
<1> SUFFICES ASSUME Init PROVE GhostInv
  OBVIOUS
<1>1. Typed
  BY Constants DEF Init, Typed
<1>2. \A n \in Nodes : DOMAIN commands[n] = {}
  BY DEF Init
<1>3. LeasesOK
  BY Constants DEF Init, LeasesOK
<1> QED
  BY <1>1, <1>2, <1>3 DEF GhostInv, QueuesOK

\* A step that changes no lease and at most lets connections go.
LEMMA LeasesStep ==
  ASSUME Typed, LeasesOK, lease' = lease, now' = now \/ now' = now + 1,
         \A c \in Conns : \/ phase'[c] # "gone"
                          \/ phase[c] = "gone" /\ goneAt'[c] = goneAt[c]
                          \/ goneAt'[c] = now
  PROVE  LeasesOK'
<1> SUFFICES ASSUME NEW c \in Conns
             PROVE  lease[c] <= now' + Ttl /\ (phase'[c] = "gone" => lease[c] <= goneAt'[c] + Ttl)
  BY DEF LeasesOK
<1>1. lease[c] \in Nat /\ now \in Nat /\ goneAt[c] \in Nat /\ Ttl \in Nat
  BY Constants DEF Typed
<1>2. lease[c] <= now + Ttl /\ (phase[c] = "gone" => lease[c] <= goneAt[c] + Ttl)
  BY DEF LeasesOK
<1> QED
  BY <1>1, <1>2

\* A step that sends at most one command, x.
LEMMA SendStep ==
  ASSUME GhostInv, NEW n \in Nodes, NEW x \in Cmd,
         commands' = commands \/ Appended(commands, commands', n, x),
         CmdOK(x, now', phase', goneAt'), lease' = lease, now' = now,
         \A c \in Conns : \/ phase'[c] # "gone"
                          \/ phase[c] = "gone" /\ goneAt'[c] = goneAt[c]
                          \/ goneAt'[c] = now
  PROVE  commands' \in [Nodes -> Seq(Cmd)] /\ QueuesOK' /\ LeasesOK'
<1>1. now \in Nat /\ commands \in [Nodes -> Seq(Cmd)] /\ Typed
  BY DEF GhostInv, Typed
<1>2. /\ commands' \in [Nodes -> Seq(Cmd)]
      /\ \A m \in Nodes \ {n} : commands'[m] = commands[m]
      /\ \A i \in DOMAIN commands'[n] : \/ \E j \in DOMAIN commands[n] : commands'[n][i] = commands[n][j]
                                        \/ commands'[n][i] = x
  <2>1. CASE commands' = commands
    BY <1>1, <2>1
  <2>2. CASE Appended(commands, commands', n, x)
    BY <2>2 DEF Appended
  <2> QED
    BY <2>1, <2>2
<1>3. now' \in Nat /\ now <= now'
  BY <1>1
<1>4. QueuesOK'
  BY <1>2, <1>3, QueuesStep
<1>5. LeasesOK'
  BY <1>1, LeasesStep DEF GhostInv
<1> QED
  BY <1>2, <1>4, <1>5

LEMMA GhostStep == GhostInv /\ [Next]_vars => GhostInv'
<1> SUFFICES ASSUME GhostInv, [Next]_vars PROVE GhostInv'
  OBVIOUS
<1>1. /\ now \in Nat /\ up \subseteq Nodes
      /\ phase \in [Conns -> {"new", "open", "gone"}]
      /\ lease \in [Conns -> Nat] /\ commands \in [Nodes -> Seq(Cmd)]
      /\ nextFlush \in [Nodes -> Nat] /\ resync \in [Nodes -> SUBSET Conns]
      /\ goneAt \in [Conns -> Nat] /\ Typed
  BY DEF GhostInv, Typed
<1>2. QueuesOK /\ LeasesOK
  BY DEF GhostInv
<1>3. CASE Tick
  <2>1. /\ now' = now + 1 /\ up' = up /\ phase' = phase /\ lease' = lease /\ commands' = commands
        /\ nextFlush' = nextFlush /\ resync' = resync /\ goneAt' = goneAt
    BY <1>3 DEF Tick, redis
  <2>2. Typed'
    BY <1>1, <2>1 DEF Typed
  <2>3. LeasesOK'
    BY <1>1, <1>2, <2>1, LeasesStep
  <2>4. now' \in Nat /\ now <= now'
    BY <1>1, <2>1
  <2>5. ASSUME NEW m \in Nodes, NEW j \in DOMAIN commands[m]
        PROVE  CmdOK(commands[m][j], now', phase, goneAt)
    <3>1. commands[m][j] \in Cmd
      BY <1>1
    <3>2. CmdOK(commands[m][j], now, phase, goneAt)
      BY <1>2 DEF QueuesOK
    <3> QED
      BY <1>1, <2>4, <3>1, <3>2, StillOK
  <2>6. QueuesOK'
    BY <2>1, <2>5 DEF QueuesOK
  <2> QED
    BY <2>2, <2>3, <2>6 DEF GhostInv
<1>4. ASSUME NEW c \in Conns, Connect(c) PROVE GhostInv'
  <2> DEFINE x == LeaseCommand("register", {c})
  <2>1. x \in Cmd /\ x.op = "register" /\ x.conns = {c} /\ x.at = now
    BY <1>1, SentCommands
  <2>2. /\ now' = now /\ up' = up /\ lease' = lease /\ nextFlush' = nextFlush
        /\ resync' = resync /\ goneAt' = goneAt
        /\ phase' = [phase EXCEPT ![c] = "open"]
        /\ commands' = [commands EXCEPT ![NodeOf[c]] = Append(commands[NodeOf[c]], x)]
    BY <1>4 DEF Connect, Send, redis
  <2> HIDE DEF x
  <2>3. NodeOf[c] \in Nodes
    BY Constants
  <2>4. Appended(commands, commands', NodeOf[c], x)
    BY <1>1, <2>1, <2>2, <2>3, AppendIsAppended
  <2>5. phase'[c] = "open" /\ phase' \in [Conns -> {"new", "open", "gone"}]
        /\ \A d \in Conns : phase'[d] = "gone" => phase[d] = "gone"
    BY <1>1, <2>2
  <2>6. CmdOK(x, now', phase', goneAt')
    BY <1>1, <2>1, <2>2, <2>5 DEF CmdOK
  <2>7. commands' \in [Nodes -> Seq(Cmd)] /\ QueuesOK' /\ LeasesOK'
    BY <2>1, <2>2, <2>3, <2>4, <2>5, <2>6, SendStep
  <2>8. Typed'
    BY <1>1, <2>2, <2>5, <2>7 DEF Typed
  <2> QED
    BY <2>7, <2>8 DEF GhostInv
<1>5. ASSUME NEW c \in Conns, Close(c) PROVE GhostInv'
  <2> DEFINE x == LeaseCommand("remove", {c})
  <2>1. x \in Cmd /\ x.op = "remove" /\ x.conns = {c} /\ x.at = now
    BY <1>1, SentCommands
  <2>2. /\ now' = now /\ up' = up /\ lease' = lease /\ nextFlush' = nextFlush
        /\ resync' = resync /\ goneAt' = [goneAt EXCEPT ![c] = now]
        /\ phase' = [phase EXCEPT ![c] = "gone"]
        /\ commands' = [commands EXCEPT ![NodeOf[c]] = Append(commands[NodeOf[c]], x)]
    BY <1>5 DEF Close, Send, redis
  <2> HIDE DEF x
  <2>3. NodeOf[c] \in Nodes
    BY Constants
  <2>4. Appended(commands, commands', NodeOf[c], x)
    BY <1>1, <2>1, <2>2, <2>3, AppendIsAppended
  <2>5. /\ phase' \in [Conns -> {"new", "open", "gone"}] /\ goneAt' \in [Conns -> Nat]
        /\ \A d \in Conns : \/ phase'[d] # "gone"
                            \/ phase[d] = "gone" /\ goneAt'[d] = goneAt[d]
                            \/ goneAt'[d] = now
    BY <1>1, <2>2
  <2>6. CmdOK(x, now', phase', goneAt')
    BY <1>1, <2>1, <2>2 DEF CmdOK
  <2>7. commands' \in [Nodes -> Seq(Cmd)] /\ QueuesOK' /\ LeasesOK'
    BY <2>1, <2>2, <2>3, <2>4, <2>5, <2>6, SendStep
  <2>8. Typed'
    BY <1>1, <2>2, <2>5, <2>7 DEF Typed
  <2> QED
    BY <2>7, <2>8 DEF GhostInv
<1>6. ASSUME NEW c \in Conns, ResyncOne(c) PROVE GhostInv'
  <2> DEFINE x == LeaseCommand("register", {c})
  <2>1. x \in Cmd /\ x.op = "register" /\ x.conns = {c} /\ x.at = now
    BY <1>1, SentCommands
  <2>2. /\ now' = now /\ up' = up /\ lease' = lease /\ nextFlush' = nextFlush
        /\ phase' = phase /\ goneAt' = goneAt
        /\ resync' = [resync EXCEPT ![NodeOf[c]] = resync[NodeOf[c]] \ {c}]
    BY <1>6 DEF ResyncOne, redis
  <2>3. \/ phase[c] = "open"
           /\ commands' = [commands EXCEPT ![NodeOf[c]] = Append(commands[NodeOf[c]], x)]
        \/ commands' = commands
    BY <1>6 DEF ResyncOne, Send
  <2> HIDE DEF x
  <2>4. NodeOf[c] \in Nodes
    BY Constants
  <2>5. resync' \in [Nodes -> SUBSET Conns]
    BY <1>1, <2>2, <2>4
  <2>6. CASE phase[c] = "open"
             /\ commands' = [commands EXCEPT ![NodeOf[c]] = Append(commands[NodeOf[c]], x)]
    <3>1. Appended(commands, commands', NodeOf[c], x)
      BY <1>1, <2>1, <2>4, <2>6, AppendIsAppended
    <3>2. CmdOK(x, now', phase', goneAt')
      BY <1>1, <2>1, <2>2, <2>6 DEF CmdOK
    <3>3. commands' \in [Nodes -> Seq(Cmd)] /\ QueuesOK' /\ LeasesOK'
      BY <2>1, <2>2, <2>4, <3>1, <3>2, SendStep
    <3>4. Typed'
      BY <1>1, <2>2, <2>5, <3>3 DEF Typed
    <3> QED
      BY <3>3, <3>4 DEF GhostInv
  <2>7. CASE commands' = commands
    BY <1>1, <1>2, <2>2, <2>5, <2>7 DEF GhostInv, Typed, QueuesOK, LeasesOK
  <2> QED
    BY <2>3, <2>6, <2>7
<1>7. ASSUME NEW n \in Nodes, Crash(n) PROVE GhostInv'
  <2>1. /\ now' = now /\ up' = up \ {n} /\ lease' = lease /\ nextFlush' = nextFlush
        /\ phase' = [c \in Conns |-> IF c \in Alive(n) THEN "gone" ELSE phase[c]]
        /\ goneAt' = [c \in Conns |-> IF c \in Alive(n) THEN now ELSE goneAt[c]]
        /\ commands' = [commands EXCEPT ![n] = <<>>]
        /\ resync' = [resync EXCEPT ![n] = {}]
    BY <1>7 DEF Crash, redis
  <2>2. /\ phase' \in [Conns -> {"new", "open", "gone"}] /\ goneAt' \in [Conns -> Nat]
        /\ \A d \in Conns : \/ phase'[d] # "gone"
                            \/ phase[d] = "gone" /\ goneAt'[d] = goneAt[d]
                            \/ goneAt'[d] = now
    BY <1>1, <2>1
  <2>3. /\ commands' \in [Nodes -> Seq(Cmd)] /\ commands'[n] = <<>>
        /\ \A m \in Nodes \ {n} : commands'[m] = commands[m]
    BY <1>1, <2>1
  <2>4. DOMAIN commands'[n] = {} /\ now' \in Nat /\ now <= now'
    BY <1>1, <2>1, <2>3
  <2>5. QueuesOK'
    BY <2>2, <2>3, <2>4, QueuesStep
  <2>6. LeasesOK'
    BY <1>1, <1>2, <2>1, <2>2, LeasesStep
  <2>7. resync' \in [Nodes -> SUBSET Conns]
    BY <1>1, <2>1
  <2>8. Typed'
    BY <1>1, <2>1, <2>2, <2>3, <2>7 DEF Typed
  <2> QED
    BY <2>5, <2>6, <2>8 DEF GhostInv
<1>8. ASSUME NEW n \in Nodes, Flush(n) PROVE GhostInv'
  <2> DEFINE x == LeaseCommand("renew", Renewed(n))
  <2>1. Renewed(n) \subseteq Conns /\ \A c \in Renewed(n) : phase[c] = "open"
    BY DEF Renewed, Alive
  <2>2. x \in Cmd /\ x.op = "renew" /\ x.conns = Renewed(n) /\ x.at = now
    BY <1>1, <2>1, SentCommands
  <2>3. /\ now' = now /\ up' = up /\ lease' = lease /\ resync' = resync
        /\ phase' = phase /\ goneAt' = goneAt
        /\ nextFlush' = [nextFlush EXCEPT ![n] = now + FlushInterval]
    BY <1>8 DEF Flush, redis
  <2>4. \/ commands' = [commands EXCEPT ![n] = Append(commands[n], x)]
        \/ commands' = commands
    BY <1>8 DEF Flush, Send
  <2> HIDE DEF x
  <2>5. commands' = commands \/ Appended(commands, commands', n, x)
    BY <1>1, <2>2, <2>4, AppendIsAppended
  <2>6. CmdOK(x, now', phase', goneAt')
    BY <1>1, <2>1, <2>2, <2>3 DEF CmdOK
  <2>7. commands' \in [Nodes -> Seq(Cmd)] /\ QueuesOK' /\ LeasesOK'
    BY <2>2, <2>3, <2>5, <2>6, SendStep
  <2>8. now + FlushInterval \in Nat
    BY <1>1, Constants
  <2>9. Typed'
    BY <1>1, <2>3, <2>7, <2>8 DEF Typed
  <2> QED
    BY <2>7, <2>9 DEF GhostInv
<1>9. ASSUME NEW n \in Nodes, RedisReconnect(n) PROVE GhostInv'
  <2>1. Alive(n) \subseteq Conns
    BY DEF Alive
  <2>2. /\ now' = now /\ up' = up /\ lease' = lease /\ nextFlush' = nextFlush
        /\ phase' = phase /\ goneAt' = goneAt /\ commands' = commands
        /\ resync' = [resync EXCEPT ![n] = Alive(n)]
    BY <1>9 DEF RedisReconnect, redis
  <2>3. resync' \in [Nodes -> SUBSET Conns]
    BY <1>1, <2>1, <2>2
  <2> QED
    BY <1>1, <1>2, <2>2, <2>3 DEF GhostInv, Typed, QueuesOK, LeasesOK
<1>10. ASSUME NEW n \in Nodes, Execute(n) \/ Fail(n) PROVE GhostInv'
  <2>1. /\ now' = now /\ up' = up /\ nextFlush' = nextFlush
        /\ phase' = phase /\ goneAt' = goneAt /\ resync' = resync
    BY <1>10 DEF Execute, Fail
  <2>2. PICK x \in Cmd : /\ x.op \in {"count", "publish"} /\ x.at <= now
                         /\ Shifted(commands, commands', n, x)
    BY <1>1, <1>2, <1>10, CommandDone
  <2>3. CmdOK(x, now', phase', goneAt')
    BY <2>1, <2>2 DEF CmdOK
  <2>4. /\ commands' \in [Nodes -> Seq(Cmd)]
        /\ \A m \in Nodes \ {n} : commands'[m] = commands[m]
        /\ \A i \in DOMAIN commands'[n] :
             \/ \E j \in DOMAIN commands[n] : commands'[n][i] = commands[n][j]
             \/ CmdOK(commands'[n][i], now', phase', goneAt')
    BY <2>2, <2>3 DEF Shifted
  <2>5. now' \in Nat /\ now <= now'
    BY <1>1, <2>1
  <2>6. QueuesOK'
    BY <2>1, <2>4, <2>5, QueuesStep
  <2>7. lease' \in [Conns -> Nat] /\ LeasesOK'
    <3>1. CASE Execute(n)
      <4>1. lease' \in [Conns -> Nat] /\ \A c \in Conns : LeaseBy(commands[n][1], c, lease[c], lease'[c])
        BY <1>1, <1>2, <3>1, LeaseChange
      <4>2. commands[n] # <<>>
        BY <3>1 DEF Execute
      <4>3. 1 \in DOMAIN commands[n] /\ commands[n][1] \in Cmd
        BY <1>1, <4>2, FirstCommand
      <4> DEFINE k == commands[n][1]
      <4>4. CmdOK(k, now, phase, goneAt) /\ k.at \in Nat
        BY <1>2, <4>3 DEF QueuesOK, Cmd
      <4> HIDE DEF k
      <4>5. ASSUME NEW c \in Conns
            PROVE  lease'[c] <= now + Ttl /\ (phase[c] = "gone" => lease'[c] <= goneAt[c] + Ttl)
        <5>1. lease[c] \in Nat /\ goneAt[c] \in Nat /\ Ttl \in Nat
          BY <1>1, Constants
        <5>2. lease[c] <= now + Ttl /\ (phase[c] = "gone" => lease[c] <= goneAt[c] + Ttl)
          BY <1>2 DEF LeasesOK
        <5>3. LeaseBy(k, c, lease[c], lease'[c])
          BY <4>1 DEF k
        <5>4. CASE k.op \in {"register", "renew"} /\ c \in k.conns
          <6>1. lease'[c] = k.at + Ttl
            BY <5>3, <5>4 DEF LeaseBy
          <6>2. k.at <= now /\ (phase[c] = "gone" => k.at <= goneAt[c])
            BY <4>4, <5>4 DEF CmdOK
          <6> QED
            BY <1>1, <4>4, <5>1, <6>1, <6>2
        <5>5. CASE ~(k.op \in {"register", "renew"} /\ c \in k.conns)
          <6>1. lease'[c] = lease[c] \/ lease'[c] = 0
            BY <5>3, <5>5 DEF LeaseBy
          <6> QED
            BY <1>1, <5>1, <5>2, <6>1
        <5> QED
          BY <5>4, <5>5
      <4> QED
        BY <2>1, <4>1, <4>5 DEF LeasesOK
    <3>2. CASE Fail(n)
      <4>1. lease' = lease
        BY <3>2 DEF Fail, redis
      <4> QED
        BY <1>1, <1>2, <2>1, <4>1 DEF LeasesOK
    <3> QED
      BY <1>10, <3>1, <3>2
  <2>8. Typed'
    BY <1>1, <2>1, <2>4, <2>7 DEF Typed
  <2> QED
    BY <2>6, <2>7, <2>8 DEF GhostInv
<1>11. CASE UNCHANGED vars
  BY <1>1, <1>2, <1>11 DEF vars, redis, GhostInv, Typed, QueuesOK, LeasesOK
<1> QED
  BY <1>3, <1>4, <1>5, <1>6, <1>7, <1>8, <1>9, <1>10, <1>11 DEF Next

\* However commands are delayed, fail or are repeated, and whether a connection
\* closes or its node crashes, its lease in Redis ends at most Ttl after it went,
\* for every Ttl and flush interval.
THEOREM GhostsAlwaysExpire == Spec => []GhostsExpire
<1>1. GhostInv => GhostsExpire
  BY DEF GhostInv, LeasesOK, GhostsExpire
<1> QED
  BY <1>1, GhostInitially, GhostStep, PTL DEF Spec

-----------------------------------------------------------------------------
(***************************************************************************)
(* No renewal is late                                                      *)
(***************************************************************************)

\* A command is executed before the next flush, and a lease outlasts the next
\* flush and the delay of its renewal.
InTime == MaxDelay < FlushInterval /\ FlushInterval + MaxDelay < Ttl

LEMMA LeaseInitially == Init => LeaseInv
<1> SUFFICES ASSUME Init PROVE LeaseInv
  OBVIOUS
<1>1. \A n \in Nodes : DOMAIN commands[n] = {}
  BY DEF Init
<1>2. \A c \in Conns : phase[c] # "open"
  BY DEF Init
<1>3. TimersOK
  BY <1>2, Constants DEF Init, TimersOK
<1>4. RegistrationsFollowed /\ QueuesTimely
  BY <1>1, Constants DEF RegistrationsFollowed, QueuesTimely
<1> QED
  BY <1>2, <1>3, <1>4 DEF LeaseInv, Init

LEMMA WaitingCommands ==
  ASSUME Typed, NEW n \in Nodes, NEW i \in DOMAIN commands[n]
  PROVE  /\ commands[n][i] \in Cmd /\ commands[n][i].at \in Nat /\ commands[n][i].sent \in Nat
         /\ commands[n][i].conns \subseteq Conns
<1>1. commands[n][i] \in Cmd
  BY DEF Typed
<1> QED
  BY <1>1 DEF Cmd

LEMMA LeaseImplied == GhostInv /\ LeaseInv => LeaseWhileOpen
<1> SUFFICES ASSUME GhostInv, LeaseInv, failures = 0, NEW c \in Conns, phase[c] = "open"
             PROVE  Registering(c) \/ lease[c] > now
  BY DEF LeaseWhileOpen
<1> DEFINE n == NodeOf[c]
           q == commands[n]
<1>1. n \in Nodes /\ n \in up /\ now <= nextFlush[n]
  BY Constants DEF LeaseInv, TimersOK
<1>2. /\ now \in Nat /\ lease[c] \in Nat /\ nextFlush[n] \in Nat /\ MaxDelay \in Nat
      /\ \A i \in DOMAIN q : q[i].sent \in Nat
  <2>1. Typed
    BY DEF GhostInv
  <2>2. \A i \in DOMAIN q : q[i].sent \in Nat
    BY <1>1, <2>1, WaitingCommands
  <2> QED
    BY <1>1, <2>1, <2>2, Constants DEF Typed
<1>3. \A i \in DOMAIN q : now <= q[i].sent + MaxDelay
  BY <1>1 DEF LeaseInv, QueuesTimely, CmdTimely
<1>4. Covered(c)
  BY DEF LeaseInv
<1>5. CASE \E i \in DOMAIN q : Sets(q[i], "register", c)
  BY <1>5 DEF Registering, Sets
<1>6. CASE \E i \in DOMAIN q : Sets(q[i], "renew", c) /\ lease[c] > q[i].sent + MaxDelay
  <2>1. PICK i \in DOMAIN q : lease[c] > q[i].sent + MaxDelay
    BY <1>6
  <2> QED
    BY <1>2, <1>3, <2>1
<1>7. CASE lease[c] > nextFlush[n] + MaxDelay
  BY <1>1, <1>2, <1>7
<1> QED
  BY <1>4, <1>5, <1>6, <1>7 DEF Covered

\* The timing of a command stays right while no time passes, no connection comes
\* back, and the timer of its node is set anew only when it is no renewal.
LEMMA StillTimely ==
  ASSUME NEW n, NEW k \in Cmd, NEW t, NEW ph, NEW ph2, NEW nf, NEW nf2,
         CmdTimely(n, k, t, ph, nf),
         \A c \in Conns : /\ ph[c] # "new" => ph2[c] # "new"
                          /\ ph[c] = "gone" => ph2[c] = "gone",
         nf2[n] = nf[n] \/ k.op # "renew"
  PROVE  CmdTimely(n, k, t, ph2, nf2)
<1>1. k.conns \subseteq Conns
  BY DEF Cmd
<1> QED
  BY <1>1 DEF CmdTimely

\* Two steps that keep what Covered and RegistrationsFollowed say of c: its
\* commands stay in its queue in the same order, its lease and timer stay.
LEMMA CoverKept ==
  ASSUME NEW c \in Conns, Covered(c), NEW n \in Nodes, n = NodeOf[c],
         lease'[c] = lease[c], nextFlush'[n] = nextFlush[n],
         \A i \in DOMAIN commands[n] :
           i \in DOMAIN commands'[n] /\ commands'[n][i] = commands[n][i]
  PROVE  Covered(c)'
<1>1. CASE \E i \in DOMAIN commands[n] : Sets(commands[n][i], "register", c)
  <2>1. \E i \in DOMAIN commands'[n] : Sets(commands'[n][i], "register", c)
    BY <1>1
  <2> QED
    BY <2>1 DEF Covered, Sets
<1>2. CASE \E i \in DOMAIN commands[n] : /\ Sets(commands[n][i], "renew", c)
                                         /\ lease[c] > commands[n][i].sent + MaxDelay
  <2>1. \E i \in DOMAIN commands'[n] : /\ Sets(commands'[n][i], "renew", c)
                                       /\ lease'[c] > commands'[n][i].sent + MaxDelay
    BY <1>2
  <2> QED
    BY <2>1 DEF Covered, Sets
<1>3. CASE lease[c] > nextFlush[n] + MaxDelay
  BY <1>3 DEF Covered
<1> QED
  BY <1>1, <1>2, <1>3 DEF Covered

\* RegistrationsFollowed, for the queue q of one connection and its timer.
Followed(c, q, t) ==
  \A i \in DOMAIN q :
    Sets(q[i], "register", c) =>
      \/ t <= q[i].at + FlushInterval
      \/ \E j \in DOMAIN q : /\ i < j /\ Sets(q[j], "renew", c)
                             /\ q[j].sent <= q[i].at + FlushInterval

LEMMA FollowedEach ==
  RegistrationsFollowed <=>
    \A c \in Conns : phase[c] = "open" => Followed(c, commands[NodeOf[c]], nextFlush[NodeOf[c]])
  BY DEF RegistrationsFollowed, Followed

LEMMA FollowedEachNext ==
  RegistrationsFollowed' <=>
    \A c \in Conns : phase'[c] = "open" => Followed(c, commands'[NodeOf[c]], nextFlush'[NodeOf[c]])
  BY DEF RegistrationsFollowed, Followed, Sets

\* A command at the end of the queue leaves the registrations before it followed.
LEMMA FollowedAppended ==
  ASSUME NEW c, NEW n, NEW Q, NEW R, NEW x, Appended(Q, R, n, x), NEW t,
         Followed(c, Q[n], t),
         Sets(x, "register", c) => t <= x.at + FlushInterval
  PROVE  Followed(c, R[n], t)
<1> SUFFICES ASSUME NEW i \in DOMAIN R[n], Sets(R[n][i], "register", c)
             PROVE  \/ t <= R[n][i].at + FlushInterval
                    \/ \E j \in DOMAIN R[n] : /\ i < j /\ Sets(R[n][j], "renew", c)
                                              /\ R[n][j].sent <= R[n][i].at + FlushInterval
  BY DEF Followed
<1>1. CASE i \in DOMAIN Q[n] /\ R[n][i] = Q[n][i]
  <2>1. \/ t <= Q[n][i].at + FlushInterval
        \/ \E j \in DOMAIN Q[n] : /\ i < j /\ Sets(Q[n][j], "renew", c)
                                  /\ Q[n][j].sent <= Q[n][i].at + FlushInterval
    BY <1>1 DEF Followed
  <2>2. \A j \in DOMAIN Q[n] : j \in DOMAIN R[n] /\ R[n][j] = Q[n][j]
    BY DEF Appended
  <2> QED
    BY <1>1, <2>1, <2>2
<1>2. CASE R[n][i] = x
  BY <1>2
<1> QED
  BY <1>1, <1>2 DEF Appended

\* So does taking out the first command.
LEMMA FollowedShifted ==
  ASSUME NEW c, NEW n \in Nodes, NEW Q \in [Nodes -> Seq(Cmd)], NEW R, NEW x,
         Shifted(Q, R, n, x), NEW t,
         Followed(c, Q[n], t), x.op # "register"
  PROVE  Followed(c, R[n], t)
<1> SUFFICES ASSUME NEW i \in DOMAIN R[n], Sets(R[n][i], "register", c)
             PROVE  \/ t <= R[n][i].at + FlushInterval
                    \/ \E j \in DOMAIN R[n] : /\ i < j /\ Sets(R[n][j], "renew", c)
                                              /\ R[n][j].sent <= R[n][i].at + FlushInterval
  BY DEF Followed
<1>1. i + 1 \in DOMAIN Q[n] /\ R[n][i] = Q[n][i + 1]
  BY DEF Shifted, Sets
<1>2. \/ t <= Q[n][i + 1].at + FlushInterval
      \/ \E j \in DOMAIN Q[n] : /\ i + 1 < j /\ Sets(Q[n][j], "renew", c)
                                /\ Q[n][j].sent <= Q[n][i + 1].at + FlushInterval
  BY <1>1 DEF Followed
<1>3. ASSUME NEW j \in DOMAIN Q[n], i + 1 < j PROVE j - 1 \in DOMAIN R[n] /\ R[n][j - 1] = Q[n][j] /\ i < j - 1
  <2>1. i \in Int /\ j \in Int /\ i > 0
    <3>1. R[n] \in Seq(Cmd) /\ Q[n] \in Seq(Cmd)
      BY DEF Shifted
    <3> QED
      BY <3>1
  <2>2. j # 1 /\ i < j - 1
    BY <1>3, <2>1
  <2> QED
    BY <2>2 DEF Shifted
<1> QED
  BY <1>1, <1>2, <1>3

\* A step in which time stands still, no connection comes back, and every
\* waiting command of n is an old one or timely.
LEMMA TimelyStep ==
  ASSUME GhostInv, QueuesTimely, NEW n \in Nodes, now' = now,
         commands' \in [Nodes -> Seq(Cmd)], \A m \in Nodes \ {n} : commands'[m] = commands[m],
         \A c \in Conns : /\ phase[c] # "new" => phase'[c] # "new"
                          /\ phase[c] = "gone" => phase'[c] = "gone",
         \A m \in Nodes \ {n} : nextFlush'[m] = nextFlush[m],
         \/ nextFlush'[n] = nextFlush[n]
         \/ \A j \in DOMAIN commands[n] : commands[n][j].op # "renew",
         \A i \in DOMAIN commands'[n] :
           \/ \E j \in DOMAIN commands[n] : commands'[n][i] = commands[n][j]
           \/ CmdTimely(n, commands'[n][i], now, phase', nextFlush')
  PROVE  QueuesTimely'
<1>1. Typed
  BY DEF GhostInv
<1>2. ASSUME NEW m \in Nodes, NEW j \in DOMAIN commands[m]
      PROVE  CmdTimely(m, commands[m][j], now, phase', nextFlush')
  <2>1. commands[m][j] \in Cmd
    BY <1>1, WaitingCommands
  <2>2. CmdTimely(m, commands[m][j], now, phase, nextFlush)
    BY DEF QueuesTimely
  <2>3. nextFlush'[m] = nextFlush[m] \/ commands[m][j].op # "renew"
    BY <1>2
  <2> QED
    BY <2>1, <2>2, <2>3, StillTimely
<1>3. ASSUME NEW m \in Nodes, NEW i \in DOMAIN commands'[m]
      PROVE  CmdTimely(m, commands'[m][i], now', phase', nextFlush')
  <2>1. CASE m = n
    BY <1>2, <2>1
  <2>2. CASE m # n
    BY <1>2, <2>2
  <2> QED
    BY <2>1, <2>2
<1> QED
  BY <1>3 DEF QueuesTimely

\* A command that sets no timer and opens at most the connection it registers.
LEMMA LeaseSendStep ==
  ASSUME GhostInv, LeaseInv, NEW c0 \in Conns, NEW x \in Cmd,
         Appended(commands, commands', NodeOf[c0], x),
         now' = now, lease' = lease, nextFlush' = nextFlush, failures' = failures,
         \A c \in Conns : /\ phase[c] # "new" => phase'[c] # "new"
                          /\ phase[c] = "gone" => phase'[c] = "gone",
         x.conns = {c0}, x.at = now, x.sent = now,
         \/ x.op = "register" /\ phase'[c0] = "open" /\ NodeOf[c0] \in up
         \/ x.op = "remove" /\ phase'[c0] = "gone",
         \A c \in Conns \ {c0} : phase'[c] = phase[c]
  PROVE  /\ QueuesTimely'
         /\ failures = 0 => /\ RegistrationsFollowed'
                            /\ \A c \in Conns : phase'[c] = "open" => Covered(c)'
<1> DEFINE n == NodeOf[c0]
<1>1. n \in Nodes /\ Typed /\ QueuesTimely /\ TimersOK
  BY Constants DEF GhostInv, LeaseInv
<1>2. now \in Nat /\ FlushInterval \in Nat /\ MaxDelay \in Nat /\ nextFlush[n] \in Nat
  BY <1>1, Constants DEF Typed
<1>3. CmdTimely(n, x, now, phase', nextFlush')
  BY <1>2 DEF CmdTimely
<1>4. /\ commands' \in [Nodes -> Seq(Cmd)]
      /\ \A m \in Nodes \ {n} : commands'[m] = commands[m]
      /\ \A i \in DOMAIN commands'[n] : \/ i \in DOMAIN commands[n] /\ commands'[n][i] = commands[n][i]
                                        \/ commands'[n][i] = x
      /\ \A i \in DOMAIN commands[n] : i \in DOMAIN commands'[n] /\ commands'[n][i] = commands[n][i]
      /\ \E i \in DOMAIN commands'[n] : commands'[n][i] = x
  BY DEF Appended
<1>5. QueuesTimely'
  <2>1. \A i \in DOMAIN commands'[n] :
          \/ \E j \in DOMAIN commands[n] : commands'[n][i] = commands[n][j]
          \/ CmdTimely(n, commands'[n][i], now, phase', nextFlush')
    BY <1>3, <1>4
  <2> QED
    BY <1>1, <1>4, <2>1, TimelyStep
<1>6. ASSUME failures = 0, NEW c \in Conns, phase'[c] = "open"
      PROVE  Followed(c, commands'[NodeOf[c]], nextFlush'[NodeOf[c]]) /\ Covered(c)'
  <2>1. NodeOf[c] \in Nodes
    BY Constants
  <2>2. phase[c] = "open" => Followed(c, commands[NodeOf[c]], nextFlush[NodeOf[c]]) /\ Covered(c)
    BY <1>6, FollowedEach DEF LeaseInv
  <2>3. \A i \in DOMAIN commands[NodeOf[c]] :
          i \in DOMAIN commands'[NodeOf[c]] /\ commands'[NodeOf[c]][i] = commands[NodeOf[c]][i]
    BY <1>4, <2>1
  <2>4. CASE c # c0
    <3>1. phase[c] = "open"
      BY <1>6, <2>4
    <3>2. Covered(c)'
      BY <2>1, <2>2, <2>3, <3>1, CoverKept
    <3>3. ~Sets(x, "register", c)
      BY <2>4 DEF Sets
    <3>4. Followed(c, commands'[NodeOf[c]], nextFlush'[NodeOf[c]])
      <4>1. CASE NodeOf[c] = n
        BY <2>2, <3>1, <3>3, <4>1, FollowedAppended
      <4>2. CASE NodeOf[c] # n
        BY <1>4, <2>1, <2>2, <3>1, <4>2
      <4> QED
        BY <4>1, <4>2
    <3> QED
      BY <3>2, <3>4
  <2>5. CASE c = c0
    <3>1. x.op = "register" /\ n \in up
      BY <1>6, <2>5
    <3>2. Sets(x, "register", c)
      BY <2>5, <3>1 DEF Sets
    <3>3. \E i \in DOMAIN commands'[n] : Sets(commands'[n][i], "register", c)
      BY <1>4, <3>2
    <3>4. Covered(c)'
      BY <2>5, <3>3 DEF Covered, Sets
    <3>5. nextFlush[n] <= x.at + FlushInterval
      BY <1>1, <3>1 DEF TimersOK
    <3>6. Followed(c, commands[n], nextFlush[n])
      <4>1. CASE phase[c] = "open"
        BY <2>2, <2>5, <4>1
      <4>2. CASE phase[c] # "open"
        <5>1. phase[c] = "new"
          BY <1>1, <1>6, <4>2 DEF Typed
        <5>2. ASSUME NEW i \in DOMAIN commands[n] PROVE ~Sets(commands[n][i], "register", c)
          BY <1>1, <5>1 DEF QueuesTimely, CmdTimely, Sets
        <5> QED
          BY <5>2 DEF Followed
      <4> QED
        BY <4>1, <4>2
    <3>7. Followed(c, commands'[n], nextFlush[n])
      BY <3>5, <3>6, FollowedAppended
    <3> QED
      BY <2>5, <3>4, <3>7
  <2> QED
    BY <2>4, <2>5
<1> QED
  BY <1>5, <1>6, FollowedEachNext

\* The timer of n fires: every command of the flush before is through, so the
\* renewal is sent.
LEMMA LeaseFlush ==
  ASSUME InTime, GhostInv, LeaseInv, NEW n \in Nodes, Flush(n)
  PROVE  /\ QueuesTimely'
         /\ failures = 0 => /\ RegistrationsFollowed'
                            /\ \A c \in Conns : phase'[c] = "open" => Covered(c)'
<1> DEFINE x == LeaseCommand("renew", Alive(n))
<1>1. Typed /\ QueuesTimely /\ TimersOK
  BY DEF GhostInv, LeaseInv
<1>2. /\ now \in Nat /\ FlushInterval \in Nat /\ MaxDelay \in Nat /\ nextFlush \in [Nodes -> Nat]
      /\ commands \in [Nodes -> Seq(Cmd)]
  BY <1>1, Constants DEF Typed
<1>3. /\ now' = now /\ lease' = lease /\ phase' = phase /\ n \in up /\ now = nextFlush[n]
      /\ nextFlush' = [nextFlush EXCEPT ![n] = now + FlushInterval]
  BY DEF Flush, redis
<1>4. ASSUME NEW i \in DOMAIN commands[n] PROVE commands[n][i].op # "renew"
  <2> DEFINE k == commands[n][i]
  <2>1. k.sent \in Nat /\ k.at \in Nat
    BY <1>1, WaitingCommands
  <2>2. CmdTimely(n, k, now, phase, nextFlush)
    BY <1>1 DEF QueuesTimely
  <2> HIDE DEF k
  <2>3. ASSUME k.op = "renew" PROVE FALSE
    <3>1. k.at = k.sent /\ nextFlush[n] = k.at + FlushInterval /\ now <= k.sent + MaxDelay
      BY <2>2, <2>3 DEF CmdTimely
    <3> QED
      BY <1>2, <1>3, <2>1, <3>1 DEF InTime
  <2> QED
    BY <2>3 DEF k
<1>5. IF Alive(n) = {} THEN commands' = commands
      ELSE commands' = [commands EXCEPT ![n] = Append(commands[n], x)]
  BY <1>4 DEF Flush, IsFlushing, Renewed, Send
<1>6. Alive(n) \subseteq Conns /\ \A c \in Alive(n) : phase[c] = "open" /\ NodeOf[c] = n
  BY DEF Alive
<1>7. x \in Cmd /\ x.op = "renew" /\ x.conns = Alive(n) /\ x.at = now /\ x.sent = now
  BY <1>1, <1>6, SentCommands
<1> HIDE DEF x
<1>8. \A m \in Nodes \ {n} : nextFlush'[m] = nextFlush[m] /\ commands'[m] = commands[m]
  BY <1>2, <1>3, <1>5
<1>9. nextFlush'[n] = now + FlushInterval
  BY <1>2, <1>3
<1>10. ASSUME failures = 0, NEW c \in Conns, phase[c] = "open", NodeOf[c] # n
       PROVE  Followed(c, commands'[NodeOf[c]], nextFlush'[NodeOf[c]]) /\ Covered(c)'
  <2>1. NodeOf[c] \in Nodes \ {n}
    BY <1>10, Constants
  <2>2. Followed(c, commands[NodeOf[c]], nextFlush[NodeOf[c]]) /\ Covered(c)
    BY <1>10, FollowedEach DEF LeaseInv
  <2>3. Covered(c)'
    BY <1>3, <1>8, <2>1, <2>2, CoverKept
  <2> QED
    BY <1>8, <2>1, <2>2, <2>3
<1>11. CASE Alive(n) = {}
  <2>1. commands' = commands
    BY <1>5, <1>11
  <2>2. QueuesTimely'
    BY <1>1, <1>2, <1>3, <1>4, <1>8, <2>1, TimelyStep
  <2>3. \A c \in Conns : phase[c] = "open" => NodeOf[c] # n
    BY <1>11 DEF Alive
  <2> QED
    BY <1>3, <1>10, <2>2, <2>3, FollowedEachNext
<1>12. CASE Alive(n) # {}
  <2>1. Appended(commands, commands', n, x)
    BY <1>2, <1>5, <1>7, <1>12, AppendIsAppended
  <2>2. CmdTimely(n, x, now, phase', nextFlush')
    BY <1>2, <1>3, <1>6, <1>7, <1>9 DEF CmdTimely
  <2>3. /\ commands' \in [Nodes -> Seq(Cmd)]
        /\ \A i \in DOMAIN commands'[n] :
             \/ i \in DOMAIN commands[n] /\ commands'[n][i] = commands[n][i]
             \/ commands'[n][i] = x
        /\ \A i \in DOMAIN commands[n] : /\ i \in DOMAIN commands'[n] /\ commands'[n][i] = commands[n][i]
                                         /\ i < Len(commands[n]) + 1
        /\ Len(commands[n]) + 1 \in DOMAIN commands'[n] /\ commands'[n][Len(commands[n]) + 1] = x
    BY <2>1 DEF Appended
  <2>4. QueuesTimely'
    <3>1. \A i \in DOMAIN commands'[n] :
            \/ \E j \in DOMAIN commands[n] : commands'[n][i] = commands[n][j]
            \/ CmdTimely(n, commands'[n][i], now, phase', nextFlush')
      BY <2>2, <2>3
    <3> QED
      BY <1>1, <1>3, <1>4, <1>8, <2>3, <3>1, TimelyStep
  <2>5. ASSUME failures = 0, NEW c \in Conns, phase[c] = "open", NodeOf[c] = n
        PROVE  Followed(c, commands'[NodeOf[c]], nextFlush'[NodeOf[c]]) /\ Covered(c)'
    <3>1. Followed(c, commands[n], nextFlush[n]) /\ Covered(c)
      BY <2>5, FollowedEach DEF LeaseInv
    <3>2. Sets(x, "renew", c) /\ ~Sets(x, "register", c)
      BY <1>7, <2>5 DEF Sets, Alive
    <3>3. ASSUME NEW i \in DOMAIN commands'[n], Sets(commands'[n][i], "register", c)
          PROVE  \E j \in DOMAIN commands'[n] :
                   /\ i < j /\ Sets(commands'[n][j], "renew", c)
                   /\ commands'[n][j].sent <= commands'[n][i].at + FlushInterval
      <4>1. i \in DOMAIN commands[n] /\ commands'[n][i] = commands[n][i]
        BY <2>3, <3>2, <3>3
      <4>2. nextFlush[n] <= commands[n][i].at + FlushInterval
        <5>1. \A j \in DOMAIN commands[n] : ~Sets(commands[n][j], "renew", c)
          BY <1>4 DEF Sets
        <5> QED
          BY <3>1, <3>3, <4>1, <5>1 DEF Followed
      <4>3. x.sent <= commands'[n][i].at + FlushInterval
        BY <1>3, <1>7, <4>1, <4>2
      <4> QED
        BY <2>3, <3>2, <4>1, <4>3
    <3>4. Followed(c, commands'[n], nextFlush'[n])
      BY <3>3 DEF Followed
    <3>5. CASE \E i \in DOMAIN commands[n] : Sets(commands[n][i], "register", c)
      <4>1. \E i \in DOMAIN commands'[n] : Sets(commands'[n][i], "register", c)
        BY <2>3, <3>5
      <4> QED
        BY <2>5, <3>4, <4>1 DEF Covered, Sets
    <3>6. CASE lease[c] > nextFlush[n] + MaxDelay
      <4>1. lease'[c] > x.sent + MaxDelay
        BY <1>3, <1>7, <3>6
      <4>2. \E i \in DOMAIN commands'[n] : /\ Sets(commands'[n][i], "renew", c)
                                           /\ lease'[c] > commands'[n][i].sent + MaxDelay
        BY <2>3, <3>2, <4>1
      <4> QED
        BY <2>5, <3>4, <4>2 DEF Covered, Sets
    <3>7. \A j \in DOMAIN commands[n] : ~Sets(commands[n][j], "renew", c)
      BY <1>4 DEF Sets
    <3> QED
      BY <2>5, <3>1, <3>5, <3>6, <3>7 DEF Covered
  <2> QED
    BY <1>3, <1>10, <2>4, <2>5, FollowedEachNext
<1> QED
  BY <1>11, <1>12

\* A command of n is executed: it sets a lease that lasts beyond the next
\* renewal, or leaves an open connection's lease, which is not yet expired.
LEMMA LeaseExecute ==
  ASSUME InTime, GhostInv, LeaseInv, failures = 0, NEW n \in Nodes, Execute(n),
         NEW c \in Conns, phase[c] = "open"
  PROVE  Covered(c)'
<1> DEFINE m == NodeOf[c]
           k == commands[n][1]
<1>1. Typed /\ QueuesOK /\ QueuesTimely /\ TimersOK
  BY DEF GhostInv, LeaseInv
<1>2. m \in Nodes /\ m \in up /\ now <= nextFlush[m]
  BY <1>1, Constants DEF TimersOK
<1>3. /\ now \in Nat /\ FlushInterval \in Nat /\ MaxDelay \in Nat /\ nextFlush[m] \in Nat
      /\ lease[c] \in Nat /\ Ttl \in Nat
  BY <1>1, <1>2, Constants DEF Typed
<1>4. nextFlush' = nextFlush
  BY DEF Execute
<1>5. commands[n] # <<>>
  BY DEF Execute
<1>6. 1 \in DOMAIN commands[n] /\ k \in Cmd /\ k.at \in Nat
  BY <1>1, <1>5, FirstCommand, WaitingCommands
<1>7. CmdOK(k, now, phase, goneAt) /\ CmdTimely(n, k, now, phase, nextFlush)
  BY <1>1, <1>6 DEF QueuesOK, QueuesTimely
<1>8. LeaseBy(k, c, lease[c], lease'[c])
  BY <1>1, LeaseChange
<1>9. PICK x \in Cmd : Shifted(commands, commands', n, x)
  BY <1>1, CommandDone
<1>10. \A i \in DOMAIN commands[n] :
         i # 1 => i - 1 \in DOMAIN commands'[n] /\ commands'[n][i - 1] = commands[n][i]
  BY <1>9 DEF Shifted
<1>11. n # m => commands'[m] = commands[m]
  BY <1>2, <1>9 DEF Shifted
<1>12. Followed(c, commands[m], nextFlush[m]) /\ Covered(c)
  BY FollowedEach DEF LeaseInv
<1>13. \A i \in DOMAIN commands[m] : commands[m][i].sent \in Nat /\ now <= commands[m][i].sent + MaxDelay
  BY <1>1, <1>2, WaitingCommands DEF QueuesTimely, CmdTimely
<1> HIDE DEF k
<1>14. CASE k.op \in {"register", "renew"} /\ c \in k.conns
  <2>1. n = m
    BY <1>7, <1>14 DEF CmdTimely
  <2>2. lease'[c] = k.at + Ttl
    BY <1>8, <1>14 DEF LeaseBy
  <2>3. ASSUME nextFlush[m] <= k.at + FlushInterval PROVE Covered(c)'
    <3>1. lease'[c] > nextFlush[m] + MaxDelay
      BY <1>3, <1>6, <2>2, <2>3 DEF InTime
    <3> QED
      BY <1>4, <3>1 DEF Covered
  <2>4. CASE k.op = "renew"
    <3>1. nextFlush[m] = k.at + FlushInterval
      BY <1>7, <2>1, <2>4 DEF CmdTimely
    <3> QED
      BY <1>3, <1>6, <2>3, <3>1
  <2>5. CASE k.op = "register"
    <3>1. Sets(commands[m][1], "register", c) /\ 1 \in DOMAIN commands[m]
      BY <1>6, <1>14, <2>1, <2>5 DEF Sets, k
    <3>2. \/ nextFlush[m] <= k.at + FlushInterval
          \/ \E j \in DOMAIN commands[m] : /\ 1 < j /\ Sets(commands[m][j], "renew", c)
                                           /\ commands[m][j].sent <= k.at + FlushInterval
      BY <1>12, <2>1, <3>1 DEF Followed, k
    <3>3. ASSUME NEW j \in DOMAIN commands[m], 1 < j, Sets(commands[m][j], "renew", c),
                 commands[m][j].sent <= k.at + FlushInterval
          PROVE  Covered(c)'
      <4>1. j - 1 \in DOMAIN commands'[m] /\ commands'[m][j - 1] = commands[m][j]
        BY <1>10, <2>1, <3>3
      <4>2. lease'[c] > commands[m][j].sent + MaxDelay
        BY <1>3, <1>6, <1>13, <2>2, <3>3 DEF InTime
      <4>3. \E i \in DOMAIN commands'[m] : /\ Sets(commands'[m][i], "renew", c)
                                           /\ lease'[c] > commands'[m][i].sent + MaxDelay
        BY <3>3, <4>1, <4>2
      <4> QED
        BY <4>3 DEF Covered, Sets
    <3> QED
      BY <2>3, <3>2, <3>3
  <2> QED
    BY <1>14, <2>4, <2>5
<1>15. CASE ~(k.op \in {"register", "renew"} /\ c \in k.conns)
  <2>1. lease'[c] = lease[c] \/ lease[c] <= k.at
    <3>1. ~(k.op = "remove" /\ c \in k.conns)
      BY <1>7 DEF CmdTimely
    <3> QED
      BY <1>8, <1>15, <3>1 DEF LeaseBy
  <2>2. lease[c] > now => lease'[c] = lease[c]
    <3>1. k.at <= now
      BY <1>7 DEF CmdOK
    <3> QED
      BY <1>3, <1>6, <2>1, <3>1
  <2>3. ASSUME NEW o \in {"register", "renew"}, NEW i \in DOMAIN commands[m], Sets(commands[m][i], o, c)
        PROVE  \E j \in DOMAIN commands'[m] : commands'[m][j] = commands[m][i]
    <3>1. CASE n = m
      <4>1. i # 1
        BY <1>15, <2>3, <3>1 DEF Sets, k
      <4> QED
        BY <1>10, <3>1, <4>1
    <3>2. CASE n # m
      BY <1>11, <3>2
    <3> QED
      BY <3>1, <3>2
  <2>4. CASE \E i \in DOMAIN commands[m] : Sets(commands[m][i], "register", c)
    <3>1. \E i \in DOMAIN commands'[m] : Sets(commands'[m][i], "register", c)
      BY <2>3, <2>4
    <3> QED
      BY <3>1 DEF Covered, Sets
  <2>5. CASE \E i \in DOMAIN commands[m] : /\ Sets(commands[m][i], "renew", c)
                                           /\ lease[c] > commands[m][i].sent + MaxDelay
    <3>1. PICK i \in DOMAIN commands[m] : /\ Sets(commands[m][i], "renew", c)
                                          /\ lease[c] > commands[m][i].sent + MaxDelay
      BY <2>5
    <3>2. lease[c] > now
      BY <1>3, <1>13, <3>1
    <3>3. \E j \in DOMAIN commands'[m] : /\ Sets(commands'[m][j], "renew", c)
                                         /\ lease'[c] > commands'[m][j].sent + MaxDelay
      BY <2>2, <2>3, <3>1, <3>2
    <3> QED
      BY <3>3 DEF Covered, Sets
  <2>6. CASE lease[c] > nextFlush[m] + MaxDelay
    <3>1. lease[c] > now
      BY <1>2, <1>3, <2>6
    <3>2. lease'[c] > nextFlush'[m] + MaxDelay
      BY <1>4, <2>2, <2>6, <3>1
    <3> QED
      BY <3>2 DEF Covered
  <2> QED
    BY <1>12, <2>4, <2>5, <2>6 DEF Covered
<1> QED
  BY <1>14, <1>15

LEMMA LeaseStep ==
  ASSUME InTime
  PROVE  GhostInv /\ LeaseInv /\ [Next]_vars => LeaseInv'
<1> SUFFICES ASSUME GhostInv, LeaseInv, [Next]_vars PROVE LeaseInv'
  OBVIOUS
<1> DEFINE Kept == failures = 0 => /\ RegistrationsFollowed
                                   /\ \A c \in Conns : phase[c] = "open" => Covered(c)
<1>1. Typed /\ QueuesOK /\ QueuesTimely /\ TimersOK /\ failures \in Nat /\ Kept
  BY DEF GhostInv, LeaseInv
<1>2. /\ now \in Nat /\ FlushInterval \in Nat /\ MaxDelay \in Nat /\ commands \in [Nodes -> Seq(Cmd)]
      /\ phase \in [Conns -> {"new", "open", "gone"}] /\ nextFlush \in [Nodes -> Nat] /\ up \subseteq Nodes
  BY <1>1, Constants DEF Typed
<1>3. \A n \in up : now <= nextFlush[n] /\ nextFlush[n] <= now + FlushInterval
  BY <1>1 DEF TimersOK
<1>4. \A c \in Conns : phase[c] = "open" => NodeOf[c] \in up
  BY <1>1 DEF TimersOK
<1> SUFFICES failures' \in Nat /\ QueuesTimely' /\ TimersOK' /\ Kept'
  BY DEF LeaseInv
<1> HIDE DEF Kept
<1>5. CASE Tick
  <2>1. /\ now' = now + 1 /\ up' = up /\ phase' = phase /\ lease' = lease /\ commands' = commands
        /\ nextFlush' = nextFlush /\ failures' = failures
        /\ \A n \in up : now < nextFlush[n]
        /\ \A n \in Nodes : \A i \in DOMAIN commands[n] : now < commands[n][i].sent + MaxDelay
    BY <1>5 DEF Tick, redis
  <2>2. TimersOK'
    <3>1. ASSUME NEW n \in up PROVE now + 1 <= nextFlush[n] /\ nextFlush[n] <= now + 1 + FlushInterval
      <4>1. nextFlush[n] \in Nat
        BY <1>2
      <4> QED
        BY <1>2, <1>3, <2>1, <4>1
    <3> QED
      BY <1>4, <2>1, <3>1 DEF TimersOK
  <2>3. ASSUME NEW n \in Nodes, NEW i \in DOMAIN commands[n]
        PROVE  CmdTimely(n, commands[n][i], now + 1, phase, nextFlush)
    <3> DEFINE k == commands[n][i]
    <3>1. k.sent \in Nat /\ now < k.sent + MaxDelay
      BY <1>1, <2>1, WaitingCommands
    <3>2. CmdTimely(n, k, now, phase, nextFlush)
      BY <1>1 DEF QueuesTimely
    <3> HIDE DEF k
    <3>3. k.sent <= now + 1 /\ now + 1 <= k.sent + MaxDelay
      BY <1>2, <3>1, <3>2 DEF CmdTimely
    <3>4. CmdTimely(n, k, now + 1, phase, nextFlush)
      BY <3>2, <3>3 DEF CmdTimely
    <3> QED
      BY <3>4 DEF k
  <2>4. QueuesTimely'
    BY <2>1, <2>3 DEF QueuesTimely
  <2>5. Kept'
    BY <1>1, <2>1 DEF Kept, RegistrationsFollowed, Covered, Sets
  <2> QED
    BY <1>1, <2>1, <2>2, <2>4, <2>5
<1>6. ASSUME NEW c0 \in Conns, Connect(c0) PROVE failures' \in Nat /\ QueuesTimely' /\ TimersOK' /\ Kept'
  <2> DEFINE x == LeaseCommand("register", {c0})
  <2>1. x \in Cmd /\ x.op = "register" /\ x.conns = {c0} /\ x.at = now /\ x.sent = now
    BY <1>1, SentCommands
  <2>2. /\ now' = now /\ up' = up /\ lease' = lease /\ nextFlush' = nextFlush /\ failures' = failures
        /\ phase[c0] = "new" /\ NodeOf[c0] \in up /\ phase' = [phase EXCEPT ![c0] = "open"]
        /\ commands' = [commands EXCEPT ![NodeOf[c0]] = Append(commands[NodeOf[c0]], x)]
    BY <1>6 DEF Connect, Send, redis
  <2> HIDE DEF x
  <2>3. Appended(commands, commands', NodeOf[c0], x)
    BY <1>2, <2>1, <2>2, AppendIsAppended, Constants
  <2>4. /\ phase'[c0] = "open" /\ \A c \in Conns \ {c0} : phase'[c] = phase[c]
        /\ \A c \in Conns : /\ phase[c] # "new" => phase'[c] # "new"
                            /\ phase[c] = "gone" => phase'[c] = "gone"
    BY <1>2, <2>2
  <2>5. QueuesTimely' /\ Kept'
    BY <2>1, <2>2, <2>3, <2>4, LeaseSendStep DEF Kept
  <2>6. TimersOK'
    BY <1>3, <1>4, <2>2, <2>4 DEF TimersOK
  <2> QED
    BY <1>1, <2>2, <2>5, <2>6
<1>7. ASSUME NEW c0 \in Conns, Close(c0) PROVE failures' \in Nat /\ QueuesTimely' /\ TimersOK' /\ Kept'
  <2> DEFINE x == LeaseCommand("remove", {c0})
  <2>1. x \in Cmd /\ x.op = "remove" /\ x.conns = {c0} /\ x.at = now /\ x.sent = now
    BY <1>1, SentCommands
  <2>2. /\ now' = now /\ up' = up /\ lease' = lease /\ nextFlush' = nextFlush /\ failures' = failures
        /\ phase' = [phase EXCEPT ![c0] = "gone"]
        /\ commands' = [commands EXCEPT ![NodeOf[c0]] = Append(commands[NodeOf[c0]], x)]
    BY <1>7 DEF Close, Send, redis
  <2> HIDE DEF x
  <2>3. Appended(commands, commands', NodeOf[c0], x)
    BY <1>2, <2>1, <2>2, AppendIsAppended, Constants
  <2>4. /\ phase'[c0] = "gone" /\ \A c \in Conns \ {c0} : phase'[c] = phase[c]
        /\ \A c \in Conns : /\ phase[c] # "new" => phase'[c] # "new"
                            /\ phase[c] = "gone" => phase'[c] = "gone"
    BY <1>2, <2>2
  <2>5. QueuesTimely' /\ Kept'
    BY <2>1, <2>2, <2>3, <2>4, LeaseSendStep DEF Kept
  <2>6. TimersOK'
    BY <1>3, <1>4, <2>2, <2>4 DEF TimersOK
  <2> QED
    BY <1>1, <2>2, <2>5, <2>6
<1>8. ASSUME NEW c0 \in Conns, ResyncOne(c0) PROVE failures' \in Nat /\ QueuesTimely' /\ TimersOK' /\ Kept'
  <2> DEFINE x == LeaseCommand("register", {c0})
  <2>1. x \in Cmd /\ x.op = "register" /\ x.conns = {c0} /\ x.at = now /\ x.sent = now
    BY <1>1, SentCommands
  <2>2. /\ now' = now /\ up' = up /\ lease' = lease /\ nextFlush' = nextFlush /\ failures' = failures
        /\ phase' = phase
    BY <1>8 DEF ResyncOne, redis
  <2>3. \/ phase[c0] = "open"
           /\ commands' = [commands EXCEPT ![NodeOf[c0]] = Append(commands[NodeOf[c0]], x)]
        \/ commands' = commands
    BY <1>8 DEF ResyncOne, Send
  <2> HIDE DEF x
  <2>4. CASE phase[c0] = "open"
             /\ commands' = [commands EXCEPT ![NodeOf[c0]] = Append(commands[NodeOf[c0]], x)]
    <3>1. Appended(commands, commands', NodeOf[c0], x)
      BY <1>2, <2>1, <2>4, AppendIsAppended, Constants
    <3>2. phase'[c0] = "open" /\ NodeOf[c0] \in up
      BY <1>4, <2>2, <2>4
    <3>3. QueuesTimely' /\ Kept'
      BY <2>1, <2>2, <3>1, <3>2, LeaseSendStep DEF Kept
    <3>4. TimersOK'
      BY <1>3, <1>4, <2>2 DEF TimersOK
    <3> QED
      BY <1>1, <2>2, <3>3, <3>4
  <2>5. CASE commands' = commands
    BY <1>1, <2>2, <2>5 DEF QueuesTimely, TimersOK, Kept, RegistrationsFollowed, Covered, Sets
  <2> QED
    BY <2>3, <2>4, <2>5
<1>9. ASSUME NEW n \in Nodes, Crash(n) PROVE failures' \in Nat /\ QueuesTimely' /\ TimersOK' /\ Kept'
  <2>1. /\ now' = now /\ up' = up \ {n} /\ lease' = lease /\ nextFlush' = nextFlush /\ failures' = failures
        /\ phase' = [c \in Conns |-> IF c \in Alive(n) THEN "gone" ELSE phase[c]]
        /\ commands' = [commands EXCEPT ![n] = <<>>]
    BY <1>9 DEF Crash, redis
  <2>2. \A c \in Conns : /\ phase[c] # "new" => phase'[c] # "new"
                         /\ phase[c] = "gone" => phase'[c] = "gone"
                         /\ phase'[c] = "open" => phase[c] = "open" /\ NodeOf[c] # n
    BY <1>2, <2>1 DEF Alive
  <2>3. /\ commands' \in [Nodes -> Seq(Cmd)] /\ commands'[n] = <<>>
        /\ \A m \in Nodes \ {n} : commands'[m] = commands[m]
    BY <1>2, <2>1
  <2>4. DOMAIN commands'[n] = {}
    BY <2>3
  <2>5. QueuesTimely'
    BY <1>1, <2>1, <2>2, <2>3, <2>4, TimelyStep
  <2>6. TimersOK'
    BY <1>3, <1>4, <2>1, <2>2 DEF TimersOK
  <2>7. ASSUME failures = 0, NEW c \in Conns, phase'[c] = "open"
        PROVE  Followed(c, commands'[NodeOf[c]], nextFlush'[NodeOf[c]]) /\ Covered(c)'
    <3>1. NodeOf[c] \in Nodes /\ phase[c] = "open" /\ commands'[NodeOf[c]] = commands[NodeOf[c]]
      BY <2>2, <2>3, <2>7, Constants
    <3>2. Followed(c, commands[NodeOf[c]], nextFlush[NodeOf[c]]) /\ Covered(c)
      BY <1>1, <2>7, <3>1, FollowedEach DEF Kept
    <3>3. Covered(c)'
      BY <2>1, <3>1, <3>2, CoverKept
    <3> QED
      BY <2>1, <3>1, <3>2, <3>3
  <2> QED
    BY <1>1, <2>1, <2>5, <2>6, <2>7, FollowedEachNext DEF Kept
<1>10. ASSUME NEW n \in Nodes, Flush(n) PROVE failures' \in Nat /\ QueuesTimely' /\ TimersOK' /\ Kept'
  <2>1. /\ now' = now /\ up' = up /\ phase' = phase /\ failures' = failures
        /\ nextFlush' = [nextFlush EXCEPT ![n] = now + FlushInterval]
    BY <1>10 DEF Flush
  <2>2. QueuesTimely' /\ Kept'
    BY <1>10, <2>1, LeaseFlush DEF Kept
  <2>3. ASSUME NEW m \in up PROVE now <= nextFlush'[m] /\ nextFlush'[m] <= now + FlushInterval
    <3>1. CASE m = n
      BY <1>2, <2>1, <3>1
    <3>2. CASE m # n
      BY <1>2, <1>3, <2>1, <3>2
    <3> QED
      BY <3>1, <3>2
  <2>4. TimersOK'
    BY <1>4, <2>1, <2>3 DEF TimersOK
  <2> QED
    BY <1>1, <2>1, <2>2, <2>4
<1>11. ASSUME NEW n \in Nodes, RedisReconnect(n) PROVE failures' \in Nat /\ QueuesTimely' /\ TimersOK' /\ Kept'
  <2>1. /\ now' = now /\ up' = up /\ phase' = phase /\ failures' = failures /\ lease' = lease
        /\ nextFlush' = nextFlush /\ commands' = commands
    BY <1>11 DEF RedisReconnect, redis
  <2> QED
    BY <1>1, <2>1 DEF QueuesTimely, TimersOK, Kept, RegistrationsFollowed, Covered, Sets
<1>12. ASSUME NEW n \in Nodes, Execute(n) \/ Fail(n) PROVE failures' \in Nat /\ QueuesTimely' /\ TimersOK' /\ Kept'
  <2>1. now' = now /\ up' = up /\ phase' = phase /\ nextFlush' = nextFlush
    BY <1>12 DEF Execute, Fail
  <2>2. PICK x \in Cmd : /\ x.op \in {"count", "publish"} /\ x.sent = now
                         /\ Shifted(commands, commands', n, x)
    BY <1>1, <1>12, CommandDone
  <2>3. CmdTimely(n, x, now, phase', nextFlush')
    BY <1>2, <2>2 DEF CmdTimely
  <2>4. QueuesTimely'
    <3>1. /\ commands' \in [Nodes -> Seq(Cmd)]
          /\ \A m \in Nodes \ {n} : commands'[m] = commands[m]
          /\ \A i \in DOMAIN commands'[n] :
               \/ \E j \in DOMAIN commands[n] : commands'[n][i] = commands[n][j]
               \/ CmdTimely(n, commands'[n][i], now, phase', nextFlush')
      BY <2>2, <2>3 DEF Shifted
    <3> QED
      BY <1>1, <2>1, <3>1, TimelyStep
  <2>5. TimersOK'
    BY <1>1, <2>1 DEF TimersOK
  <2>6. CASE Fail(n)
    <3>1. failures' = failures + 1
      BY <2>6 DEF Fail
    <3>2. failures' \in Nat /\ failures' # 0
      BY <1>1, <3>1
    <3> QED
      BY <2>4, <2>5, <3>2 DEF Kept
  <2>7. CASE Execute(n)
    <3>1. failures' = failures
      BY <2>7 DEF Execute
    <3>2. ASSUME failures = 0, NEW c \in Conns, phase[c] = "open"
          PROVE  Followed(c, commands'[NodeOf[c]], nextFlush[NodeOf[c]]) /\ Covered(c)'
      <4>1. Covered(c)'
        BY <2>7, <3>2, LeaseExecute
      <4>2. Followed(c, commands[NodeOf[c]], nextFlush[NodeOf[c]]) /\ NodeOf[c] \in Nodes
        BY <1>1, <3>2, FollowedEach, Constants DEF Kept
      <4>3. CASE NodeOf[c] = n
        <5>1. Followed(c, commands'[n], nextFlush[n])
          BY <1>2, <2>2, <4>2, <4>3, FollowedShifted
        <5> QED
          BY <4>1, <4>3, <5>1
      <4>4. CASE NodeOf[c] # n
        BY <2>2, <4>1, <4>2, <4>4 DEF Shifted
      <4> QED
        BY <4>3, <4>4
    <3> QED
      BY <1>1, <2>1, <2>4, <2>5, <3>1, <3>2, FollowedEachNext DEF Kept
  <2> QED
    BY <1>12, <2>6, <2>7
<1>13. CASE UNCHANGED vars
  BY <1>1, <1>13 DEF vars, redis, QueuesTimely, TimersOK, Kept, RegistrationsFollowed, Covered, Sets
<1> QED
  BY <1>5, <1>6, <1>7, <1>8, <1>9, <1>10, <1>11, <1>12, <1>13 DEF Next

\* As long as no command fails, an open connection that is not being registered
\* has an unexpired lease, whichever flushes and registrations overlap: provided
\* that a command takes less than a flush interval and that an interval and a
\* command take less than the TTL (without which the code promises nothing).
THEOREM LeasesAreRenewed ==
  ASSUME InTime
  PROVE  Spec => []LeaseWhileOpen
<1>1. GhostInv /\ LeaseInv /\ [Next]_vars => GhostInv' /\ LeaseInv'
  BY GhostStep, LeaseStep
<1> QED
  BY <1>1, GhostInitially, LeaseInitially, LeaseImplied, PTL DEF Spec
==============================================================================

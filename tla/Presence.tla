------------------------------- MODULE Presence -------------------------------
(***************************************************************************)
(* Distributed presence: the lease each node keeps in Redis for each of    *)
(* its connections (PresenceManager and its Lua scripts), the renewal      *)
(* loop, the resynchronisation after a Redis reconnect, and the ONLINE and *)
(* OFFLINE events as another node sees them through its                    *)
(* PresenceEventTracker.                                                   *)
(*                                                                         *)
(* A node sends its commands through one Redis client, which keeps them in *)
(* order; the replies of two nodes interleave freely.  Clocks are taken as *)
(* synchronised and start at 1, so that the first event of a user is newer *)
(* than the 0 of viewTs, which stands for no event.  No caller waits for   *)
(* registerConnection or removeConnection, which make two or three round   *)
(* trips: the Lua script, the connection count and, when the user went     *)
(* online or offline, PUBLISH.                                             *)
(***************************************************************************)
EXTENDS Naturals, FiniteSets, Sequences

CONSTANTS
  Nodes, Users, Conns,
  NodeOf, UserOf,     \* where and whose each connection is
  Ttl,                \* presenceTtlMs
  FlushInterval,      \* presenceFlushIntervalMs
  MaxDelay,           \* bound on the time Redis takes for a command
  MaxFailures,        \* bound on commands that fail
  MaxTime             \* bound on the clock

ASSUME PresenceAssumption ==
  /\ IsFiniteSet(Conns)
  /\ NodeOf \in [Conns -> Nodes] /\ UserOf \in [Conns -> Users]
  /\ Ttl \in Nat /\ FlushInterval \in Nat \ {0} /\ FlushInterval < Ttl
  /\ MaxDelay \in Nat /\ MaxFailures \in Nat /\ MaxTime \in Nat

VARIABLES
  now,
  up,         \* the nodes that have not crashed
  phase,      \* "new", "open", "gone" for each connection
  lease,      \* score of the connection in its user's sorted set; 0 is absent
  commands,   \* commands each node has sent and Redis has not executed
  nextFlush,  \* when the renewal timer of each node fires
  resync,     \* connections handleRedisReconnect has still to register
  reconnects, \* how often a node has reconnected: at most once per failure
  failures,
  goneAt,     \* history: when each connection closed or its node crashed
  view, viewTs  \* last status and timestamp another node accepted per user

redis == <<lease, view, viewTs>>
vars == <<now, up, phase, redis, commands, nextFlush, resync, reconnects, failures, goneAt>>

Times == 0..MaxTime
Ops == {"register", "remove", "renew", "count", "publish"}
Command == [op     : Ops,
            conns  : SUBSET Conns,
            at     : Times,          \* Date.now() when the handler read it
            sent   : Times,
            user   : Users \cup {"none"},
            status : {"ONLINE", "OFFLINE", "none"}]

LeaseCommand(o, cs) ==
  [op |-> o, conns |-> cs, at |-> now, sent |-> now,
   user |-> "none", status |-> "none"]

EventCommand(o, at, u, s) ==
  [op |-> o, conns |-> {}, at |-> at, sent |-> now, user |-> u, status |-> s]

\* The live connections of a node: registered and with an open socket.
Alive(n) == {c \in Conns : NodeOf[c] = n /\ phase[c] = "open"}

Init ==
  /\ now = 1
  /\ up = Nodes
  /\ phase = [c \in Conns |-> "new"]
  /\ lease = [c \in Conns |-> 0]
  /\ commands = [n \in Nodes |-> <<>>]
  /\ nextFlush = [n \in Nodes |-> 1 + FlushInterval]
  /\ resync = [n \in Nodes |-> {}]
  /\ reconnects = 0 /\ failures = 0
  /\ goneAt = [c \in Conns |-> 0]
  /\ view = [u \in Users |-> "OFFLINE"] /\ viewTs = [u \in Users |-> 0]

-----------------------------------------------------------------------------
Send(n, cmd) == commands' = [commands EXCEPT ![n] = Append(@, cmd)]

\* Time passes when no timer is due and no command has waited MaxDelay.
Tick ==
  /\ now < MaxTime
  /\ \A n \in up : now < nextFlush[n]
  /\ \A n \in Nodes : \A i \in DOMAIN commands[n] :
       now < commands[n][i].sent + MaxDelay
  /\ now' = now + 1
  /\ UNCHANGED <<up, phase, redis, commands, nextFlush, resync, reconnects, failures, goneAt>>

\* registerConnection of a new connection.
Connect(c) ==
  /\ phase[c] = "new" /\ NodeOf[c] \in up
  /\ phase' = [phase EXCEPT ![c] = "open"]
  /\ Send(NodeOf[c], LeaseCommand("register", {c}))
  /\ UNCHANGED <<now, up, redis, nextFlush, resync, reconnects, failures, goneAt>>

\* removeConnection, called by the close event.
Close(c) ==
  /\ phase[c] = "open"
  /\ phase' = [phase EXCEPT ![c] = "gone"]
  /\ goneAt' = [goneAt EXCEPT ![c] = now]
  /\ Send(NodeOf[c], LeaseCommand("remove", {c}))
  /\ UNCHANGED <<now, up, redis, nextFlush, resync, reconnects, failures>>

\* The process dies, and with it the commands it had not got through.
Crash(n) ==
  /\ n \in up
  /\ up' = up \ {n}
  /\ phase' = [c \in Conns |-> IF c \in Alive(n) THEN "gone" ELSE phase[c]]
  /\ goneAt' = [c \in Conns |-> IF c \in Alive(n) THEN now ELSE goneAt[c]]
  /\ commands' = [commands EXCEPT ![n] = <<>>]
  /\ resync' = [resync EXCEPT ![n] = {}]
  /\ UNCHANGED <<now, redis, nextFlush, reconnects, failures>>

\* Mutant: closed connections are renewed too.
RenewEveryone(n) == {c \in Conns : NodeOf[c] = n /\ phase[c] # "new"}

\* What flushLeaseRenewals renews.
Renewed(n) == Alive(n)

\* A pipeline of flushLeaseRenewals is under way.
IsFlushing(n) == \E i \in DOMAIN commands[n] : commands[n][i].op = "renew"

\* The renewal timer fires: flushLeaseRenewals.
Flush(n) ==
  /\ n \in up /\ now = nextFlush[n]
  /\ nextFlush' = [nextFlush EXCEPT ![n] = now + FlushInterval]
  /\ IF IsFlushing(n) \/ Renewed(n) = {}
       THEN UNCHANGED commands
       ELSE Send(n, LeaseCommand("renew", Renewed(n)))
  /\ UNCHANGED <<now, up, phase, redis, resync, reconnects, failures, goneAt>>

\* handleRedisReconnect takes the list of connections ...
RedisReconnect(n) ==
  /\ n \in up /\ reconnects < failures /\ resync[n] = {}
  /\ reconnects' = reconnects + 1
  /\ resync' = [resync EXCEPT ![n] = Alive(n)]
  /\ UNCHANGED <<now, up, phase, redis, commands, nextFlush, failures, goneAt>>

\* ... and registers those that are still alive, one after the other.  (The
\* loop also waits for each reply: here the next one may start before that.)
ResyncOne(c) ==
  LET n == NodeOf[c]
  IN
  /\ c \in resync[n]
  /\ resync' = [resync EXCEPT ![n] = @ \ {c}]
  /\ IF phase[c] = "open" THEN Send(n, LeaseCommand("register", {c}))
                          ELSE UNCHANGED commands
  /\ UNCHANGED <<now, up, phase, redis, nextFlush, reconnects, failures, goneAt>>

-----------------------------------------------------------------------------
(***************************************************************************)
(* Redis executes a command and the node handles the reply                 *)
(***************************************************************************)

ConnOf(cmd) == CHOOSE c \in cmd.conns : TRUE

\* The leases of a user that survive ZREMRANGEBYSCORE -inf at.
Unexpired(u, at) == {c \in Conns : UserOf[c] = u /\ lease[c] > at}

Pruned(u, at) ==
  [c \in Conns |-> IF UserOf[c] = u /\ c \notin Unexpired(u, at) THEN 0 ELSE lease[c]]

\* The script has replied: count the connections, remembering the transition.
Reply(n, cmd, u, transition, s) ==
  commands' = [commands EXCEPT ![n] =
    Append(Tail(@), EventCommand("count", cmd.at, u, IF transition THEN s ELSE "none"))]

\* REGISTER_PRESENCE_LUA.
Register(n, cmd) ==
  LET c == ConnOf(cmd)
      u == UserOf[c]
  IN /\ lease' = [Pruned(u, cmd.at) EXCEPT ![c] = cmd.at + Ttl]
     /\ Reply(n, cmd, u, Unexpired(u, cmd.at) = {}, "ONLINE")
     /\ UNCHANGED <<view, viewTs>>

\* REMOVE_PRESENCE_LUA.
Remove(n, cmd) ==
  LET c == ConnOf(cmd)
      u == UserOf[c]
  IN /\ lease' = [Pruned(u, cmd.at) EXCEPT ![c] = 0]
     /\ Reply(n, cmd, u, Unexpired(u, cmd.at) \ {c} = {}, "OFFLINE")
     /\ UNCHANGED <<view, viewTs>>

\* Mutant: the score is the time of the renewal, not the expiry.
RenewWithoutTtl(n, cmd) ==
  /\ lease' = [c \in Conns |-> IF c \in cmd.conns THEN cmd.at ELSE lease[c]]
  /\ commands' = [commands EXCEPT ![n] = Tail(@)]
  /\ UNCHANGED <<view, viewTs>>

\* The pipelined ZADDs of flushLeaseRenewals.
Renew(n, cmd) ==
  /\ lease' = [c \in Conns |-> IF c \in cmd.conns THEN cmd.at + Ttl ELSE lease[c]]
  /\ commands' = [commands EXCEPT ![n] = Tail(@)]
  /\ UNCHANGED <<view, viewTs>>

\* The count is known, or 0 after an error: after a transition
\* publishPresenceUpdate sends an event with a fresh timestamp.
Counted(n, cmd) ==
  commands' = [commands EXCEPT ![n] =
    IF cmd.status = "none" THEN Tail(@)
    ELSE Append(Tail(@), EventCommand("publish", now, cmd.user, cmd.status))]

\* getUserConnectionCount prunes before it counts.
Count(n, cmd) ==
  /\ lease' = Pruned(cmd.user, cmd.at)
  /\ Counted(n, cmd)
  /\ UNCHANGED <<view, viewTs>>

\* PresenceEventTracker.isStale.
IsStale(u, ts) == ts <= viewTs[u]

\* PUBLISH, and handleInboundRedisEvent on a subscribed node.
Publish(n, cmd) ==
  /\ commands' = [commands EXCEPT ![n] = Tail(@)]
  /\ IF IsStale(cmd.user, cmd.at)
       THEN UNCHANGED <<view, viewTs>>
       ELSE /\ view' = [view EXCEPT ![cmd.user] = cmd.status]
            /\ viewTs' = [viewTs EXCEPT ![cmd.user] = cmd.at]
  /\ UNCHANGED lease

Execute(n) ==
  LET cmd == Head(commands[n])
  IN
  /\ commands[n] # <<>>
  /\ \/ cmd.op = "register" /\ Register(n, cmd)
     \/ cmd.op = "remove" /\ Remove(n, cmd)
     \/ cmd.op = "renew" /\ Renew(n, cmd)
     \/ cmd.op = "count" /\ Count(n, cmd)
     \/ cmd.op = "publish" /\ Publish(n, cmd)
  /\ UNCHANGED <<now, up, phase, nextFlush, resync, reconnects, failures, goneAt>>

\* A command fails: its handler logs a warning and ends, except that a count
\* that fails is taken to be 0.
Fail(n) ==
  LET cmd == Head(commands[n])
  IN
  /\ commands[n] # <<>> /\ failures < MaxFailures
  /\ failures' = failures + 1
  /\ IF cmd.op = "count" THEN Counted(n, cmd)
                         ELSE commands' = [commands EXCEPT ![n] = Tail(@)]
  /\ UNCHANGED <<now, up, phase, redis, nextFlush, resync, reconnects, goneAt>>

Next ==
  \/ Tick
  \/ \E c \in Conns : Connect(c) \/ Close(c) \/ ResyncOne(c)
  \/ \E n \in Nodes :
       Crash(n) \/ Flush(n) \/ RedisReconnect(n) \/ Execute(n) \/ Fail(n)

Spec == Init /\ [][Next]_vars

-----------------------------------------------------------------------------
(***************************************************************************)
(* Properties                                                              *)
(***************************************************************************)

\* Clocks, leases and commands have their types.
TypeOK ==
  /\ now \in Times /\ up \in SUBSET Nodes
  /\ phase \in [Conns -> {"new", "open", "gone"}]
  /\ lease \in [Conns -> 0..(MaxTime + Ttl)]
  /\ commands \in [Nodes -> Seq(Command)]
  /\ nextFlush \in [Nodes -> 0..(MaxTime + FlushInterval)]
  /\ resync \in [Nodes -> SUBSET Conns]
  /\ failures \in 0..MaxFailures /\ reconnects \in 0..failures
  /\ goneAt \in [Conns -> Times]
  /\ view \in [Users -> {"ONLINE", "OFFLINE"}] /\ viewTs \in [Users -> Times]

Registering(c) ==
  \E i \in DOMAIN commands[NodeOf[c]] :
    commands[NodeOf[c]][i].op = "register" /\ c \in commands[NodeOf[c]][i].conns

\* An open connection has an unexpired lease from the moment its registration
\* is executed until it closes: as long as no command fails and Redis answers
\* within MaxDelay, no renewal is late, whichever flushes overlap.
LeaseWhileOpen ==
  failures = 0 =>
    \A c \in Conns : phase[c] = "open" => Registering(c) \/ lease[c] > now

\* No ghost outlives the lease time: however commands are delayed, fail or are
\* repeated, and whether the connection closed or its node crashed, its lease
\* ends at most Ttl after that.
GhostsExpire ==
  \A c \in Conns : phase[c] = "gone" => lease[c] <= goneAt[c] + Ttl

\* Presence converges: once every command is through, the status other nodes
\* hold for a user says whether the user has an open connection (in a run of
\* the system without crashes, failures and expired leases).
PresenceConverges ==
  (up = Nodes /\ failures = 0 /\ \A n \in Nodes : commands[n] = <<>>) =>
    \A u \in Users :
      (view[u] = "ONLINE") <=> (\E c \in Conns : UserOf[c] = u /\ phase[c] = "open")

=============================================================================

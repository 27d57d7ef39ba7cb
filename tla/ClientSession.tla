---------------------------- MODULE ClientSession ----------------------------
(***************************************************************************)
(* One PulseClientSession, the sockets it opened, and what the dispatchers *)
(* at their other ends do with its frames.                                 *)
(*                                                                         *)
(* All handlers of the session share one state, whichever socket an event  *)
(* comes from; a late event of an old socket acts on the state of the new  *)
(* one.  transmitFrame always uses the current socket, this.ws.            *)
(*                                                                         *)
(* TCP keeps frames of one socket in order and may lose the last of them   *)
(* when it breaks.  The nodes answer without Redis presence (a frame is    *)
(* handled in one step; Membership has the handlers that wait), keep their *)
(* idempotency cache longer than the session lives (Idempotency has its    *)
(* limits), and never refuse a join for the room limit.                    *)
(***************************************************************************)
EXTENDS Naturals, FiniteSets, SequencesExt

CONSTANTS
  Rooms,
  Nodes,           \* the Pulse nodes behind serverUrl
  QueueCapacity,   \* queueCapacity
  MaxRetries,      \* maxRetries
  AutoReconnect,   \* autoReconnect
  Workloads,       \* the sequences of calls an application may make, each
                   \* with the room it is about
  MaxSockets,      \* bound on the calls of connect()
  MaxSends         \* bound on the calls of sendEnvelope()

Calls == {"connect", "disconnect", "message", "unacked", "join", "leave"}

ASSUME ClientAssumption ==
  /\ IsFiniteSet(Rooms) /\ Nodes # {}
  /\ QueueCapacity \in Nat \ {0} /\ MaxRetries \in Nat
  /\ AutoReconnect \in BOOLEAN
  /\ Workloads \subseteq Seq(Calls \X Rooms)
  /\ MaxSockets \in Nat /\ MaxSends \in Nat

VARIABLES
  todo,            \* calls the application has still to make
  state,           \* state
  ws,              \* the socket this.ws refers to; 0 is null
  isExplicitlyClosed,
  reconnectTimer, connectionTimeoutTimer,   \* armed or not
  closing,         \* the socket disconnect() waits for; 0 if none
  currentSeq,
  desiredRooms,
  inFlightQueue,   \* in insertion order; every entry has its timer armed
  sends,           \* kinds of the events sent so far; an event is its number
  settled,         \* how the promise of each event ended
  sock,            \* readyState of each socket
  up, down,        \* frames under way on each socket
  node,            \* node each socket leads to
  lastSeenSeq, joined,  \* of the Connection at the other end
  runs             \* how often each node executed each event

client == <<state, ws, isExplicitlyClosed, reconnectTimer,
            connectionTimeoutTimer, closing, currentSeq, desiredRooms>>
sending == <<inFlightQueue, sends, settled>>
server == <<node, lastSeenSeq, joined, runs>>
vars == <<todo, client, sending, sock, up, down, server>>

Sockets == 1..MaxSockets
Events == 1..MaxSends
Kinds == {"message", "join", "leave",
          "rejoin"}     \* the ROOM_BATCH_JOIN of resubscribeRooms

Frame == [kind : Kinds, ev : Events, rooms : SUBSET Rooms, seq : Nat]
InFlight == [frame : Frame, retries : 0..MaxRetries]
Hello == [ack |-> 0]    \* SYS_CONNECT_ACK
Ack(ev) == [ack |-> ev]

Init ==
  /\ todo \in Workloads
  /\ state = "DISCONNECTED" /\ ws = 0 /\ isExplicitlyClosed = FALSE
  /\ reconnectTimer = FALSE /\ connectionTimeoutTimer = FALSE /\ closing = 0
  /\ currentSeq = 0 /\ desiredRooms = {}
  /\ inFlightQueue = <<>> /\ sends = <<>> /\ settled = [e \in Events |-> "no"]
  /\ sock = [k \in Sockets |-> "unused"]
  /\ up = [k \in Sockets |-> <<>>] /\ down = [k \in Sockets |-> <<>>]
  /\ node \in [Sockets -> Nodes]
  /\ lastSeenSeq = [k \in Sockets |-> 0] /\ joined = [k \in Sockets |-> {}]
  /\ runs = [e \in Events |-> [n \in Nodes |-> 0]]

-----------------------------------------------------------------------------
(***************************************************************************)
(* Sending                                                                 *)
(***************************************************************************)

\* transmitFrame for each of a sequence of frames.
Transmit(frames) ==
  up' = IF ws # 0 /\ sock[ws] = "open" THEN [up EXCEPT ![ws] = @ \o frames]
                                       ELSE up

FramesOf(q) == [i \in DOMAIN q |-> q[i].frame]

\* flushRetryQueue of a queue, followed by setState('CONNECTED').
FlushAndConnect(q) ==
  LET renumbered ==
        [i \in DOMAIN q |-> [q[i] EXCEPT !.frame.seq = currentSeq + i]]
  IN /\ state' = "CONNECTED"
     /\ currentSeq' = currentSeq + Len(q)
     /\ inFlightQueue' = renumbered
     /\ Transmit(FramesOf(renumbered))

QueueFull == Len(inFlightQueue) >= QueueCapacity

\* sendEnvelope of a new event that asks for an ACK.
SendEnvelope(kind, rooms) ==
  LET f == [kind |-> kind, ev |-> Len(sends) + 1, rooms |-> rooms,
            seq |-> currentSeq + 1]
  IN /\ Len(sends) < MaxSends
     /\ sends' = Append(sends, kind)
     /\ currentSeq' = f.seq
     /\ inFlightQueue' = Append(inFlightQueue, [frame |-> f, retries |-> 0])
     /\ Transmit(<<f>>)

\* The application makes its next call.
NextCall(what) ==
  todo # <<>> /\ Head(todo)[1] = what /\ todo' = Tail(todo)

SendCall(what) ==
  /\ NextCall(what)
  /\ UNCHANGED <<state, ws, isExplicitlyClosed, reconnectTimer,
       connectionTimeoutTimer, closing, settled, sock, down, server>>

\* sendRoomMessage.
SendMessage ==
  /\ SendCall("message")
  /\ IF QueueFull THEN UNCHANGED <<currentSeq, inFlightQueue, sends, up>>
                  ELSE SendEnvelope("message", {Head(todo)[2]})
  /\ UNCHANGED desiredRooms

\* sendRoomMessage with ackRequired = false: numbered, sent, forgotten.
SendUnacked ==
  /\ SendCall("unacked")
  /\ IF QueueFull THEN UNCHANGED <<currentSeq, sends, up>>
     ELSE /\ Len(sends) < MaxSends
          /\ sends' = Append(sends, "message")
          /\ currentSeq' = currentSeq + 1
          /\ Transmit(<<[kind |-> "message", ev |-> Len(sends'),
                         rooms |-> {Head(todo)[2]}, seq |-> currentSeq']>>)
  /\ UNCHANGED <<desiredRooms, inFlightQueue>>

\* joinRoom and leaveRoom: desiredRooms changes even if the queue is full.
JoinOrLeave(kind) ==
  /\ SendCall(kind)
  /\ desiredRooms' = IF kind = "join" THEN desiredRooms \cup {Head(todo)[2]}
                                      ELSE desiredRooms \ {Head(todo)[2]}
  /\ IF QueueFull
       THEN UNCHANGED <<currentSeq, inFlightQueue, sends, up>>
       ELSE SendEnvelope(kind, {Head(todo)[2]})

\* An entry leaves the queue; when it is the ROOM_BATCH_JOIN that
\* resubscribeRooms waits for, that goes on, whatever the outcome.
Settle(i, how) ==
  LET f == inFlightQueue[i].frame
      rest == RemoveAt(inFlightQueue, i)
  IN /\ settled' = [settled EXCEPT ![f.ev] = how]
     /\ IF f.kind = "rejoin"
          THEN FlushAndConnect(rest)
          ELSE inFlightQueue' = rest /\ UNCHANGED <<state, currentSeq, up>>

Tracked(ev) == \E i \in DOMAIN inFlightQueue : inFlightQueue[i].frame.ev = ev

\* Mutant: a retry is not counted.
AckTimeoutForever(ev) ==
  \E i \in DOMAIN inFlightQueue :
    /\ inFlightQueue[i].frame.ev = ev
    /\ Transmit(<<inFlightQueue[i].frame>>)
    /\ UNCHANGED <<todo, client, inFlightQueue, settled, sends, sock, down, server>>

\* The timer of an entry fires: the same frame again, or DELIVERY_TIMEOUT.
AckTimeout(ev) ==
  \E i \in DOMAIN inFlightQueue :
    /\ inFlightQueue[i].frame.ev = ev
    /\ IF inFlightQueue[i].retries < MaxRetries
         THEN /\ inFlightQueue' = [inFlightQueue EXCEPT ![i].retries = @ + 1]
              /\ Transmit(<<inFlightQueue[i].frame>>)
              /\ UNCHANGED <<state, currentSeq, settled>>
         ELSE Settle(i, "rejected")
    /\ UNCHANGED <<todo, ws, isExplicitlyClosed, reconnectTimer,
         connectionTimeoutTimer, closing, desiredRooms, sends, sock, down, server>>

-----------------------------------------------------------------------------
(***************************************************************************)
(* Connecting                                                              *)
(***************************************************************************)

\* connect().
Open(k) ==
  /\ sock[k] = "unused" /\ \A j \in 1..(k - 1) : sock[j] # "unused"
  /\ state' = "CONNECTING" /\ ws' = k
  /\ isExplicitlyClosed' = FALSE
  /\ reconnectTimer' = FALSE /\ connectionTimeoutTimer' = TRUE
  /\ currentSeq' = 0
  /\ sock' = [sock EXCEPT ![k] = "connecting"]
  /\ UNCHANGED <<closing, desiredRooms, sending, up, down, server>>

\* Called by an application that sees the session DISCONNECTED and does not
\* wait for a disconnect().
Connect(k) ==
  /\ NextCall("connect")
  /\ state = "DISCONNECTED" /\ closing = 0
  /\ Open(k)

\* Called by the reconnect timer.
Reconnect(k) ==
  /\ reconnectTimer /\ ~isExplicitlyClosed
  /\ Open(k)
  /\ UNCHANGED todo

\* The open event; the node registers the connection and sends SYS_CONNECT_ACK.
Opened(k) ==
  /\ sock[k] = "connecting"
  /\ sock' = [sock EXCEPT ![k] = "open"]
  /\ state' = "AUTHENTICATING"
  /\ down' = [down EXCEPT ![k] = <<Hello>>]
  /\ UNCHANGED <<todo, ws, isExplicitlyClosed, reconnectTimer, connectionTimeoutTimer,
       closing, currentSeq, desiredRooms, sending, up, server>>

\* handleDisconnectOrError arms the reconnect timer, or returns.
ScheduleReconnect ==
  reconnectTimer' = IF isExplicitlyClosed \/ ~AutoReconnect THEN reconnectTimer
                                                            ELSE TRUE

\* What the close handler does to the state: only a session that was CONNECTED
\* reconnects.
ClosedState ==
  IF state = "CONNECTED" /\ ~isExplicitlyClosed
    THEN /\ ScheduleReconnect
         /\ state' = IF AutoReconnect THEN "RECONNECTING_BACKOFF"
                                      ELSE "DISCONNECTED"
    ELSE state' = "DISCONNECTED" /\ UNCHANGED reconnectTimer

\* A connection attempt fails: the error event, which schedules a reconnect,
\* and the close event after it.
ConnectFails(k) ==
  /\ sock[k] = "connecting"
  /\ sock' = [sock EXCEPT ![k] = "closed"]
  /\ connectionTimeoutTimer' = FALSE
  /\ IF state = "CONNECTING" THEN ScheduleReconnect /\ state' = "DISCONNECTED"
                             ELSE ClosedState
  /\ UNCHANGED <<todo, ws, isExplicitlyClosed, closing, currentSeq, desiredRooms,
       sending, up, down, server>>

\* The connection timeout: this.ws is terminated and its close event follows.
ConnectionTimeout ==
  /\ connectionTimeoutTimer
  /\ connectionTimeoutTimer' = FALSE
  /\ IF state \in {"CONNECTING", "AUTHENTICATING"}
       THEN /\ sock' = [sock EXCEPT ![ws] = "closed"]
            /\ down' = [down EXCEPT ![ws] = <<>>]
            /\ ScheduleReconnect
            /\ state' = "DISCONNECTED"
       ELSE UNCHANGED <<sock, down, reconnectTimer, state>>
  /\ UNCHANGED <<todo, ws, isExplicitlyClosed, closing, currentSeq, desiredRooms,
       sending, up, server>>

\* SYS_CONNECT_ACK: resubscribeRooms when rooms are desired, else flush.  With
\* a full queue the resubscription fails and the session goes on without it.
ReceiveHello(k) ==
  /\ down[k] # <<>> /\ Head(down[k]) = Hello
  /\ down' = [down EXCEPT ![k] = Tail(@)]
  /\ connectionTimeoutTimer' = FALSE
  /\ IF desiredRooms = {} \/ QueueFull
       THEN FlushAndConnect(inFlightQueue) /\ UNCHANGED sends
       ELSE SendEnvelope("rejoin", desiredRooms) /\ state' = "RESUBSCRIBING_ROOMS"
  /\ UNCHANGED <<todo, ws, isExplicitlyClosed, reconnectTimer, closing, desiredRooms,
       settled, sock, server>>

\* Mutant: the correlation id is not looked up.
CorrelatedFirst(a) == IF inFlightQueue = <<>> THEN a.ack
                                              ELSE inFlightQueue[1].frame.ev

\* The event an ACK is for.
Correlated(a) == a.ack

\* An ACK resolves the event it names, if that is still in flight.
ReceiveAck(k) ==
  /\ down[k] # <<>> /\ Head(down[k]) # Hello
  /\ down' = [down EXCEPT ![k] = Tail(@)]
  /\ IF Tracked(Correlated(Head(down[k])))
       THEN \E i \in DOMAIN inFlightQueue :
              /\ inFlightQueue[i].frame.ev = Correlated(Head(down[k]))
              /\ Settle(i, "resolved")
       ELSE UNCHANGED <<state, currentSeq, inFlightQueue, settled, up>>
  /\ UNCHANGED <<todo, ws, isExplicitlyClosed, reconnectTimer, connectionTimeoutTimer,
       closing, desiredRooms, sends, sock, server>>

\* The close event of a socket, which also ends a disconnect() waiting for it.
SocketCloses(k) ==
  /\ sock[k] \in {"open", "closing"}
  /\ sock' = [sock EXCEPT ![k] = "closed"]
  /\ down' = [down EXCEPT ![k] = <<>>]
  /\ connectionTimeoutTimer' = FALSE
  /\ ClosedState
  /\ ws' = IF closing = k THEN 0 ELSE ws
  /\ closing' = IF closing = k THEN 0 ELSE closing
  /\ UNCHANGED <<todo, isExplicitlyClosed, currentSeq, desiredRooms, sending, up, server>>

\* Mutant: only the connection timeout is cleared.
ClearConnectionTimeout ==
  connectionTimeoutTimer' = FALSE /\ UNCHANGED reconnectTimer

\* clearReconnectTimer and clearConnectionTimeout.
ClearTimers == reconnectTimer' = FALSE /\ connectionTimeoutTimer' = FALSE

\* disconnect() up to its await, or to its end when the socket is not live.  A
\* resubscribeRooms that was waiting is rejected with the rest of the queue and
\* sets its state after that.
Disconnect ==
  LET live == ws # 0 /\ sock[ws] \in {"open", "connecting"}
      rejoining == \E i \in DOMAIN inFlightQueue :
                     inFlightQueue[i].frame.kind = "rejoin"
  IN
  /\ NextCall("disconnect")
  /\ closing = 0      \* disconnect() is not called twice at a time
  /\ isExplicitlyClosed' = TRUE
  /\ ClearTimers
  /\ settled' = [e \in Events |-> IF Tracked(e) THEN "rejected" ELSE settled[e]]
  /\ inFlightQueue' = <<>>
  /\ sock' = IF live THEN [sock EXCEPT ![ws] = "closing"] ELSE sock
  /\ closing' = IF live THEN ws ELSE 0
  /\ ws' = IF live THEN ws ELSE 0
  /\ state' = IF rejoining THEN "CONNECTED"
                           ELSE IF live THEN state ELSE "DISCONNECTED"
  /\ UNCHANGED <<currentSeq, desiredRooms, sends, up, down, server>>

\* disconnect() waits no longer than 200 ms.
DisconnectGivesUp ==
  /\ closing # 0
  /\ closing' = 0 /\ ws' = 0 /\ state' = "DISCONNECTED"
  /\ UNCHANGED <<todo, isExplicitlyClosed, reconnectTimer, connectionTimeoutTimer,
       currentSeq, desiredRooms, sending, sock, up, down, server>>

-----------------------------------------------------------------------------
(***************************************************************************)
(* The other end (dispatchRawMessage)                                      *)
(***************************************************************************)

\* Mutant: the idempotency cache is not consulted.
NoDuplicates(k, f) == FALSE

\* The idempotency cache of the node knows the message.
IsDuplicate(k, f) == f.kind = "message" /\ runs[f.ev][node[k]] > 0

\* A new event that passes the sequence check and, if it is a message, the
\* membership check.  Anything else is answered by SYS_ERROR, which the session
\* only hands to the application.
Accepted(k, f) ==
  /\ f.seq >= lastSeenSeq[k]
  /\ f.kind = "message" => f.rooms \subseteq joined[k]

\* The node handles the next frame of a socket, which the client may have seen
\* closed by then; frames that are lost with their socket are never handled.
Dispatch(k) ==
  LET f == Head(up[k])
      fresh == ~IsDuplicate(k, f) /\ Accepted(k, f)
      answered == IsDuplicate(k, f) \/ fresh
  IN
  /\ up[k] # <<>>
  /\ up' = [up EXCEPT ![k] = Tail(@)]
  /\ lastSeenSeq' = [lastSeenSeq EXCEPT ![k] = IF fresh THEN f.seq ELSE @]
  /\ joined' = [joined EXCEPT ![k] =
       IF ~fresh \/ f.kind = "message" THEN @
       ELSE IF f.kind = "leave" THEN @ \ f.rooms ELSE @ \cup f.rooms]
  /\ runs' = IF fresh THEN [runs EXCEPT ![f.ev][node[k]] = @ + 1] ELSE runs
  /\ down' = IF answered /\ sock[k] \in {"open", "closing"}
               THEN [down EXCEPT ![k] = Append(@, Ack(f.ev))] ELSE down
  /\ UNCHANGED <<todo, client, sending, sock, node>>

-----------------------------------------------------------------------------
Next ==
  \/ SendMessage \/ SendUnacked \/ JoinOrLeave("join") \/ JoinOrLeave("leave")
  \/ \E ev \in Events : AckTimeout(ev)
  \/ \E k \in Sockets :
       \/ Connect(k) \/ Reconnect(k) \/ Opened(k) \/ ConnectFails(k)
       \/ ReceiveHello(k) \/ ReceiveAck(k) \/ SocketCloses(k)
       \/ Dispatch(k)
  \/ ConnectionTimeout \/ Disconnect \/ DisconnectGivesUp

Spec == Init /\ [][Next]_vars

\* The ACK timers fire; neither the network nor the nodes owe anything.
FairSpec == Spec /\ \A ev \in Events : WF_vars(AckTimeout(ev))

-----------------------------------------------------------------------------
(***************************************************************************)
(* Properties                                                              *)
(***************************************************************************)

\* Fields, queues and frames have their types; an entry is retried at most
\* maxRetries times.
TypeOK ==
  /\ todo \in Seq(Calls \X Rooms)
  /\ state \in {"CONNECTED", "DISCONNECTED", "RECONNECTING_BACKOFF",
                "CONNECTING", "AUTHENTICATING", "RESUBSCRIBING_ROOMS"}
  /\ ws \in 0..MaxSockets /\ closing \in 0..MaxSockets
  /\ isExplicitlyClosed \in BOOLEAN
  /\ reconnectTimer \in BOOLEAN /\ connectionTimeoutTimer \in BOOLEAN
  /\ currentSeq \in Nat /\ desiredRooms \in SUBSET Rooms
  /\ inFlightQueue \in Seq(InFlight) /\ Len(inFlightQueue) <= QueueCapacity
  /\ sends \in Seq(Kinds) /\ Len(sends) <= MaxSends
  /\ settled \in [Events -> {"no", "resolved", "rejected"}]
  /\ sock \in [Sockets -> {"unused", "connecting", "open", "closing", "closed"}]
  /\ up \in [Sockets -> Seq(Frame)]
  /\ down \in [Sockets -> Seq([ack : 0..MaxSends])]
  /\ node \in [Sockets -> Nodes]
  /\ lastSeenSeq \in [Sockets -> Nat] /\ joined \in [Sockets -> SUBSET Rooms]
  /\ runs \in [Events -> [Nodes -> Nat]]

\* A promise that sendEnvelope resolved stands for an event some node executed,
\* whatever retries, lost sockets and late ACKs lie in between.
AckedWasExecuted ==
  \A ev \in Events : settled[ev] = "resolved" => \E n \in Nodes : runs[ev][n] > 0

\* No node executes a message twice, however often the session sends it: by
\* retry, by flush, and on sockets that overlap.
OncePerNode ==
  \A ev \in DOMAIN sends : sends[ev] = "message" =>
    \A n \in Nodes : runs[ev][n] <= 1

\* After disconnect() no timer is left to open or tear down a socket, and no late
\* close or error event arms one until the application calls connect() again.
StaysClosed == isExplicitlyClosed => ~reconnectTimer /\ ~connectionTimeoutTimer

\* The promise of every event in flight is settled, online or offline.
EverySendSettles == \A ev \in Events : Tracked(ev) ~> ~Tracked(ev)

\* A session that was not closed by the application and has no live socket has
\* a reconnect scheduled.
NeverStranded ==
  /\ AutoReconnect /\ ~isExplicitlyClosed
  /\ ws # 0 /\ sock[ws] = "closed"
  => reconnectTimer
=============================================================================

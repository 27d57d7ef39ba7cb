----------------------------- MODULE ClientProofs -----------------------------
(***************************************************************************)
(* Proofs about the two clients: ClientSession, for every number of        *)
(* sockets, nodes, events and retries, every queue capacity and every      *)
(* application; and DashboardSocket, for every number of sockets, rooms,   *)
(* correlations and attempts.                                              *)
(***************************************************************************)
EXTENDS ClientSession, DashboardSocket, SequenceTheorems, TLAPS

\* Frames, and entries of the queue, that carry events as they were sent.
AsSent(fs, sn) ==
  /\ fs \in Seq(Frame)
  /\ \A i \in DOMAIN fs : fs[i].ev \in DOMAIN sn /\ sn[fs[i].ev] = fs[i].kind

Tracks(q, sn) ==
  /\ q \in Seq(InFlight)
  /\ \A i \in DOMAIN q : q[i].frame.ev \in DOMAIN sn /\ sn[q[i].frame.ev] = q[i].frame.kind

\* The session and the wires carry events as they were sent.
Genuine ==
  /\ sends \in Seq(Kinds) /\ Len(sends) <= MaxSends
  /\ Tracks(inFlightQueue, sends) /\ Len(inFlightQueue) <= QueueCapacity
  /\ up \in [Sockets -> Seq(Frame)] /\ \A k \in Sockets : AsSent(up[k], sends)

Ran(ev) == \E n \in Nodes : runs[ev][n] > 0

\* Nodes have executed only what was sent, messages once, and acknowledge and
\* settle nothing else.
Truthful ==
  /\ settled \in [Events -> {"no", "resolved", "rejected"}]
  /\ down \in [Sockets -> Seq([ack : 0..MaxSends])]
  /\ runs \in [Events -> [Nodes -> Nat]]
  /\ \A ev \in Events \ DOMAIN sends, n \in Nodes : runs[ev][n] = 0
  /\ \A k \in Sockets : \A i \in DOMAIN down[k] : down[k][i].ack # 0 => Ran(down[k][i].ack)
  /\ AckedWasExecuted /\ OncePerNode

\* The fields that are no queues.
Fields ==
  /\ todo \in Seq(Calls \X Rooms)
  /\ state \in {"CONNECTED", "DISCONNECTED", "RECONNECTING_BACKOFF",
                "CONNECTING", "AUTHENTICATING", "RESUBSCRIBING_ROOMS"}
  /\ ws \in 0..MaxSockets /\ closing \in 0..MaxSockets
  /\ isExplicitlyClosed \in BOOLEAN
  /\ reconnectTimer \in BOOLEAN /\ connectionTimeoutTimer \in BOOLEAN
  /\ currentSeq \in Nat /\ desiredRooms \in SUBSET Rooms
  /\ sock \in [Sockets -> {"unused", "connecting", "open", "closing", "closed"}]
  /\ node \in [Sockets -> Nodes]
  /\ lastSeenSeq \in [Sockets -> Nat] /\ joined \in [Sockets -> SUBSET Rooms]
  /\ StaysClosed

SessionInv == Fields /\ Genuine /\ Truthful

-----------------------------------------------------------------------------
(***************************************************************************)
(* Frames and entries.                                                     *)
(***************************************************************************)

\* Two runs of frames as they were sent make one.
LEMMA AsSentConcat ==
  ASSUME NEW sn, NEW a, NEW b, AsSent(a, sn), AsSent(b, sn)
  PROVE  AsSent(a \o b, sn)
<1>1. a \in Seq(Frame) /\ b \in Seq(Frame)
  BY DEF AsSent
<1>2. a \o b \in Seq(Frame)
  BY <1>1, ConcatProperties
<1>3. \A i \in DOMAIN (a \o b) :
        \/ i \in DOMAIN a /\ (a \o b)[i] = a[i]
        \/ i - Len(a) \in DOMAIN b /\ (a \o b)[i] = b[i - Len(a)]
  BY <1>1
<1> QED
  BY <1>2, <1>3 DEF AsSent

\* So does what is left behind the first frame a node has read.
LEMMA AsSentTail ==
  ASSUME NEW sn, NEW a, AsSent(a, sn), a # <<>>
  PROVE  /\ AsSent(Tail(a), sn)
         /\ Head(a) \in Frame /\ Head(a).ev \in DOMAIN sn /\ sn[Head(a).ev] = Head(a).kind
<1>1. a \in Seq(Frame)
  BY DEF AsSent
<1>2. Tail(a) \in Seq(Frame) /\ Head(a) \in Frame /\ Head(a) = a[1] /\ 1 \in DOMAIN a
  BY <1>1
<1>3. \A i \in DOMAIN Tail(a) : i + 1 \in DOMAIN a /\ Tail(a)[i] = a[i + 1]
  BY <1>1
<1> QED
  BY <1>2, <1>3 DEF AsSent

\* An event more is sent.
LEMMA SentMore ==
  ASSUME NEW sn \in Seq(Kinds), NEW kind \in Kinds
  PROVE  /\ \A fs : AsSent(fs, sn) => AsSent(fs, Append(sn, kind))
         /\ \A q : Tracks(q, sn) => Tracks(q, Append(sn, kind))
         /\ Append(sn, kind) \in Seq(Kinds) /\ Len(Append(sn, kind)) = Len(sn) + 1
         /\ Len(sn) + 1 \in DOMAIN Append(sn, kind)
         /\ Append(sn, kind)[Len(sn) + 1] = kind
         /\ DOMAIN sn \subseteq DOMAIN Append(sn, kind)
         /\ \A i \in DOMAIN Append(sn, kind) :
              \/ i \in DOMAIN sn /\ Append(sn, kind)[i] = sn[i]
              \/ i = Len(sn) + 1
<1> DEFINE more == Append(sn, kind)
<1>1. \A i \in DOMAIN sn : i \in DOMAIN more /\ more[i] = sn[i]
  OBVIOUS
<1>2. /\ more \in Seq(Kinds) /\ Len(more) = Len(sn) + 1
      /\ Len(sn) + 1 \in DOMAIN more /\ more[Len(sn) + 1] = kind
      /\ \A i \in DOMAIN more : i \in DOMAIN sn \/ i = Len(sn) + 1
  OBVIOUS
<1> HIDE DEF more
<1>3. \A fs : AsSent(fs, sn) => AsSent(fs, more)
  BY <1>1 DEF AsSent
<1>4. \A q : Tracks(q, sn) => Tracks(q, more)
  BY <1>1 DEF Tracks
<1> QED
  BY <1>1, <1>2, <1>3, <1>4 DEF more

\* A new frame, alone and in the queue.
LEMMA NewFrame ==
  ASSUME NEW sn \in Seq(Kinds), NEW f \in Frame, f.ev \in DOMAIN sn, sn[f.ev] = f.kind
  PROVE  /\ AsSent(<<f>>, sn)
         /\ MaxRetries \in Nat =>
              \A q : Tracks(q, sn) => Tracks(Append(q, [frame |-> f, retries |-> 0]), sn)
<1>1. AsSent(<<f>>, sn)
  BY DEF AsSent
<1>2. ASSUME NEW q, Tracks(q, sn), MaxRetries \in Nat
      PROVE  Tracks(Append(q, [frame |-> f, retries |-> 0]), sn)
  <2> DEFINE x == [frame |-> f, retries |-> 0]
  <2>1. x \in InFlight /\ x.frame = f
    BY <1>2 DEF InFlight
  <2> HIDE DEF x
  <2>2. q \in Seq(InFlight)
    BY <1>2 DEF Tracks
  <2>3. /\ Append(q, x) \in Seq(InFlight)
        /\ \A i \in DOMAIN Append(q, x) :
             (i \in DOMAIN q /\ Append(q, x)[i] = q[i]) \/ Append(q, x)[i] = x
    BY <2>1, <2>2
  <2>4. Tracks(Append(q, x), sn)
    BY <1>2, <2>1, <2>3 DEF Tracks
  <2> QED
    BY <2>4 DEF x
<1> QED
  BY <1>1, <1>2

\* An entry leaves the queue.
LEMMA TracksRemoved ==
  ASSUME NEW sn, NEW q, Tracks(q, sn), NEW p \in DOMAIN q
  PROVE  /\ Tracks(RemoveAt(q, p), sn) /\ Len(RemoveAt(q, p)) = Len(q) - 1
         /\ Len(q) \in Nat /\ Len(RemoveAt(q, p)) \in Nat
         /\ q[p] \in InFlight
<1>1. q \in Seq(InFlight) /\ p \in 1..Len(q) /\ Len(q) \in Nat
  BY DEF Tracks
<1> DEFINE a == SubSeq(q, 1, p - 1)
           b == SubSeq(q, p + 1, Len(q))
<1>2. /\ a \in Seq(InFlight) /\ Len(a) = p - 1
      /\ \A i \in 1..(p - 1) : a[i] = q[i]
  BY <1>1
<1>3. /\ b \in Seq(InFlight) /\ Len(b) = Len(q) - p
      /\ \A i \in 1..(Len(q) - p) : b[i] = q[p + i]
  BY <1>1
<1> HIDE DEF a, b
<1>4. /\ a \o b \in Seq(InFlight) /\ Len(a \o b) = Len(q) - 1
      /\ \A i \in 1..(p - 1) : (a \o b)[i] = a[i]
      /\ \A i \in p..(Len(q) - 1) : (a \o b)[i] = b[i - (p - 1)]
  BY <1>1, <1>2, <1>3
<1>5. \A i \in DOMAIN (a \o b) : \E j \in DOMAIN q : (a \o b)[i] = q[j]
  <2> SUFFICES ASSUME NEW i \in DOMAIN (a \o b)
               PROVE  \E j \in DOMAIN q : (a \o b)[i] = q[j]
    OBVIOUS
  <2>1. i \in 1..(Len(q) - 1)
    BY <1>4
  <2>2. CASE i < p
    BY <1>1, <1>2, <1>4, <2>1, <2>2
  <2>3. CASE ~(i < p)
    <3>1. i - (p - 1) \in 1..(Len(q) - p) /\ i \in p..(Len(q) - 1)
      BY <1>1, <2>1, <2>3
    <3>2. (a \o b)[i] = q[p + (i - (p - 1))] /\ p + (i - (p - 1)) \in DOMAIN q
      BY <1>1, <1>3, <1>4, <3>1
    <3> QED
      BY <3>2
  <2> QED
    BY <2>2, <2>3
<1>6. RemoveAt(q, p) = a \o b
  BY DEF RemoveAt, a, b
<1>7. Tracks(a \o b, sn)
  BY <1>4, <1>5 DEF Tracks
<1>8. Len(q) - 1 \in Nat
  BY <1>1
<1> QED
  BY <1>1, <1>4, <1>6, <1>7, <1>8

\* flushRetryQueue numbers the frames of the queue anew.
LEMMA TracksRenumbered ==
  ASSUME NEW sn, NEW q, Tracks(q, sn), NEW s \in Nat, NEW r,
         r = [i \in DOMAIN q |-> [q[i] EXCEPT !.frame.seq = s + i]]
  PROVE  Tracks(r, sn) /\ Len(r) = Len(q) /\ AsSent(FramesOf(r), sn) /\ Len(q) \in Nat
<1>1. q \in Seq(InFlight) /\ DOMAIN q = 1..Len(q) /\ Len(q) \in Nat
  BY DEF Tracks
<1>2. ASSUME NEW i \in DOMAIN q
      PROVE  /\ r[i] \in InFlight /\ r[i].frame \in Frame
             /\ r[i].frame.ev = q[i].frame.ev /\ r[i].frame.kind = q[i].frame.kind
  <2>1. q[i] \in InFlight /\ s + i \in Nat
    BY <1>1
  <2>2. q[i].frame \in Frame /\ q[i].retries \in 0..MaxRetries
        /\ q[i] = [frame |-> q[i].frame, retries |-> q[i].retries]
    BY <2>1 DEF InFlight
  <2>3. r[i] = [q[i] EXCEPT !.frame = [q[i].frame EXCEPT !.seq = s + i]]
    OBVIOUS
  <2> DEFINE f == [q[i].frame EXCEPT !.seq = s + i]
  <2>4. f \in Frame /\ f.ev = q[i].frame.ev /\ f.kind = q[i].frame.kind
    BY <2>1, <2>2 DEF Frame
  <2> HIDE DEF f
  <2>5. r[i] \in InFlight /\ r[i].frame = f
    BY <2>1, <2>2, <2>3, <2>4 DEF InFlight, f
  <2> QED
    BY <2>4, <2>5
<1>3. DOMAIN r = 1..Len(q)
  BY <1>1
<1>4. r \in Seq(InFlight) /\ Len(r) = Len(q)
  <2>1. r \in [1..Len(q) -> InFlight]
    BY <1>1, <1>2
  <2> QED
    BY <1>1, <2>1, IsASeq, LenProperties
<1>5. FramesOf(r) \in Seq(Frame) /\ DOMAIN FramesOf(r) = DOMAIN q
      /\ \A i \in DOMAIN q : FramesOf(r)[i] = r[i].frame
  <2>1. FramesOf(r) \in [1..Len(q) -> Frame]
    BY <1>1, <1>2, <1>3 DEF FramesOf
  <2>2. FramesOf(r) \in Seq(Frame)
    BY <1>1, <2>1, IsASeq
  <2> QED
    BY <1>1, <1>3, <2>2 DEF FramesOf
<1>6. Tracks(r, sn)
  <2>1. \A i \in DOMAIN q : q[i].frame.ev \in DOMAIN sn /\ sn[q[i].frame.ev] = q[i].frame.kind
    BY DEF Tracks
  <2>2. DOMAIN r = DOMAIN q
    BY <1>1, <1>3
  <2>3. \A i \in DOMAIN r : r[i].frame.ev \in DOMAIN sn /\ sn[r[i].frame.ev] = r[i].frame.kind
    BY <1>2, <2>1, <2>2
  <2> QED
    BY <1>4, <2>3 DEF Tracks
<1>7. AsSent(FramesOf(r), sn)
  <2>1. \A i \in DOMAIN q : r[i].frame.ev \in DOMAIN sn /\ sn[r[i].frame.ev] = r[i].frame.kind
    BY <1>1, <1>3, <1>6 DEF Tracks
  <2>2. PICK fs : fs = FramesOf(r)
    OBVIOUS
  <2>3. \A i \in DOMAIN fs : fs[i].ev \in DOMAIN sn /\ sn[fs[i].ev] = fs[i].kind
    <3> SUFFICES ASSUME NEW i \in DOMAIN fs
                 PROVE  fs[i].ev \in DOMAIN sn /\ sn[fs[i].ev] = fs[i].kind
      OBVIOUS
    <3>1. i \in DOMAIN q /\ fs[i] = r[i].frame
      BY <1>5, <2>2
    <3> QED
      BY <2>1, <3>1
  <2> QED
    BY <1>5, <2>2, <2>3 DEF AsSent
<1> QED
  BY <1>1, <1>4, <1>6, <1>7

\* The timer of an entry fires once more.
LEMMA TracksRetried ==
  ASSUME NEW sn, NEW q, Tracks(q, sn), NEW p \in DOMAIN q, MaxRetries \in Nat,
         q[p].retries < MaxRetries
  PROVE  /\ Tracks([q EXCEPT ![p].retries = @ + 1], sn)
         /\ Len([q EXCEPT ![p].retries = @ + 1]) = Len(q)
         /\ AsSent(<<q[p].frame>>, sn)
<1>1. q \in Seq(InFlight) /\ q[p] \in InFlight
  BY DEF Tracks
<1> DEFINE x == [q[p] EXCEPT !.retries = q[p].retries + 1]
<1>2. x \in InFlight /\ x.frame = q[p].frame /\ q[p].frame \in Frame
  BY <1>1 DEF InFlight
<1>3. [q EXCEPT ![p].retries = @ + 1] = [q EXCEPT ![p] = x]
  OBVIOUS
<1> HIDE DEF x
<1> DEFINE r == [q EXCEPT ![p] = x]
<1>4. r \in Seq(InFlight) /\ Len(r) = Len(q) /\ DOMAIN r = DOMAIN q
      /\ \A i \in DOMAIN q : r[i] = IF i = p THEN x ELSE q[i]
  BY <1>1, <1>2
<1> HIDE DEF r
<1>5. Tracks(r, sn)
  BY <1>2, <1>4 DEF Tracks
<1>6. AsSent(<<q[p].frame>>, sn)
  BY <1>2 DEF Tracks, AsSent
<1> QED
  BY <1>3, <1>4, <1>5, <1>6 DEF r

-----------------------------------------------------------------------------
(***************************************************************************)
(* What the session sends.                                                 *)
(***************************************************************************)

\* Writing frames as they were sent to the current socket, or dropping them
\* without one, keeps the wires as they were sent.
LEMMA TransmitKeeps ==
  ASSUME NEW sn, NEW fs, AsSent(fs, sn), Transmit(fs), ws \in 0..MaxSockets,
         up \in [Sockets -> Seq(Frame)], \A k \in Sockets : AsSent(up[k], sn),
         MaxSockets \in Nat
  PROVE  up' \in [Sockets -> Seq(Frame)] /\ \A k \in Sockets : AsSent(up'[k], sn)
<1>1. CASE up' = up
  BY <1>1
<1>2. CASE ws # 0 /\ up' = [up EXCEPT ![ws] = up[ws] \o fs]
  <2>1. ws \in Sockets
    BY <1>2 DEF Sockets
  <2>2. AsSent(up[ws] \o fs, sn)
    BY <2>1, AsSentConcat
  <2>3. up[ws] \o fs \in Seq(Frame)
    BY <2>2 DEF AsSent
  <2> QED
    BY <1>2, <2>1, <2>2, <2>3
<1> QED
  BY <1>1, <1>2 DEF Transmit

\* flushRetryQueue renumbers what is in the queue and sends it again, which
\* changes no event.
LEMMA FlushKeeps ==
  ASSUME Fields, Genuine, NEW q, Tracks(q, sends), Len(q) <= QueueCapacity,
         FlushAndConnect(q), sends' = sends
  PROVE  Genuine' /\ currentSeq' \in Nat /\ state' = "CONNECTED"
<1> DEFINE r == [i \in DOMAIN q |-> [q[i] EXCEPT !.frame.seq = currentSeq + i]]
<1>1. /\ state' = "CONNECTED" /\ currentSeq' = currentSeq + Len(q)
      /\ inFlightQueue' = r /\ Transmit(FramesOf(r))
  BY DEF FlushAndConnect
<1>2. currentSeq \in Nat /\ ws \in 0..MaxSockets /\ MaxSockets \in Nat
  BY ClientAssumption DEF Fields
<1>3. Tracks(r, sends) /\ Len(r) = Len(q) /\ AsSent(FramesOf(r), sends) /\ Len(q) \in Nat
  BY <1>2, TracksRenumbered
<1> HIDE DEF r
<1>4. up' \in [Sockets -> Seq(Frame)] /\ \A k \in Sockets : AsSent(up'[k], sends)
  BY <1>1, <1>2, <1>3, TransmitKeeps DEF Genuine
<1>5. currentSeq' \in Nat
  BY <1>1, <1>2, <1>3
<1> QED
  BY <1>1, <1>3, <1>4, <1>5 DEF Genuine

\* sendEnvelope queues and sends its event as it was asked to.
LEMMA EnvelopeKeeps ==
  ASSUME Fields, Genuine, NEW kind \in Kinds, NEW rooms \in SUBSET Rooms,
         ~QueueFull, SendEnvelope(kind, rooms)
  PROVE  /\ Genuine' /\ currentSeq' \in Nat
         /\ sends' = Append(sends, kind) /\ Len(sends) < MaxSends
<1> DEFINE f == [kind |-> kind, ev |-> Len(sends) + 1, rooms |-> rooms,
                 seq |-> currentSeq + 1]
           x == [frame |-> f, retries |-> 0]
<1>1. /\ Len(sends) < MaxSends /\ sends' = Append(sends, kind)
      /\ currentSeq' = f.seq /\ inFlightQueue' = Append(inFlightQueue, x)
      /\ Transmit(<<f>>)
  BY DEF SendEnvelope
<1>2. /\ currentSeq \in Nat /\ ws \in 0..MaxSockets /\ MaxSockets \in Nat
      /\ MaxRetries \in Nat /\ MaxSends \in Nat /\ QueueCapacity \in Nat
      /\ sends \in Seq(Kinds) /\ Len(sends) \in Nat
  BY ClientAssumption DEF Fields, Genuine
<1>3. f \in Frame /\ f.ev = Len(sends) + 1 /\ f.kind = kind /\ f.seq = currentSeq + 1
  BY <1>1, <1>2 DEF Frame, Events
<1> HIDE DEF f
<1>4. /\ sends' \in Seq(Kinds) /\ Len(sends') = Len(sends) + 1
      /\ f.ev \in DOMAIN sends' /\ sends'[f.ev] = f.kind
      /\ \A fs : AsSent(fs, sends) => AsSent(fs, sends')
      /\ \A q : Tracks(q, sends) => Tracks(q, sends')
  BY <1>1, <1>2, <1>3, SentMore
<1>5. /\ AsSent(<<f>>, sends')
      /\ \A q : Tracks(q, sends') => Tracks(Append(q, x), sends')
  BY <1>2, <1>3, <1>4, NewFrame
<1>6. up' \in [Sockets -> Seq(Frame)] /\ \A k \in Sockets : AsSent(up'[k], sends')
  <2>1. up \in [Sockets -> Seq(Frame)] /\ \A k \in Sockets : AsSent(up[k], sends')
    BY <1>4 DEF Genuine
  <2> QED
    BY <1>1, <1>2, <1>5, <2>1, TransmitKeeps
<1>7. Tracks(inFlightQueue', sends')
  BY <1>1, <1>4, <1>5 DEF Genuine
<1>8. Len(inFlightQueue') <= QueueCapacity
  <2>1. inFlightQueue \in Seq(InFlight) /\ Len(inFlightQueue) < QueueCapacity
    BY <1>2 DEF Genuine, Tracks, QueueFull
  <2>2. Len(Append(inFlightQueue, x)) = Len(inFlightQueue) + 1 /\ Len(inFlightQueue) \in Nat
    BY <2>1
  <2> QED
    BY <1>1, <1>2, <2>1, <2>2
<1>9. currentSeq' \in Nat /\ Len(sends') <= MaxSends
  BY <1>1, <1>2, <1>3, <1>4
<1> QED
  BY <1>1, <1>4, <1>6, <1>7, <1>8, <1>9 DEF Genuine

\* Settling one entry leaves the others, and what may follow is a flush.
LEMMA SettleKeeps ==
  ASSUME Fields, Genuine, NEW i \in DOMAIN inFlightQueue, NEW how, Settle(i, how),
         sends' = sends
  PROVE  /\ Genuine' /\ currentSeq' \in Nat /\ (state' = state \/ state' = "CONNECTED")
         /\ inFlightQueue[i].frame.ev \in Events
         /\ settled' = [settled EXCEPT ![inFlightQueue[i].frame.ev] = how]
<1> DEFINE rest == RemoveAt(inFlightQueue, i)
<1>1. /\ Tracks(rest, sends) /\ Len(rest) = Len(inFlightQueue) - 1
      /\ Len(inFlightQueue) \in Nat /\ Len(rest) \in Nat
      /\ inFlightQueue[i] \in InFlight
  BY TracksRemoved DEF Genuine
<1>2. /\ settled' = [settled EXCEPT ![inFlightQueue[i].frame.ev] = how]
      /\ \/ FlushAndConnect(rest)
         \/ inFlightQueue' = rest /\ UNCHANGED <<state, currentSeq, up>>
  BY DEF Settle
<1> HIDE DEF rest
<1>3. Len(rest) <= QueueCapacity
  BY <1>1, ClientAssumption DEF Genuine
<1>4. inFlightQueue[i].frame.ev \in Events
  BY <1>1 DEF InFlight, Frame
<1>5. CASE FlushAndConnect(rest)
  BY <1>1, <1>2, <1>3, <1>4, <1>5, FlushKeeps
<1>6. CASE inFlightQueue' = rest /\ UNCHANGED <<state, currentSeq, up>>
  BY <1>1, <1>2, <1>3, <1>4, <1>6 DEF Genuine, Fields
<1> QED
  BY <1>2, <1>5, <1>6

-----------------------------------------------------------------------------
(***************************************************************************)
(* What the nodes answer.                                                  *)
(***************************************************************************)

\* Steps of the session.
LEMMA TruthKept ==
  ASSUME Genuine, Truthful, runs' = runs, NEW kind \in Kinds,
         \/ sends' = sends
         \/ sends' = Append(sends, kind) /\ Len(sends) < MaxSends,
         settled' \in [Events -> {"no", "resolved", "rejected"}],
         \A ev \in Events : settled'[ev] = "resolved" => settled[ev] = "resolved" \/ Ran(ev),
         down' \in [Sockets -> Seq([ack : 0..MaxSends])],
         \A k \in Sockets : \A i \in DOMAIN down'[k] :
           down'[k][i].ack = 0 \/ \E j \in DOMAIN down[k] : down'[k][i] = down[k][j]
  PROVE  Truthful'
<1>1. \A ev : Ran(ev)' <=> Ran(ev)
  BY DEF Ran
<1>2. \A ev \in Events : settled'[ev] = "resolved" => Ran(ev)
  BY DEF Truthful, AckedWasExecuted, Ran
<1>3. AckedWasExecuted'
  BY <1>2 DEF AckedWasExecuted, Ran
<1>4. \A k \in Sockets : \A i \in DOMAIN down'[k] : down'[k][i].ack # 0 => Ran(down'[k][i].ack)
  BY DEF Truthful
<1>5. /\ sends \in Seq(Kinds) /\ Len(sends) \in Nat /\ Len(sends) <= MaxSends
      /\ DOMAIN sends = 1..Len(sends) /\ MaxSends \in Nat
  BY ClientAssumption DEF Genuine
<1>6. /\ DOMAIN sends \subseteq DOMAIN sends'
      /\ \A ev \in DOMAIN sends' : \/ ev \in DOMAIN sends /\ sends'[ev] = sends[ev]
                                   \/ ev \in Events \ DOMAIN sends
  <2>1. CASE sends' = sends
    BY <2>1
  <2>2. CASE sends' = Append(sends, kind) /\ Len(sends) < MaxSends
    <3>1. /\ DOMAIN sends \subseteq DOMAIN sends'
          /\ \A ev \in DOMAIN sends' : \/ ev \in DOMAIN sends /\ sends'[ev] = sends[ev]
                                       \/ ev = Len(sends) + 1
      BY <1>5, <2>2, SentMore
    <3>2. Len(sends) + 1 \in 1..MaxSends /\ Len(sends) + 1 \notin 1..Len(sends)
      <4>1. PICK len \in Nat : len = Len(sends)
        BY <1>5
      <4>2. len < MaxSends /\ MaxSends \in Nat
        BY <1>5, <2>2, <4>1
      <4>3. len + 1 \in 1..MaxSends /\ len + 1 \notin 1..len
        BY <4>2
      <4> QED
        BY <4>1, <4>3
    <3> QED
      BY <1>5, <3>1, <3>2 DEF Events
  <2> QED
    BY <2>1, <2>2
<1>7. OncePerNode'
  <2> SUFFICES ASSUME NEW ev \in DOMAIN sends', sends'[ev] = "message", NEW n \in Nodes
               PROVE  runs[ev][n] <= 1
    BY DEF OncePerNode
  <2>1. CASE ev \in DOMAIN sends /\ sends'[ev] = sends[ev]
    BY <2>1 DEF Truthful, OncePerNode
  <2>2. CASE ev \in Events \ DOMAIN sends
    BY <2>2 DEF Truthful
  <2> QED
    BY <1>6, <2>1, <2>2
<1>8. \A ev \in Events \ DOMAIN sends', n \in Nodes : runs'[ev][n] = 0
  BY <1>6 DEF Truthful
<1> QED
  BY <1>1, <1>3, <1>4, <1>7, <1>8 DEF Truthful, Ran

\* A node handles a frame.
LEMMA DispatchTruthful ==
  ASSUME Fields, Genuine, Truthful, NEW k \in Sockets, Dispatch(k)
  PROVE  Genuine' /\ Truthful' /\ lastSeenSeq' \in [Sockets -> Nat]
         /\ joined' \in [Sockets -> SUBSET Rooms]
<1> DEFINE f == Head(up[k])
           n == node[k]
<1>1. /\ up[k] # <<>> /\ up' = [up EXCEPT ![k] = Tail(up[k])]
      /\ UNCHANGED <<sends, settled, inFlightQueue>>
  BY DEF Dispatch, sending
<1>2. /\ AsSent(Tail(up[k]), sends)
      /\ f \in Frame /\ f.ev \in DOMAIN sends /\ sends[f.ev] = f.kind
  BY <1>1, AsSentTail DEF Genuine
<1>3. f.ev \in Events /\ f.seq \in Nat /\ f.rooms \in SUBSET Rooms /\ n \in Nodes
  BY <1>2 DEF Frame, Fields
<1>4. Genuine'
  <2>1. Tail(up[k]) \in Seq(Frame)
    BY <1>2 DEF AsSent
  <2>2. up' \in [Sockets -> Seq(Frame)] /\ \A l \in Sockets : AsSent(up'[l], sends)
    BY <1>1, <1>2, <2>1 DEF Genuine
  <2> QED
    BY <1>1, <2>2 DEF Genuine
<1>5. /\ lastSeenSeq' = lastSeenSeq \/ lastSeenSeq' = [lastSeenSeq EXCEPT ![k] = f.seq]
      /\ \/ joined' = joined
         \/ joined' = [joined EXCEPT ![k] = joined[k] \ f.rooms]
         \/ joined' = [joined EXCEPT ![k] = joined[k] \cup f.rooms]
  <2>1. lastSeenSeq = [lastSeenSeq EXCEPT ![k] = lastSeenSeq[k]]
        /\ joined = [joined EXCEPT ![k] = joined[k]]
    BY DEF Fields
  <2> QED
    BY <2>1 DEF Dispatch
<1>6. lastSeenSeq' \in [Sockets -> Nat] /\ joined' \in [Sockets -> SUBSET Rooms]
  BY <1>3, <1>5 DEF Fields
<1> DEFINE more == [runs EXCEPT ![f.ev][n] = runs[f.ev][n] + 1]
<1>7. /\ \/ runs' = runs
         \/ runs' = more /\ ~IsDuplicate(k, f)
      /\ \/ down' = down
         \/ /\ down' = [down EXCEPT ![k] = Append(down[k], Ack(f.ev))]
            /\ IsDuplicate(k, f) \/ runs' = more
  BY DEF Dispatch
<1>8. /\ runs \in [Events -> [Nodes -> Nat]]
      /\ more \in [Events -> [Nodes -> Nat]] /\ more[f.ev][n] = runs[f.ev][n] + 1
      /\ \A ev \in Events, m \in Nodes :
           more[ev][m] = IF ev = f.ev /\ m = n THEN runs[f.ev][n] + 1 ELSE runs[ev][m]
  <2>1. runs \in [Events -> [Nodes -> Nat]]
    BY DEF Truthful
  <2> HIDE DEF f, n
  <2> DEFINE row == [runs[f.ev] EXCEPT ![n] = runs[f.ev][n] + 1]
  <2>2. runs[f.ev] \in [Nodes -> Nat] /\ runs[f.ev][n] + 1 \in Nat
    BY <1>3, <2>1
  <2>3. /\ row \in [Nodes -> Nat]
        /\ \A m \in Nodes : row[m] = IF m = n THEN runs[f.ev][n] + 1 ELSE runs[f.ev][m]
    BY <1>3, <2>2
  <2> HIDE DEF row
  <2>4. more = [runs EXCEPT ![f.ev] = row]
    BY <2>1 DEF row
  <2> HIDE DEF more
  <2> QED
    BY <1>3, <2>1, <2>3, <2>4
<1> HIDE DEF more, f, n
<1>9. /\ runs' \in [Events -> [Nodes -> Nat]]
      /\ \A ev \in Events, m \in Nodes : runs[ev][m] > 0 => runs'[ev][m] > 0
  <2>1. \A ev \in Events, m \in Nodes : runs[ev][m] > 0 => more[ev][m] > 0
    <3>1. \A ev \in Events, m \in Nodes : runs[ev][m] \in Nat
      BY <1>8
    <3>2. runs[f.ev][n] + 1 > 0
      BY <1>3, <3>1
    <3> QED
      BY <1>8, <3>1, <3>2
  <2> QED
    BY <1>7, <1>8, <2>1
<1>11. \A ev \in Events \ DOMAIN sends, m \in Nodes : runs'[ev][m] = 0
  <2> SUFFICES ASSUME NEW ev \in Events \ DOMAIN sends, NEW m \in Nodes
               PROVE  runs'[ev][m] = 0
    OBVIOUS
  <2>1. runs[ev][m] = 0 /\ ev # f.ev /\ ev \in Events
    BY <1>2 DEF Truthful
  <2>2. more[ev][m] = runs[ev][m]
    BY <1>8, <2>1
  <2> QED
    BY <1>7, <2>1, <2>2
<1>12. AckedWasExecuted'
  <2> SUFFICES ASSUME NEW ev \in Events, settled[ev] = "resolved"
               PROVE  \E m \in Nodes : runs'[ev][m] > 0
    BY <1>1 DEF AckedWasExecuted
  <2> QED
    BY <1>9 DEF Truthful, AckedWasExecuted
<1>13. OncePerNode'
  <2> SUFFICES ASSUME NEW ev \in DOMAIN sends, sends[ev] = "message", NEW m \in Nodes
               PROVE  runs'[ev][m] <= 1
    BY <1>1 DEF OncePerNode
  <2>0. ev \in Events
    BY ClientAssumption DEF Genuine, Events
  <2>1. runs[ev][m] <= 1
    BY DEF Truthful, OncePerNode
  <2>2. CASE runs' = more /\ ~IsDuplicate(k, f) /\ ev = f.ev /\ m = n
    <3>1. runs[ev][m] = 0
      <4>1. ~(runs[f.ev][n] > 0)
        BY <1>2, <2>2 DEF IsDuplicate, n
      <4>2. runs[f.ev][n] \in Nat
        BY <1>3, <1>8
      <4> QED
        BY <2>2, <4>1, <4>2
    <3> QED
      BY <1>8, <2>0, <2>2, <3>1
  <2>3. CASE ~(ev = f.ev /\ m = n)
    BY <1>7, <1>8, <2>0, <2>1, <2>3
  <2> QED
    BY <1>7, <2>1, <2>2, <2>3
<1> DEFINE RanNow(ev) == \E m \in Nodes : runs'[ev][m] > 0
<1>14. \A ev \in Events : Ran(ev) => RanNow(ev)
  BY <1>9 DEF Ran
<1> HIDE DEF RanNow
<1>15. down' \in [Sockets -> Seq([ack : 0..MaxSends])]
       /\ \A l \in Sockets : \A i \in DOMAIN down'[l] :
            down'[l][i].ack # 0 => RanNow(down'[l][i].ack)
  <2>0. /\ down \in [Sockets -> Seq([ack : 0..MaxSends])]
        /\ \A l \in Sockets : \A i \in DOMAIN down[l] : down[l][i].ack # 0 => Ran(down[l][i].ack)
    BY DEF Truthful
  <2>1. ASSUME NEW l \in Sockets, NEW i \in DOMAIN down[l], down[l][i].ack # 0
        PROVE  RanNow(down[l][i].ack)
    <3>1. down[l][i] \in [ack : 0..MaxSends]
      <4>1. down[l] \in Seq([ack : 0..MaxSends])
        BY <2>0
      <4>2. i \in 1..Len(down[l])
        BY <4>1
      <4> QED
        BY <4>1, <4>2, ElementOfSeq
    <3>2. down[l][i].ack \in Events
      BY <2>1, <3>1, ClientAssumption DEF Events
    <3> QED
      BY <1>14, <2>0, <2>1, <3>2
  <2>2. CASE down' = down
    BY <2>0, <2>1, <2>2
  <2>3. CASE /\ down' = [down EXCEPT ![k] = Append(down[k], Ack(f.ev))]
             /\ IsDuplicate(k, f) \/ runs' = more
    <3>1. Ack(f.ev) \in [ack : 0..MaxSends] /\ Ack(f.ev).ack = f.ev
      BY <1>3, ClientAssumption DEF Ack, Events
    <3>2. RanNow(f.ev)
      <4>1. CASE IsDuplicate(k, f)
        <5>1. runs[f.ev][n] > 0
          BY <4>1 DEF IsDuplicate, n
        <5> QED
          BY <1>3, <1>14, <5>1 DEF Ran
      <4>2. CASE runs' = more
        <5>1. runs[f.ev][n] \in Nat /\ runs'[f.ev][n] = runs[f.ev][n] + 1
          BY <1>3, <1>8, <4>2
        <5>2. runs'[f.ev][n] > 0
          BY <5>1
        <5> QED
          BY <1>3, <5>2 DEF RanNow
      <4> QED
        BY <2>3, <4>1, <4>2
    <3>3. PICK a \in [ack : 0..MaxSends] : a = Ack(f.ev)
      BY <3>1
    <3>4. down[k] \in Seq([ack : 0..MaxSends]) /\ down'[k] = Append(down[k], a)
          /\ \A l \in Sockets : l # k => down'[l] = down[l]
      BY <2>0, <2>3, <3>3
    <3>5. \A i \in DOMAIN down'[k] :
            (i \in DOMAIN down[k] /\ down'[k][i] = down[k][i]) \/ down'[k][i] = a
      BY <3>4
    <3>6. down' \in [Sockets -> Seq([ack : 0..MaxSends])]
      <4>1. down' = [down EXCEPT ![k] = Append(down[k], a)]
        BY <2>3, <3>3
      <4>2. Append(down[k], a) \in Seq([ack : 0..MaxSends])
        BY <3>4, AppendProperties
      <4> QED
        BY <2>0, <4>1, <4>2
    <3>7. ASSUME NEW l \in Sockets, NEW i \in DOMAIN down'[l], down'[l][i].ack # 0
          PROVE  RanNow(down'[l][i].ack)
      <4>1. CASE l # k
        BY <2>1, <3>4, <3>7, <4>1
      <4>2. CASE l = k /\ i \in DOMAIN down[k] /\ down'[k][i] = down[k][i]
        BY <2>1, <3>7, <4>2
      <4>3. CASE l = k /\ down'[k][i] = a
        BY <3>1, <3>2, <3>3, <4>3
      <4> QED
        BY <3>5, <3>7, <4>1, <4>2, <4>3
    <3> QED
      BY <3>6, <3>7
  <2> QED
    BY <1>7, <2>2, <2>3
<1>16. Truthful'
  BY <1>1, <1>9, <1>11, <1>12, <1>13, <1>15 DEF Truthful, Ran, RanNow
<1> QED
  BY <1>4, <1>6, <1>16

-----------------------------------------------------------------------------
(***************************************************************************)
(* The steps.                                                              *)
(***************************************************************************)

\* Steps of the session that send nothing and settle nothing.
LEMMA QuietKept ==
  ASSUME Genuine, Truthful, UNCHANGED <<runs, sending, up>>, NEW k,
         \/ down' = down
         \/ down' = [down EXCEPT ![k] = <<>>]
         \/ down' = [down EXCEPT ![k] = <<Hello>>]
  PROVE  Genuine' /\ Truthful'
<1>1. UNCHANGED <<inFlightQueue, sends, settled>>
  BY DEF sending
<1>2. Genuine'
  BY <1>1 DEF Genuine
<1>3. down \in [Sockets -> Seq([ack : 0..MaxSends])]
      /\ settled \in [Events -> {"no", "resolved", "rejected"}]
  BY DEF Truthful
<1>4. Hello \in [ack : 0..MaxSends] /\ Hello.ack = 0
  BY ClientAssumption DEF Hello
<1>5. PICK h \in [ack : 0..MaxSends] : h = Hello
  BY <1>4
<1>6. <<h>> \in Seq([ack : 0..MaxSends]) /\ <<>> \in Seq([ack : 0..MaxSends])
  OBVIOUS
<1>7. down' \in [Sockets -> Seq([ack : 0..MaxSends])]
  BY <1>3, <1>5, <1>6
<1>8. \A l \in Sockets : down'[l] = down[l] \/ down'[l] = <<>> \/ down'[l] = <<h>>
  BY <1>3, <1>5
<1>9. \A l \in Sockets : \A i \in DOMAIN down'[l] :
        down'[l][i].ack = 0 \/ \E j \in DOMAIN down[l] : down'[l][i] = down[l][j]
  <2> SUFFICES ASSUME NEW l \in Sockets, NEW i \in DOMAIN down'[l]
               PROVE  down'[l][i].ack = 0 \/ \E j \in DOMAIN down[l] : down'[l][i] = down[l][j]
    OBVIOUS
  <2>1. CASE down'[l] = down[l]
    BY <2>1
  <2>2. CASE down'[l] = <<>>
    BY <2>2
  <2>3. CASE down'[l] = <<h>>
    BY <1>4, <1>5, <2>3
  <2> QED
    BY <1>8, <2>1, <2>2, <2>3
<1>10. "join" \in Kinds
  BY DEF Kinds
<1> QED
  BY <1>1, <1>2, <1>3, <1>7, <1>9, <1>10, TruthKept

\* The application's calls, apart from connect and disconnect.
LEMMA CallKeeps ==
  ASSUME SessionInv,
         SendMessage \/ SendUnacked \/ JoinOrLeave("join") \/ JoinOrLeave("leave")
  PROVE  SessionInv'
<1>0. Fields /\ Genuine /\ Truthful
  BY DEF SessionInv
<1>1. /\ todo # <<>> /\ todo' = Tail(todo)
      /\ UNCHANGED <<state, ws, isExplicitlyClosed, reconnectTimer,
           connectionTimeoutTimer, closing, settled, sock, down, node, lastSeenSeq,
           joined, runs>>
  BY DEF SendMessage, SendUnacked, JoinOrLeave, SendCall, NextCall, server
<1>2. /\ todo' \in Seq(Calls \X Rooms) /\ Head(todo)[2] \in Rooms
  <2>1. todo \in Seq(Calls \X Rooms)
    BY <1>0 DEF Fields
  <2>2. Head(todo) \in Calls \X Rooms /\ Tail(todo) \in Seq(Calls \X Rooms)
    BY <1>1, <2>1
  <2> QED
    BY <1>1, <2>2
<1> DEFINE r == Head(todo)[2]
<1> HIDE DEF r
<1>3. desiredRooms' \in SUBSET Rooms
  <2>1. desiredRooms \in SUBSET Rooms
    BY <1>0 DEF Fields
  <2>2. \/ desiredRooms' = desiredRooms
        \/ desiredRooms' = desiredRooms \cup {Head(todo)[2]}
        \/ desiredRooms' = desiredRooms \ {Head(todo)[2]}
    BY DEF SendMessage, SendUnacked, JoinOrLeave
  <2> QED
    BY <1>2, <2>1, <2>2
<1>4. PICK kind \in Kinds :
        \/ UNCHANGED <<currentSeq, inFlightQueue, sends, up>>
        \/ ~QueueFull /\ SendEnvelope(kind, {r})
        \/ ~QueueFull /\ SendUnacked
  <2>0. "message" \in Kinds /\ "join" \in Kinds /\ "leave" \in Kinds
    BY DEF Kinds
  <2>1. CASE SendMessage
    BY <2>0, <2>1 DEF SendMessage, r
  <2>2. CASE SendUnacked /\ QueueFull
    BY <2>0, <2>2 DEF SendUnacked
  <2>3. CASE SendUnacked /\ ~QueueFull
    BY <2>0, <2>3
  <2>4. CASE JoinOrLeave("join") \/ JoinOrLeave("leave")
    BY <2>0, <2>4 DEF JoinOrLeave, r
  <2> QED
    BY <2>1, <2>2, <2>3, <2>4
<1>5. \/ Genuine' /\ currentSeq' \in Nat /\ sends' = sends
      \/ /\ Genuine' /\ currentSeq' \in Nat
         /\ \E x \in Kinds : sends' = Append(sends, x) /\ Len(sends) < MaxSends
  <2>1. CASE UNCHANGED <<currentSeq, inFlightQueue, sends, up>>
    BY <1>0, <2>1 DEF Genuine, Fields
  <2>2. CASE ~QueueFull /\ SendEnvelope(kind, {r})
    <3>1. {r} \in SUBSET Rooms
      BY <1>2 DEF r
    <3> QED
      BY <1>0, <2>2, <3>1, EnvelopeKeeps
  <2>3. CASE ~QueueFull /\ SendUnacked
    <3> DEFINE f == [kind |-> "message", ev |-> Len(sends'), rooms |-> {r},
                     seq |-> currentSeq']
    <3>1. /\ Len(sends) < MaxSends /\ sends' = Append(sends, "message")
          /\ currentSeq' = currentSeq + 1 /\ inFlightQueue' = inFlightQueue
          /\ Transmit(<<f>>)
      BY <2>3 DEF SendUnacked, r
    <3>2. /\ currentSeq \in Nat /\ ws \in 0..MaxSockets /\ MaxSockets \in Nat
          /\ MaxSends \in Nat /\ sends \in Seq(Kinds) /\ Len(sends) \in Nat
          /\ "message" \in Kinds
      BY <1>0, ClientAssumption DEF Fields, Genuine, Kinds
    <3>3. /\ sends' \in Seq(Kinds) /\ Len(sends') = Len(sends) + 1
          /\ Len(sends) + 1 \in DOMAIN sends' /\ sends'[Len(sends) + 1] = "message"
          /\ \A fs : AsSent(fs, sends) => AsSent(fs, sends')
          /\ \A q : Tracks(q, sends) => Tracks(q, sends')
      BY <3>1, <3>2, SentMore
    <3>4. f \in Frame /\ f.ev = Len(sends) + 1 /\ f.kind = "message"
      <4>1. Len(sends') \in Events /\ currentSeq' \in Nat
        BY <3>1, <3>2, <3>3 DEF Events
      <4>2. {r} \in SUBSET Rooms
        BY <1>2 DEF r
      <4> QED
        BY <3>2, <3>3, <4>1, <4>2 DEF Frame
    <3> HIDE DEF f
    <3>5. AsSent(<<f>>, sends')
      BY <3>3, <3>4, NewFrame
    <3>6. up' \in [Sockets -> Seq(Frame)] /\ \A k \in Sockets : AsSent(up'[k], sends')
      <4>1. up \in [Sockets -> Seq(Frame)] /\ \A k \in Sockets : AsSent(up[k], sends')
        BY <1>0, <3>3 DEF Genuine
      <4> QED
        BY <3>1, <3>2, <3>5, <4>1, TransmitKeeps
    <3>7. currentSeq' \in Nat /\ Len(sends') <= MaxSends
      BY <3>1, <3>2, <3>3
    <3>8. Tracks(inFlightQueue', sends') /\ Len(inFlightQueue') <= QueueCapacity
      BY <1>0, <3>1, <3>3 DEF Genuine
    <3>9. Genuine'
      BY <3>3, <3>6, <3>7, <3>8 DEF Genuine
    <3> QED
      BY <3>1, <3>2, <3>7, <3>9
  <2> QED
    BY <1>4, <2>1, <2>2, <2>3
<1>6. Truthful'
  <2>1. PICK x \in Kinds :
          \/ sends' = sends
          \/ sends' = Append(sends, x) /\ Len(sends) < MaxSends
    BY <1>4, <1>5
  <2>2. /\ settled' \in [Events -> {"no", "resolved", "rejected"}]
        /\ \A ev \in Events : settled'[ev] = "resolved" => settled[ev] = "resolved" \/ Ran(ev)
        /\ down' \in [Sockets -> Seq([ack : 0..MaxSends])]
        /\ \A k \in Sockets : \A i \in DOMAIN down'[k] :
             down'[k][i].ack = 0 \/ \E j \in DOMAIN down[k] : down'[k][i] = down[k][j]
    BY <1>0, <1>1 DEF Truthful
  <2> QED
    BY <1>0, <1>1, <2>1, <2>2, TruthKept
<1>7. Fields'
  BY <1>0, <1>1, <1>2, <1>3, <1>5 DEF Fields, StaysClosed
<1> QED
  BY <1>5, <1>6, <1>7 DEF SessionInv

\* The timer of an entry.
LEMMA TimeoutKeeps ==
  ASSUME SessionInv, NEW ev \in Events, AckTimeout(ev)
  PROVE  SessionInv'
<1>0. Fields /\ Genuine /\ Truthful
  BY DEF SessionInv
<1>1. PICK i \in DOMAIN inFlightQueue :
        /\ \/ /\ inFlightQueue[i].retries < MaxRetries
              /\ inFlightQueue' = [inFlightQueue EXCEPT ![i].retries = @ + 1]
              /\ Transmit(<<inFlightQueue[i].frame>>)
              /\ UNCHANGED <<state, currentSeq, settled>>
           \/ Settle(i, "rejected")
        /\ UNCHANGED <<todo, ws, isExplicitlyClosed, reconnectTimer,
             connectionTimeoutTimer, closing, desiredRooms, sends, sock, down, node,
             lastSeenSeq, joined, runs>>
  BY DEF AckTimeout, server
<1>2. /\ Genuine' /\ currentSeq' \in Nat /\ (state' = state \/ state' = "CONNECTED")
      /\ settled' \in [Events -> {"no", "resolved", "rejected"}]
      /\ \A x \in Events : settled'[x] = "resolved" => settled[x] = "resolved"
  <2>1. CASE /\ inFlightQueue[i].retries < MaxRetries
             /\ inFlightQueue' = [inFlightQueue EXCEPT ![i].retries = @ + 1]
             /\ Transmit(<<inFlightQueue[i].frame>>)
             /\ UNCHANGED <<state, currentSeq, settled>>
    <3>1. /\ Tracks(inFlightQueue', sends) /\ Len(inFlightQueue') = Len(inFlightQueue)
          /\ AsSent(<<inFlightQueue[i].frame>>, sends)
      BY <1>0, <2>1, TracksRetried, ClientAssumption DEF Genuine
    <3>2. ws \in 0..MaxSockets /\ MaxSockets \in Nat
      BY <1>0, ClientAssumption DEF Fields
    <3>3. up' \in [Sockets -> Seq(Frame)] /\ \A k \in Sockets : AsSent(up'[k], sends)
      BY <1>0, <2>1, <3>1, <3>2, TransmitKeeps DEF Genuine
    <3>4. Genuine'
      BY <1>0, <1>1, <3>1, <3>3 DEF Genuine
    <3> QED
      BY <1>0, <2>1, <3>4 DEF Fields, Truthful
  <2>2. CASE Settle(i, "rejected")
    <3>1. /\ Genuine' /\ currentSeq' \in Nat /\ (state' = state \/ state' = "CONNECTED")
          /\ inFlightQueue[i].frame.ev \in Events
          /\ settled' = [settled EXCEPT ![inFlightQueue[i].frame.ev] = "rejected"]
      BY <1>0, <1>1, <2>2, SettleKeeps
    <3> QED
      BY <1>0, <3>1 DEF Truthful
  <2> QED
    BY <1>1, <2>1, <2>2
<1>3. Truthful'
  <2>1. /\ down' \in [Sockets -> Seq([ack : 0..MaxSends])]
        /\ \A k \in Sockets : \A j \in DOMAIN down'[k] :
             down'[k][j].ack = 0 \/ \E l \in DOMAIN down[k] : down'[k][j] = down[k][l]
        /\ "join" \in Kinds
    BY <1>0, <1>1 DEF Truthful, Kinds
  <2> QED
    BY <1>0, <1>1, <1>2, <2>1, TruthKept
<1>4. Fields'
  BY <1>0, <1>1, <1>2 DEF Fields, StaysClosed
<1> QED
  BY <1>2, <1>3, <1>4 DEF SessionInv

\* connect, by the application or by the reconnect timer.
LEMMA OpenKeeps ==
  ASSUME SessionInv, NEW k \in Sockets, Connect(k) \/ Reconnect(k)
  PROVE  SessionInv'
<1>0. Fields /\ Genuine /\ Truthful
  BY DEF SessionInv
<1>1. /\ state' = "CONNECTING" /\ ws' = k /\ isExplicitlyClosed' = FALSE
      /\ reconnectTimer' = FALSE /\ connectionTimeoutTimer' = TRUE /\ currentSeq' = 0
      /\ sock' = [sock EXCEPT ![k] = "connecting"]
      /\ UNCHANGED <<closing, desiredRooms, sending, up, down, node, lastSeenSeq, joined,
                     runs>>
      /\ \/ todo' = todo
         \/ todo # <<>> /\ todo' = Tail(todo)
  BY DEF Connect, Reconnect, Open, NextCall, server
<1>2. Genuine' /\ Truthful'
  BY <1>0, <1>1, QuietKept
<1>3. todo' \in Seq(Calls \X Rooms)
  <2>1. todo \in Seq(Calls \X Rooms)
    BY <1>0 DEF Fields
  <2>2. todo # <<>> => Tail(todo) \in Seq(Calls \X Rooms)
    BY <2>1
  <2> QED
    BY <1>1, <2>1, <2>2
<1>4. /\ ws' \in 0..MaxSockets /\ isExplicitlyClosed' \in BOOLEAN
      /\ reconnectTimer' \in BOOLEAN /\ connectionTimeoutTimer' \in BOOLEAN
  <2>1. k \in 0..MaxSockets
    BY ClientAssumption DEF Sockets
  <2>2. isExplicitlyClosed' \in BOOLEAN /\ reconnectTimer' \in BOOLEAN
        /\ connectionTimeoutTimer' \in BOOLEAN
    BY <1>1
  <2> QED
    BY <1>1, <2>1, <2>2
<1>5. sock' \in [Sockets -> {"unused", "connecting", "open", "closing", "closed"}]
  BY <1>0, <1>1 DEF Fields
<1>6. StaysClosed'
  BY <1>1 DEF StaysClosed
<1> QED
  BY <1>0, <1>1, <1>2, <1>3, <1>4, <1>5, <1>6 DEF SessionInv, Fields

\* A socket opens, fails to, or closes; the connection timeout; the end of
\* disconnect.
LEMMA SocketKeeps ==
  ASSUME SessionInv,
         \/ \E k \in Sockets : Opened(k) \/ ConnectFails(k) \/ SocketCloses(k)
         \/ ConnectionTimeout \/ DisconnectGivesUp
  PROVE  SessionInv'
<1>0. Fields /\ Genuine /\ Truthful
  BY DEF SessionInv
<1>1. UNCHANGED <<todo, isExplicitlyClosed, currentSeq, desiredRooms, sending, up, node,
                  lastSeenSeq, joined, runs>>
  BY DEF Opened, ConnectFails, SocketCloses, ConnectionTimeout, DisconnectGivesUp, server
<1>2. /\ state \in {"CONNECTED", "DISCONNECTED", "RECONNECTING_BACKOFF",
                    "CONNECTING", "AUTHENTICATING", "RESUBSCRIBING_ROOMS"}
      /\ ws \in 0..MaxSockets /\ closing \in 0..MaxSockets /\ 0 \in 0..MaxSockets
      /\ isExplicitlyClosed \in BOOLEAN
      /\ reconnectTimer \in BOOLEAN /\ connectionTimeoutTimer \in BOOLEAN
      /\ sock \in [Sockets -> {"unused", "connecting", "open", "closing", "closed"}]
      /\ (isExplicitlyClosed => ~reconnectTimer /\ ~connectionTimeoutTimer)
  BY <1>0, ClientAssumption DEF Fields, StaysClosed
\* A timer is armed only while the session is not closed by the application.
<1>3. /\ \/ reconnectTimer' = reconnectTimer
         \/ reconnectTimer' = TRUE /\ ~isExplicitlyClosed
      /\ connectionTimeoutTimer' = connectionTimeoutTimer \/ connectionTimeoutTimer' = FALSE
  BY DEF Opened, ConnectFails, SocketCloses, ConnectionTimeout, DisconnectGivesUp,
         ClosedState, ScheduleReconnect
<1>4. reconnectTimer' \in BOOLEAN /\ connectionTimeoutTimer' \in BOOLEAN
  BY <1>2, <1>3
<1>5. StaysClosed'
  BY <1>1, <1>2, <1>3 DEF StaysClosed
<1>6. /\ state' \in {"CONNECTED", "DISCONNECTED", "RECONNECTING_BACKOFF",
                     "CONNECTING", "AUTHENTICATING", "RESUBSCRIBING_ROOMS"}
      /\ ws' \in 0..MaxSockets /\ closing' \in 0..MaxSockets
  BY <1>2 DEF Opened, ConnectFails, SocketCloses, ConnectionTimeout, DisconnectGivesUp,
              ClosedState
<1>7. sock' \in [Sockets -> {"unused", "connecting", "open", "closing", "closed"}]
  <2>1. \/ sock' = sock
        \/ \E l \in 0..MaxSockets :
             sock' = [sock EXCEPT ![l] = "open"] \/ sock' = [sock EXCEPT ![l] = "closed"]
    BY <1>2, ClientAssumption DEF Opened, ConnectFails, SocketCloses, ConnectionTimeout,
                                  DisconnectGivesUp, Sockets
  <2> QED
    BY <1>2, <2>1
<1>8. Genuine' /\ Truthful'
  <2>1. PICK l : \/ down' = down
                 \/ down' = [down EXCEPT ![l] = <<>>]
                 \/ down' = [down EXCEPT ![l] = <<Hello>>]
    BY DEF Opened, ConnectFails, SocketCloses, ConnectionTimeout, DisconnectGivesUp
  <2> QED
    BY <1>0, <1>1, <2>1, QuietKept
<1> QED
  BY <1>0, <1>1, <1>4, <1>5, <1>6, <1>7, <1>8 DEF SessionInv, Fields

\* disconnect.
LEMMA DisconnectKeeps ==
  ASSUME SessionInv, Disconnect
  PROVE  SessionInv'
<1>0. Fields /\ Genuine /\ Truthful
  BY DEF SessionInv
<1>1. /\ todo # <<>> /\ todo' = Tail(todo) /\ isExplicitlyClosed' = TRUE
      /\ reconnectTimer' = FALSE /\ connectionTimeoutTimer' = FALSE
      /\ settled' = [e \in Events |-> IF Tracked(e) THEN "rejected" ELSE settled[e]]
      /\ inFlightQueue' = <<>>
      /\ UNCHANGED <<currentSeq, desiredRooms, sends, up, down, node, lastSeenSeq, joined,
                     runs>>
      /\ sock' = sock \/ sock' = [sock EXCEPT ![ws] = "closing"]
      /\ closing' = 0 \/ closing' = ws
      /\ ws' = 0 \/ ws' = ws
      /\ state' = "CONNECTED" \/ state' = "DISCONNECTED" \/ state' = state
  BY DEF Disconnect, NextCall, ClearTimers, server
<1>2. todo' \in Seq(Calls \X Rooms)
  <2>1. todo \in Seq(Calls \X Rooms)
    BY <1>0 DEF Fields
  <2> QED
    BY <1>1, <2>1
<1>3. /\ isExplicitlyClosed' \in BOOLEAN
      /\ reconnectTimer' \in BOOLEAN /\ connectionTimeoutTimer' \in BOOLEAN
      /\ StaysClosed'
  BY <1>1 DEF StaysClosed
<1>4. ws' \in 0..MaxSockets /\ closing' \in 0..MaxSockets
  BY <1>0, <1>1, ClientAssumption DEF Fields
<1>5. sock' \in [Sockets -> {"unused", "connecting", "open", "closing", "closed"}]
  BY <1>0, <1>1 DEF Fields
<1>6. Fields'
  BY <1>0, <1>1, <1>2, <1>3, <1>4, <1>5 DEF Fields
<1>7. Genuine'
  <2>1. Tracks(<<>>, sends) /\ Len(<<>>) <= QueueCapacity
    BY ClientAssumption DEF Tracks
  <2> QED
    BY <1>0, <1>1, <2>1 DEF Genuine
<1>8. Truthful'
  <2>1. /\ settled' \in [Events -> {"no", "resolved", "rejected"}]
        /\ \A ev \in Events : settled'[ev] = "resolved" => settled[ev] = "resolved"
    BY <1>0, <1>1 DEF Truthful
  <2>2. /\ down' \in [Sockets -> Seq([ack : 0..MaxSends])]
        /\ \A k \in Sockets : \A j \in DOMAIN down'[k] :
             down'[k][j].ack = 0 \/ \E l \in DOMAIN down[k] : down'[k][j] = down[k][l]
        /\ "join" \in Kinds
    BY <1>0, <1>1 DEF Truthful, Kinds
  <2> QED
    BY <1>0, <1>1, <2>1, <2>2, TruthKept
<1> QED
  BY <1>6, <1>7, <1>8 DEF SessionInv

\* The first frame of a socket is taken.
LEMMA DownAfter ==
  ASSUME Truthful, NEW k \in Sockets, down[k] # <<>>,
         down' = [down EXCEPT ![k] = Tail(down[k])]
  PROVE  /\ down' \in [Sockets -> Seq([ack : 0..MaxSends])]
         /\ \A l \in Sockets : \A i \in DOMAIN down'[l] :
              down'[l][i].ack = 0 \/ \E j \in DOMAIN down[l] : down'[l][i] = down[l][j]
         /\ Head(down[k]) \in [ack : 0..MaxSends]
         /\ Head(down[k]).ack # 0 => Ran(Head(down[k]).ack)
<1>1. down \in [Sockets -> Seq([ack : 0..MaxSends])]
  BY DEF Truthful
<1> DEFINE A == [ack : 0..MaxSends]
<1>2. down[k] \in Seq(A)
  BY <1>1
<1> HIDE DEF A
<1>3. /\ Tail(down[k]) \in Seq(A) /\ Head(down[k]) \in A
      /\ Head(down[k]) = down[k][1] /\ 1 \in DOMAIN down[k]
  BY <1>2
<1>4. \A i \in DOMAIN Tail(down[k]) : i + 1 \in DOMAIN down[k] /\ Tail(down[k])[i] = down[k][i + 1]
  BY <1>2
<1>5. down' \in [Sockets -> Seq(A)]
  BY <1>1, <1>3 DEF A
<1>6. down'[k] = Tail(down[k]) /\ \A l \in Sockets : l # k => down'[l] = down[l]
  BY <1>1
<1>7. \A l \in Sockets : \A i \in DOMAIN down'[l] :
        \E j \in DOMAIN down[l] : down'[l][i] = down[l][j]
  BY <1>4, <1>6
<1>8. Head(down[k]).ack # 0 => Ran(Head(down[k]).ack)
  BY <1>3 DEF Truthful
<1> QED
  BY <1>3, <1>5, <1>7, <1>8 DEF A

\* SYS_CONNECT_ACK.
LEMMA HelloKeeps ==
  ASSUME SessionInv, NEW k \in Sockets, ReceiveHello(k)
  PROVE  SessionInv'
<1>0. Fields /\ Genuine /\ Truthful
  BY DEF SessionInv
<1>1. /\ down[k] # <<>> /\ down' = [down EXCEPT ![k] = Tail(down[k])]
      /\ connectionTimeoutTimer' = FALSE
      /\ UNCHANGED <<todo, ws, isExplicitlyClosed, reconnectTimer, closing, desiredRooms,
                     settled, sock, node, lastSeenSeq, joined, runs>>
      /\ \/ FlushAndConnect(inFlightQueue) /\ sends' = sends
         \/ /\ ~QueueFull /\ SendEnvelope("rejoin", desiredRooms)
            /\ state' = "RESUBSCRIBING_ROOMS"
  BY DEF ReceiveHello, server
<1>2. "rejoin" \in Kinds
  BY DEF Kinds
<1>3. /\ Genuine' /\ currentSeq' \in Nat
      /\ state' = "CONNECTED" \/ state' = "RESUBSCRIBING_ROOMS"
      /\ \/ sends' = sends
         \/ sends' = Append(sends, "rejoin") /\ Len(sends) < MaxSends
  <2>1. CASE FlushAndConnect(inFlightQueue) /\ sends' = sends
    <3>1. Tracks(inFlightQueue, sends) /\ Len(inFlightQueue) <= QueueCapacity
      BY <1>0 DEF Genuine
    <3> QED
      BY <1>0, <2>1, <3>1, FlushKeeps
  <2>2. CASE ~QueueFull /\ SendEnvelope("rejoin", desiredRooms)
             /\ state' = "RESUBSCRIBING_ROOMS"
    <3>1. desiredRooms \in SUBSET Rooms
      BY <1>0 DEF Fields
    <3> QED
      BY <1>0, <1>2, <2>2, <3>1, EnvelopeKeeps
  <2> QED
    BY <1>1, <2>1, <2>2
<1>4. Truthful'
  <2>1. /\ down' \in [Sockets -> Seq([ack : 0..MaxSends])]
        /\ \A l \in Sockets : \A i \in DOMAIN down'[l] :
             down'[l][i].ack = 0 \/ \E j \in DOMAIN down[l] : down'[l][i] = down[l][j]
    BY <1>0, <1>1, DownAfter
  <2>2. /\ settled' \in [Events -> {"no", "resolved", "rejected"}]
        /\ \A ev \in Events : settled'[ev] = "resolved" => settled[ev] = "resolved"
    BY <1>0, <1>1 DEF Truthful
  <2> QED
    BY <1>0, <1>1, <1>2, <1>3, <2>1, <2>2, TruthKept
<1>5. connectionTimeoutTimer' \in BOOLEAN
  BY <1>1
<1>6. StaysClosed'
  BY <1>0, <1>1 DEF Fields, StaysClosed
<1>7. Fields'
  BY <1>0, <1>1, <1>3, <1>5, <1>6 DEF Fields
<1> QED
  BY <1>3, <1>4, <1>7 DEF SessionInv

\* An ACK.
LEMMA AckKeeps ==
  ASSUME SessionInv, NEW k \in Sockets, ReceiveAck(k)
  PROVE  SessionInv'
<1>0. Fields /\ Genuine /\ Truthful
  BY DEF SessionInv
<1> DEFINE a == Head(down[k])
<1>1. /\ down[k] # <<>> /\ a # Hello /\ down' = [down EXCEPT ![k] = Tail(down[k])]
      /\ UNCHANGED <<todo, ws, isExplicitlyClosed, reconnectTimer, connectionTimeoutTimer,
           closing, desiredRooms, sends, sock, node, lastSeenSeq, joined, runs>>
      /\ \/ \E i \in DOMAIN inFlightQueue :
              inFlightQueue[i].frame.ev = a.ack /\ Settle(i, "resolved")
         \/ UNCHANGED <<state, currentSeq, inFlightQueue, settled, up>>
  BY DEF ReceiveAck, Correlated, server
<1>2. /\ down' \in [Sockets -> Seq([ack : 0..MaxSends])]
      /\ \A l \in Sockets : \A i \in DOMAIN down'[l] :
           down'[l][i].ack = 0 \/ \E j \in DOMAIN down[l] : down'[l][i] = down[l][j]
      /\ a \in [ack : 0..MaxSends]
      /\ a.ack # 0 => Ran(a.ack)
  BY <1>0, <1>1, DownAfter
<1> HIDE DEF a
<1>3. Ran(a.ack)
  <2>1. a.ack # 0
    BY <1>1, <1>2 DEF Hello
  <2> QED
    BY <1>2, <2>1
<1>4. /\ Genuine' /\ currentSeq' \in Nat /\ (state' = state \/ state' = "CONNECTED")
      /\ settled' \in [Events -> {"no", "resolved", "rejected"}]
      /\ \A ev \in Events : settled'[ev] = "resolved" => settled[ev] = "resolved" \/ Ran(ev)
  <2>1. CASE UNCHANGED <<state, currentSeq, inFlightQueue, settled, up>>
    BY <1>0, <1>1, <2>1 DEF Genuine, Fields, Truthful
  <2>2. CASE \E i \in DOMAIN inFlightQueue :
               inFlightQueue[i].frame.ev = a.ack /\ Settle(i, "resolved")
    <3>1. PICK i \in DOMAIN inFlightQueue :
            inFlightQueue[i].frame.ev = a.ack /\ Settle(i, "resolved")
      BY <2>2
    <3>2. /\ Genuine' /\ currentSeq' \in Nat /\ (state' = state \/ state' = "CONNECTED")
          /\ a.ack \in Events /\ settled' = [settled EXCEPT ![a.ack] = "resolved"]
      BY <1>0, <1>1, <3>1, SettleKeeps
    <3> QED
      BY <1>0, <1>3, <3>2 DEF Truthful
  <2> QED
    BY <1>1, <2>1, <2>2
<1>5. Truthful'
  <2>1. "join" \in Kinds
    BY DEF Kinds
  <2> QED
    BY <1>0, <1>1, <1>2, <1>4, <2>1, TruthKept
<1>6. Fields'
  BY <1>0, <1>1, <1>4 DEF Fields, StaysClosed
<1> QED
  BY <1>4, <1>5, <1>6 DEF SessionInv

\* A new session satisfies the invariant.
LEMMA SessionInit == Init => SessionInv
<1> SUFFICES ASSUME Init PROVE SessionInv
  OBVIOUS
<1>1. todo \in Seq(Calls \X Rooms)
  BY ClientAssumption DEF Init
<1>2. Fields
  <2>1. isExplicitlyClosed \in BOOLEAN /\ reconnectTimer \in BOOLEAN
        /\ connectionTimeoutTimer \in BOOLEAN /\ StaysClosed
    BY DEF Init, StaysClosed
  <2>2. ws \in 0..MaxSockets /\ closing \in 0..MaxSockets /\ currentSeq \in Nat
    BY ClientAssumption DEF Init
  <2> QED
    BY <1>1, <2>1, <2>2 DEF Init, Fields
<1>3. Genuine
  BY ClientAssumption DEF Init, Genuine, Tracks, AsSent
<1>4. Truthful
  BY DEF Init, Truthful, AckedWasExecuted, OncePerNode
<1> QED
  BY <1>2, <1>3, <1>4 DEF SessionInv

\* Every step of the session, the network and the nodes keeps it.
LEMMA SessionNext == SessionInv /\ [Next]_vars => SessionInv'
<1> SUFFICES ASSUME SessionInv, [Next]_vars PROVE SessionInv'
  OBVIOUS
<1>1. CASE SendMessage \/ SendUnacked \/ JoinOrLeave("join") \/ JoinOrLeave("leave")
  BY <1>1, CallKeeps
<1>2. CASE \E ev \in Events : AckTimeout(ev)
  BY <1>2, TimeoutKeeps
<1>3. ASSUME NEW k \in Sockets, Connect(k) \/ Reconnect(k) PROVE SessionInv'
  BY <1>3, OpenKeeps
<1>4. ASSUME NEW k \in Sockets, Opened(k) \/ ConnectFails(k) \/ SocketCloses(k)
      PROVE  SessionInv'
  BY <1>4, SocketKeeps
<1>5. ASSUME NEW k \in Sockets, ReceiveHello(k) PROVE SessionInv'
  BY <1>5, HelloKeeps
<1>6. ASSUME NEW k \in Sockets, ReceiveAck(k) PROVE SessionInv'
  BY <1>6, AckKeeps
<1>7. ASSUME NEW k \in Sockets, Dispatch(k) PROVE SessionInv'
  <2>1. Fields /\ Genuine /\ Truthful
    BY DEF SessionInv
  <2>2. /\ Genuine' /\ Truthful' /\ lastSeenSeq' \in [Sockets -> Nat]
        /\ joined' \in [Sockets -> SUBSET Rooms]
    BY <1>7, <2>1, DispatchTruthful
  <2>3. UNCHANGED <<todo, state, ws, isExplicitlyClosed, reconnectTimer,
          connectionTimeoutTimer, closing, currentSeq, desiredRooms, sock, node>>
    BY <1>7 DEF Dispatch, client
  <2> QED
    BY <2>1, <2>2, <2>3 DEF SessionInv, Fields, StaysClosed
<1>8. CASE Disconnect
  BY <1>8, DisconnectKeeps
<1>9. CASE ConnectionTimeout \/ DisconnectGivesUp
  BY <1>9, SocketKeeps
<1>10. CASE UNCHANGED vars
  BY <1>10 DEF vars, client, sending, server, SessionInv, Fields, StaysClosed, Genuine,
               Truthful, Ran, AckedWasExecuted, OncePerNode
<1> QED
  BY <1>1, <1>2, <1>3, <1>4, <1>5, <1>6, <1>7, <1>8, <1>9, <1>10 DEF Next

\* What the session sends again is what the application sent, and what the nodes
\* acknowledge they executed: the invariant the theorems below rest on.
THEOREM SessionInvariant == Spec => []SessionInv
  BY SessionInit, SessionNext, PTL DEF Spec

\* A promise that sendEnvelope resolved stands for an event some node executed,
\* through any retries, reconnects and late ACKs.
THEOREM AckIsTrue == Spec => []AckedWasExecuted
<1>1. SessionInv => AckedWasExecuted
  BY DEF SessionInv, Truthful
<1> QED
  BY <1>1, SessionInvariant, PTL

\* No node executes a message of the session twice.
THEOREM MessageRunsOnce == Spec => []OncePerNode
<1>1. SessionInv => OncePerNode
  BY DEF SessionInv, Truthful
<1> QED
  BY <1>1, SessionInvariant, PTL

\* A session the application closed has no timer that could open a socket.
THEOREM ClosedStaysClosed == Spec => []StaysClosed
<1>1. SessionInv => StaysClosed
  BY DEF SessionInv, Fields
<1> QED
  BY <1>1, SessionInvariant, PTL

\* Fields, queues and frames keep their types; the queue never holds more than
\* queueCapacity entries, none of them retried more than maxRetries times.
THEOREM SessionTypes == Spec => []TypeOK
<1>1. SessionInv => TypeOK
  BY DEF SessionInv, Fields, Genuine, Truthful, Tracks, TypeOK
<1> QED
  BY <1>1, SessionInvariant, PTL

-----------------------------------------------------------------------------
(***************************************************************************)
(* The dashboard                                                           *)
(***************************************************************************)

\* The socket the hook holds is one it listens to and that has not closed; a timer
\* runs only while the hook is mounted and wants a connection, and then it knows
\* where to.
Held ==
  /\ ref # 0 => ref \in attached /\ ready[ref] # "closed"
  /\ timer => mounted /\ shouldConnect /\ ~intentional
  /\ shouldConnect => mounted /\ activeUrl # "none"

Control == Held /\ NoOrphanSocket /\ NeverStuck

\* Only messages the sandbox sent are shown as pending.
PendingSent ==
  \A i \in DOMAIN activities : activities[i].status = "pending" => activities[i].dir = "sent"

Answers == PendingSent /\ NoMissedAck

\* The types of what concerns sockets and attempts, and of the rest.
LinkTypes ==
  /\ ready \in [WebSockets -> {"closed", "connecting", "open", "closing"}]
  /\ attached \subseteq WebSockets /\ ref \in WebSockets \cup {0}
  /\ status \in Status
  /\ shouldConnect \in BOOLEAN /\ intentional \in BOOLEAN
  /\ activeUrl \in Urls \cup {"none"}
  /\ timer \in BOOLEAN /\ attempts \in 0..MaxAttempts
  /\ mounted \in BOOLEAN /\ stored \in Urls \cup {"none"}

TalkTypes ==
  /\ subscribed \subseteq SandboxRooms /\ asked \in [WebSockets -> SUBSET SandboxRooms]
  /\ activities \in Seq(Activity) /\ Len(activities) <= MaxActivities
  /\ wire \in [WebSockets -> Seq(Correlations)] /\ lost \subseteq Correlations
  /\ burst \in 0..BurstBatches

DashboardInv ==
  DashboardConstants /\ LinkTypes /\ TalkTypes /\ Control /\ RoomsRestored /\ Answers

\* cleanupSocket leaves no socket open or opening.
LEMMA NothingLive ==
  ASSUME DashboardInv
  PROVE  /\ Cleaned \in [WebSockets -> {"closed", "connecting", "open", "closing"}]
         /\ \A s \in WebSockets : Cleaned[s] \notin {"open", "connecting"}
         /\ \A s \in WebSockets : ready[s] = "closed" => Cleaned[s] = "closed"
  BY DEF DashboardInv, LinkTypes, Control, NoOrphanSocket, Cleaned, Live

\* What is forgotten with a socket is known to be lost.
LEMMA ForgottenTypes ==
  ASSUME DashboardInv, Forget
  PROVE  wire' \in [WebSockets -> Seq(Correlations)] /\ lost' \subseteq Correlations
<1>1. ref \in WebSockets \cup {0} /\ wire \in [WebSockets -> Seq(Correlations)]
      /\ lost \subseteq Correlations
  BY DEF DashboardInv, LinkTypes, TalkTypes
<1>2. wire' \in [WebSockets -> Seq(Correlations)]
  BY <1>1 DEF Forget
<1>3. CASE ref = 0
  BY <1>1, <1>2, <1>3 DEF Forget
<1>4. CASE ref # 0
  <2>1. wire[ref] \in Seq(Correlations)
    BY <1>1, <1>4
  <2>2. ToSet(wire[ref]) \subseteq Correlations
    BY <2>1, ElementOfSeq DEF ToSet
  <2> QED
    BY <1>1, <1>2, <1>4, <2>2 DEF Forget
<1> QED
  BY <1>3, <1>4

\* So a message whose answer cannot come any more is not missed.
LEMMA ForgetKeeps ==
  ASSUME DashboardInv, Forget, activities' = activities
  PROVE  /\ wire' \in [WebSockets -> Seq(Correlations)] /\ lost' \subseteq Correlations
         /\ Answers'
<1>1. lost \subseteq lost' /\ (ref # 0 => ToSet(wire[ref]) \subseteq lost')
  BY DEF Forget
<1>2. \A i \in DOMAIN activities : activities[i].status = "pending" => activities[i].corr \in lost'
  BY <1>1 DEF DashboardInv, Answers, NoMissedAck, RefOpen
<1>3. PendingSent' /\ NoMissedAck'
  BY <1>2 DEF DashboardInv, Answers, PendingSent, NoMissedAck
<1> QED
  BY <1>3, ForgottenTypes DEF Answers

\* scheduleReconnect gives up or sets the timer.
LEMMA ScheduleTypes ==
  ASSUME DashboardConstants, NEW n \in 0..MaxAttempts, ScheduleAttempt(n)
  PROVE  /\ status' \in Status /\ timer' \in BOOLEAN /\ shouldConnect' \in BOOLEAN
         /\ attempts' \in 0..MaxAttempts
         /\ timer' = shouldConnect'
         /\ status' = IF timer' THEN "reconnecting" ELSE "disconnected"
<1>1. CASE n >= MaxAttempts
  BY <1>1 DEF ScheduleAttempt, DashboardConstants, Status
<1>2. CASE ~(n >= MaxAttempts)
  <2>1. n + 1 \in 0..MaxAttempts
    BY <1>2 DEF DashboardConstants
  <2> QED
    BY <1>2, <2>1 DEF ScheduleAttempt, DashboardConstants, Status
<1> QED
  BY <1>1, <1>2

\* doConnect, whoever calls it and whether or not the URL is a good one.
LEMMA OpenKeepsControl ==
  ASSUME DashboardInv, NEW url \in Urls, NEW b \in BOOLEAN, NEW n \in 0..MaxAttempts,
         OpenSocket(url, b, n), mounted', intentional' = FALSE, activeUrl' = url,
         stored' = stored, subscribed' = subscribed, activities' = activities, burst' = burst
  PROVE  DashboardInv'
<1>0. DashboardConstants /\ LinkTypes /\ TalkTypes /\ 0 \notin WebSockets /\ url # "none"
  BY DEF DashboardInv, DashboardConstants, Urls
<1>1. /\ Cleaned \in [WebSockets -> {"closed", "connecting", "open", "closing"}]
      /\ \A s \in WebSockets : Cleaned[s] \notin {"open", "connecting"}
      /\ \A s \in WebSockets : ready[s] = "closed" => Cleaned[s] = "closed"
  BY NothingLive
<1>2. Forget
  BY DEF OpenSocket, CleanupSocket
<1>3. /\ wire' \in [WebSockets -> Seq(Correlations)] /\ lost' \subseteq Correlations
      /\ Answers'
  BY <1>2, ForgetKeeps
<1>4. DashboardConstants'
  BY <1>0 DEF DashboardConstants
<1>5. CASE url \in BadUrls
  <2>1. /\ ready' = Cleaned /\ attached' = attached \ {ref} /\ ref' = 0
        /\ ScheduleAttempt(n) /\ asked' = asked
    BY <1>5 DEF OpenSocket, CleanupSocket
  <2>2. /\ status' \in Status /\ timer' \in BOOLEAN /\ shouldConnect' \in BOOLEAN
        /\ attempts' \in 0..MaxAttempts
        /\ timer' = shouldConnect'
        /\ status' = IF timer' THEN "reconnecting" ELSE "disconnected"
    BY <1>0, <2>1, ScheduleTypes
  <2>3. LinkTypes'
    BY <1>0, <1>1, <2>1, <2>2 DEF LinkTypes, Status
  <2>4. TalkTypes'
    BY <1>0, <1>3, <2>1 DEF TalkTypes, Activity
  <2>5. Held' /\ NoOrphanSocket'
    BY <1>0, <1>1, <2>1, <2>2 DEF Held, NoOrphanSocket, Live
  <2>6. NeverStuck' /\ RoomsRestored'
    BY <2>1, <2>2 DEF NeverStuck, RefLive, RefOpen, RoomsRestored
  <2> QED
    BY <1>3, <1>4, <2>3, <2>4, <2>5, <2>6 DEF DashboardInv, Control
<1>6. CASE url \notin BadUrls
  <2>1. PICK new \in WebSockets :
           /\ ready[new] = "closed"
           /\ ready' = [Cleaned EXCEPT ![new] = "connecting"]
           /\ attached' = (attached \ {ref}) \cup {new}
           /\ ref' = new
           /\ asked' = [asked EXCEPT ![new] = {}]
           /\ status' = IF b THEN "reconnecting" ELSE "connecting"
           /\ timer' = FALSE /\ attempts' = n /\ shouldConnect' = TRUE
    BY <1>6 DEF OpenSocket
  <2>2. LinkTypes'
    BY <1>0, <1>1, <2>1 DEF LinkTypes, Status
  <2>3. TalkTypes'
    BY <1>0, <1>3, <2>1 DEF TalkTypes, Activity
  <2>4. Held' /\ NoOrphanSocket'
    BY <1>0, <1>1, <2>1 DEF Held, NoOrphanSocket, Live
  <2>5. NeverStuck' /\ RoomsRestored'
    BY <1>0, <1>1, <2>1 DEF NeverStuck, RefLive, RefOpen, RoomsRestored, Live
  <2> QED
    BY <1>3, <1>4, <2>2, <2>3, <2>4, <2>5 DEF DashboardInv, Control
<1> QED
  BY <1>5, <1>6

\* connect keeps a socket that is open or opening, and opens one otherwise.
LEMMA ConnectKeeps ==
  ASSUME DashboardInv, NEW url \in Urls, HookConnect(url), mounted',
         stored' = stored, subscribed' = subscribed, activities' = activities, burst' = burst
  PROVE  DashboardInv'
<1>0. DashboardConstants /\ LinkTypes /\ TalkTypes /\ 0 \in 0..MaxAttempts /\ url # "none"
  BY DEF DashboardInv, DashboardConstants, Urls
<1>1. CASE RefLive
  <2>1. /\ intentional' = FALSE /\ activeUrl' = url
        /\ shouldConnect' = TRUE /\ timer' = FALSE /\ attempts' = 0
        /\ UNCHANGED <<ready, attached, ref, status, asked, wire, lost>>
    BY <1>1 DEF HookConnect, link
  <2>2. LinkTypes' /\ TalkTypes' /\ DashboardConstants'
    BY <1>0, <2>1 DEF LinkTypes, TalkTypes, Status, Activity, DashboardConstants
  <2>3. Control'
    BY <1>0, <1>1, <2>1 DEF DashboardInv, Control, Held, NoOrphanSocket, NeverStuck,
                            RefLive, RefOpen, Live
  <2>4. RoomsRestored' /\ Answers'
    BY <2>1 DEF DashboardInv, RoomsRestored, RefOpen, Answers, PendingSent,
                NoMissedAck, ToSet
  <2> QED
    BY <2>2, <2>3, <2>4 DEF DashboardInv
<1>2. CASE ~RefLive
  <2>1. intentional' = FALSE /\ activeUrl' = url /\ OpenSocket(url, FALSE, 0)
    BY <1>2 DEF HookConnect
  <2> QED
    BY <1>0, <2>1, OpenKeepsControl
<1> QED
  BY <1>1, <1>2

\* The user connects, the timer fires, the tab is shown again, or the sandbox is
\* mounted and resumes its session: each calls doConnect with a URL and while mounted.
LEMMA AttemptKeeps ==
  ASSUME DashboardInv,
         \/ \E u \in Urls : ToggleConnect(u)
         \/ TimerFires \/ Visible \/ Mount
  PROVE  DashboardInv'
<1>0. DashboardConstants /\ LinkTypes /\ TalkTypes /\ Control
  BY DEF DashboardInv
<1>1. ASSUME NEW u \in Urls, ToggleConnect(u) PROVE DashboardInv'
  <2>1. /\ HookConnect(u) /\ mounted'
        /\ stored' = stored /\ subscribed' = subscribed /\ activities' = activities
        /\ burst' = burst
    BY <1>1 DEF ToggleConnect, page
  <2> QED
    BY <2>1, ConnectKeeps
<1>2. CASE TimerFires
  <2>1. /\ timer /\ intentional' = intentional /\ activeUrl' = activeUrl /\ mounted' = mounted
        /\ stored' = stored /\ subscribed' = subscribed /\ activities' = activities
        /\ burst' = burst
    BY <1>2 DEF TimerFires, page
  <2>2. mounted /\ shouldConnect /\ intentional = FALSE /\ activeUrl # "none"
    BY <1>0, <2>1 DEF Control, Held, LinkTypes
  <2>3. OpenSocket(activeUrl, TRUE, attempts)
    BY <1>2, <2>2 DEF TimerFires
  <2>4. activeUrl \in Urls /\ attempts \in 0..MaxAttempts
    BY <1>0, <2>2 DEF LinkTypes
  <2> QED
    BY <2>1, <2>2, <2>3, <2>4, OpenKeepsControl
<1>3. CASE Visible
  <2>1. /\ intentional' = intentional /\ activeUrl' = activeUrl /\ mounted' = mounted
        /\ stored' = stored /\ subscribed' = subscribed /\ activities' = activities
        /\ burst' = burst /\ mounted /\ ~intentional /\ activeUrl # "none"
        /\ OpenSocket(activeUrl, TRUE, attempts)
    BY <1>3 DEF Visible, page
  <2>2. activeUrl \in Urls /\ attempts \in 0..MaxAttempts /\ intentional = FALSE
    BY <1>0, <2>1 DEF LinkTypes
  <2> QED
    BY <2>1, <2>2, OpenKeepsControl
<1>4. CASE Mount
  <2>1. /\ ~mounted /\ mounted' = TRUE
        /\ stored' = stored /\ subscribed' = subscribed /\ activities' = activities
        /\ burst' = burst
    BY <1>4 DEF Mount
  <2>2. CASE stored = "none"
    <3>1. /\ UNCHANGED <<ready, attached, ref, status, shouldConnect, intentional, activeUrl,
               timer, attempts, asked, wire, lost>>
      BY <1>4, <2>2 DEF Mount, link, policy
    <3>2. LinkTypes' /\ TalkTypes' /\ DashboardConstants'
      BY <1>0, <2>1, <3>1 DEF LinkTypes, TalkTypes, Status, Activity, DashboardConstants
    <3>3. Control'
      BY <1>0, <2>1, <3>1 DEF Control, Held, NoOrphanSocket, NeverStuck,
                              RefLive, RefOpen, Live
    <3>4. RoomsRestored' /\ Answers'
      BY <2>1, <3>1 DEF DashboardInv, RoomsRestored, RefOpen, Answers, PendingSent,
                        NoMissedAck, ToSet
    <3> QED
      BY <3>2, <3>3, <3>4 DEF DashboardInv
  <2>3. CASE stored # "none"
    <3>1. HookConnect(stored) /\ stored \in Urls
      BY <1>0, <1>4, <2>3 DEF Mount, LinkTypes
    <3> QED
      BY <2>1, <3>1, ConnectKeeps
  <2> QED
    BY <2>2, <2>3
<1> QED
  BY <1>1, <1>2, <1>3, <1>4

\* The user disconnects, or leaves the sandbox.
LEMMA CleanupKeeps ==
  ASSUME DashboardInv, ToggleDisconnect \/ Unmount
  PROVE  DashboardInv'
<1>0. DashboardConstants /\ LinkTypes /\ TalkTypes /\ Control /\ 0 \in 0..MaxAttempts
      /\ 0 \in 0..BurstBatches
  BY DEF DashboardInv, DashboardConstants
<1>1. /\ ready' = Cleaned /\ attached' = attached \ {ref} /\ ref' = 0 /\ Forget
      /\ asked' = asked /\ status' = "disconnected" /\ timer' = FALSE /\ attempts' = 0
      /\ shouldConnect' = FALSE /\ intentional' \in BOOLEAN
      /\ activeUrl' \in {activeUrl, "none"} /\ subscribed' \in {subscribed, {}}
      /\ burst' \in {burst, 0} /\ mounted' \in {mounted, FALSE}
      /\ stored' \in {"none", stored, activeUrl}
      /\ activities' \in {activities, <<>>}
  BY DEF ToggleDisconnect, Unmount, CleanupSocket
<1>2. /\ Cleaned \in [WebSockets -> {"closed", "connecting", "open", "closing"}]
      /\ \A s \in WebSockets : Cleaned[s] \notin {"open", "connecting"}
  BY NothingLive
<1>3. LinkTypes'
  BY <1>0, <1>1, <1>2 DEF LinkTypes, Status
<1>4. Control'
  BY <1>1, <1>2 DEF Control, Held, NoOrphanSocket, NeverStuck, RefLive, RefOpen,
                    Live
<1>5. RoomsRestored' /\ DashboardConstants'
  BY <1>0, <1>1 DEF RoomsRestored, RefOpen, DashboardConstants
<1>6. CASE activities' = activities
  <2>1. /\ wire' \in [WebSockets -> Seq(Correlations)] /\ lost' \subseteq Correlations
        /\ Answers'
    BY <1>1, <1>6, ForgetKeeps
  <2>2. TalkTypes'
    BY <1>0, <1>1, <1>6, <2>1 DEF TalkTypes, Activity
  <2> QED
    BY <1>3, <1>4, <1>5, <2>1, <2>2 DEF DashboardInv
<1>7. CASE activities' = <<>>
  <2>1. wire' \in [WebSockets -> Seq(Correlations)] /\ lost' \subseteq Correlations
    BY <1>1, ForgottenTypes
  <2>2. activities' \in Seq(Activity) /\ Len(activities') <= MaxActivities
    BY <1>0, <1>7 DEF DashboardConstants
  <2>3. TalkTypes'
    BY <1>0, <1>1, <2>1, <2>2 DEF TalkTypes, Activity
  <2>4. Answers'
    BY <1>7 DEF Answers, PendingSent, NoMissedAck
  <2> QED
    BY <1>3, <1>4, <1>5, <2>3, <2>4 DEF DashboardInv
<1> QED
  BY <1>1, <1>6, <1>7

\* A socket opens, is dropped, or is closed at last.  One that is open or opening is
\* the one the hook holds and listens to, so that its handlers run.
LEMMA EventKeeps ==
  ASSUME DashboardInv, NEW s \in WebSockets,
         SocketOpens(s) \/ SocketDrops(s) \/ ServerCloses(s) \/ CloseCompletes(s)
  PROVE  DashboardInv'
<1>0. DashboardConstants /\ LinkTypes /\ TalkTypes /\ Control /\ 0 \notin WebSockets
  BY DEF DashboardInv, DashboardConstants
<1>1. DashboardConstants'
  BY <1>0 DEF DashboardConstants
<1>2. Live(s) => Heard(s) /\ ref = s /\ mounted /\ shouldConnect /\ ~intentional
  BY <1>0 DEF Control, Held, NoOrphanSocket, Heard
<1>3. CASE SocketOpens(s)
  <2>1. Live(s)
    BY <1>3 DEF SocketOpens, Live
  <2>2. /\ ready' = [ready EXCEPT ![s] = "open"]
        /\ status' = "connected" /\ attempts' = 0
        /\ asked' = [asked EXCEPT ![s] = subscribed]
        /\ UNCHANGED <<attached, ref, shouldConnect, intentional, activeUrl, timer,
             subscribed, activities, wire, lost, mounted, stored, burst>>
    BY <1>2, <1>3, <2>1 DEF SocketOpens, OnOpen, talk, page
  <2>3. LinkTypes'
    <3>1. 0 \in 0..MaxAttempts
      BY <1>0 DEF DashboardConstants
    <3> QED
      BY <1>0, <2>2, <3>1 DEF LinkTypes, Status
  <2>4. TalkTypes'
    BY <1>0, <2>2 DEF TalkTypes, Activity
  <2>5. ready'[s] = "open" /\ asked'[s] = subscribed
    BY <1>0, <2>2 DEF LinkTypes, TalkTypes
  <2>6. Control'
    BY <1>0, <1>2, <2>1, <2>2, <2>5
       DEF LinkTypes, Control, Held, NoOrphanSocket, NeverStuck, RefLive, RefOpen, Live
  <2>7. RoomsRestored'
    BY <1>2, <2>1, <2>2, <2>5 DEF RoomsRestored
  <2>8. Answers'
    BY <1>2, <1>3, <2>1, <2>2 DEF DashboardInv, Answers, PendingSent, NoMissedAck, RefOpen,
                                 SocketOpens
  <2> QED
    BY <1>1, <2>3, <2>4, <2>6, <2>7, <2>8 DEF DashboardInv
<1>4. CASE SocketDrops(s)
  <2>1. Live(s) /\ Heard(s) /\ ref = s /\ mounted /\ shouldConnect /\ ~intentional
    BY <1>2, <1>4 DEF SocketDrops
  <2>2. /\ ready' = [ready EXCEPT ![s] = "closed"] /\ ref' = 0 /\ Forget
        /\ ScheduleAttempt(attempts)
        /\ UNCHANGED <<attached, intentional, activeUrl, subscribed, asked, activities,
             mounted, stored, burst>>
    BY <1>4, <2>1 DEF SocketDrops, OnClose, page
  <2>3. /\ status' \in Status /\ timer' \in BOOLEAN /\ shouldConnect' \in BOOLEAN
        /\ attempts' \in 0..MaxAttempts
        /\ timer' = shouldConnect'
        /\ status' = IF timer' THEN "reconnecting" ELSE "disconnected"
    BY <1>0, <2>2, ScheduleTypes DEF LinkTypes
  <2>4. /\ wire' \in [WebSockets -> Seq(Correlations)] /\ lost' \subseteq Correlations
        /\ Answers'
    BY <2>2, ForgetKeeps
  <2>5. LinkTypes'
    BY <1>0, <2>2, <2>3 DEF LinkTypes, Status
  <2>6. TalkTypes'
    BY <1>0, <2>2, <2>4 DEF TalkTypes, Activity
  <2>7. Held' /\ NoOrphanSocket'
    BY <1>0, <2>1, <2>2, <2>3 DEF LinkTypes, Control, Held, NoOrphanSocket, Live
  <2>8. NeverStuck' /\ RoomsRestored'
    BY <2>2, <2>3 DEF NeverStuck, RefLive, RefOpen, RoomsRestored
  <2> QED
    BY <1>1, <2>4, <2>5, <2>6, <2>7, <2>8 DEF DashboardInv, Control
<1>5. CASE ServerCloses(s)
  <2>1. Live(s) /\ ref = s
    BY <1>2, <1>5 DEF ServerCloses, Live
  <2>2. /\ ready[s] = "open" /\ ready' = [ready EXCEPT ![s] = "closing"] /\ Forget
        /\ UNCHANGED <<attached, ref, status, shouldConnect, intentional, activeUrl, timer,
             attempts, subscribed, asked, activities, mounted, stored, burst>>
    BY <1>5, <2>1 DEF ServerCloses, policy, page
  <2>3. /\ wire' \in [WebSockets -> Seq(Correlations)] /\ lost' \subseteq Correlations
        /\ Answers'
    BY <2>2, ForgetKeeps
  <2>4. LinkTypes' /\ TalkTypes'
    BY <1>0, <2>2, <2>3 DEF LinkTypes, TalkTypes, Status, Activity
  <2>5. Held' /\ NoOrphanSocket'
    BY <1>0, <2>1, <2>2 DEF LinkTypes, Control, Held, NoOrphanSocket, Live
  <2>6. ready'[s] = "closing" /\ s # 0 /\ status = "connected" /\ s \in attached
    BY <1>0, <2>1, <2>2 DEF LinkTypes, Control, Held, NeverStuck, RefOpen
  <2>7. NeverStuck' /\ RoomsRestored'
    BY <2>1, <2>2, <2>6 DEF NeverStuck, RefLive, RefOpen, RoomsRestored
  <2> QED
    BY <1>1, <2>3, <2>4, <2>5, <2>7 DEF DashboardInv, Control
<1>6. CASE CloseCompletes(s) /\ ref = s
  <2>1. Heard(s)
    BY <1>0, <1>6 DEF CloseCompletes, Control, Held, Heard
  <2>2. /\ ready[s] = "closing" /\ ready' = [ready EXCEPT ![s] = "closed"] /\ ref' = 0
        /\ OnClose(s)
        /\ UNCHANGED <<attached, intentional, activeUrl, subscribed, asked, activities,
             wire, lost, mounted, stored, burst>>
    BY <1>6, <2>1 DEF CloseCompletes, OnClose, talk, page
  <2>3. /\ status' \in {"reconnecting", "disconnected"} /\ timer' \in BOOLEAN
        /\ shouldConnect' \in BOOLEAN /\ attempts' \in 0..MaxAttempts
        /\ status' = "reconnecting" => timer'
        /\ timer' => mounted /\ shouldConnect' /\ ~intentional
        /\ shouldConnect' => shouldConnect
    <3>1. CASE intentional \/ ~shouldConnect
      BY <1>0, <2>2, <3>1 DEF OnClose, LinkTypes, Control, Held
    <3>2. CASE ~intentional /\ shouldConnect
      <4>1. ScheduleAttempt(attempts)
        BY <2>2, <3>2 DEF OnClose
      <4>2. /\ timer' \in BOOLEAN /\ shouldConnect' \in BOOLEAN
            /\ attempts' \in 0..MaxAttempts /\ timer' = shouldConnect'
            /\ status' = IF timer' THEN "reconnecting" ELSE "disconnected"
        BY <1>0, <4>1, ScheduleTypes DEF LinkTypes
      <4> QED
        BY <1>0, <3>2, <4>2 DEF Control, Held
    <3> QED
      BY <3>1, <3>2
  <2>4. LinkTypes' /\ TalkTypes'
    BY <1>0, <2>2, <2>3 DEF LinkTypes, TalkTypes, Status, Activity
  <2>5. Held' /\ NoOrphanSocket'
    BY <1>0, <1>6, <2>2, <2>3 DEF LinkTypes, Control, Held, NoOrphanSocket, Live
  <2>6. NeverStuck' /\ RoomsRestored'
    BY <2>2, <2>3 DEF NeverStuck, RefLive, RefOpen, RoomsRestored
  <2>7. Answers'
    BY <1>6, <2>2 DEF DashboardInv, Answers, PendingSent, NoMissedAck, RefOpen
  <2> QED
    BY <1>1, <2>4, <2>5, <2>6, <2>7 DEF DashboardInv, Control
<1>7. CASE CloseCompletes(s) /\ ref # s
  <2>1. /\ ready[s] = "closing" /\ ready' = [ready EXCEPT ![s] = "closed"]
        /\ UNCHANGED <<attached, ref, status, shouldConnect, intentional, activeUrl, timer,
             attempts, subscribed, asked, activities, wire, lost, mounted, stored, burst>>
    BY <1>7 DEF CloseCompletes, Heard, talk, page
  <2>2. LinkTypes' /\ TalkTypes'
    BY <1>0, <2>1 DEF LinkTypes, TalkTypes, Status, Activity
  <2>3. Control'
    BY <1>0, <1>7, <2>1
       DEF LinkTypes, Control, Held, NoOrphanSocket, NeverStuck, RefLive, RefOpen, Live
  <2>4. RoomsRestored' /\ Answers'
    BY <1>0, <1>7, <2>1 DEF DashboardInv, LinkTypes, RoomsRestored, RefOpen, Answers,
                            PendingSent, NoMissedAck, ToSet
  <2> QED
    BY <1>1, <2>2, <2>3, <2>4 DEF DashboardInv
<1> QED
  BY <1>3, <1>4, <1>5, <1>6, <1>7

\* The rooms asked for on the open socket follow the subscribed ones, and the load
\* generator changes neither.
LEMMA RoomKeeps ==
  ASSUME DashboardInv,
         \/ \E r \in SandboxRooms : Subscribe(r) \/ Unsubscribe(r)
         \/ TriggerBurst \/ SendBatch
  PROVE  DashboardInv'
<1>0. DashboardConstants /\ LinkTypes /\ TalkTypes /\ Control /\ 0 \notin WebSockets
  BY DEF DashboardInv, DashboardConstants
<1>1. /\ UNCHANGED <<ready, attached, ref, status, shouldConnect, intentional, activeUrl,
           timer, attempts, activities, wire, lost, mounted, stored>>
  BY DEF Subscribe, Unsubscribe, TriggerBurst, SendBatch, link, policy, talk, page
<1>2. LinkTypes' /\ Control' /\ DashboardConstants'
  BY <1>0, <1>1 DEF LinkTypes, Status, Control, Held, NoOrphanSocket, NeverStuck,
                    RefLive, RefOpen, Live, DashboardConstants
<1>3. Answers'
  BY <1>1 DEF DashboardInv, Answers, PendingSent, NoMissedAck, RefOpen, ToSet
<1>4. ASSUME NEW r \in SandboxRooms, Subscribe(r) \/ Unsubscribe(r)
      PROVE  TalkTypes' /\ RoomsRestored'
  <2>1. /\ ref \in WebSockets /\ asked[ref] = subscribed /\ burst' = burst
        /\ subscribed' \subseteq SandboxRooms /\ asked' = [asked EXCEPT ![ref] = subscribed']
    <3>1. RefOpen
      BY <1>4 DEF Subscribe, Unsubscribe
    <3>2. ref \in WebSockets /\ asked[ref] = subscribed
      BY <1>0, <3>1 DEF DashboardInv, RoomsRestored, LinkTypes, RefOpen
    <3> QED
      BY <1>0, <1>4, <3>2 DEF Subscribe, Unsubscribe, TalkTypes, page
  <2> QED
    BY <1>0, <1>1, <2>1 DEF TalkTypes, Activity, RoomsRestored
<1>5. ASSUME TriggerBurst \/ SendBatch PROVE TalkTypes' /\ RoomsRestored'
  <2>1. subscribed' = subscribed /\ asked' = asked
    BY <1>5 DEF TriggerBurst, SendBatch
  <2>2. burst' \in 0..BurstBatches
    <3>1. BurstBatches \in Nat /\ burst \in 0..BurstBatches
      BY <1>0 DEF TalkTypes, DashboardConstants
    <3>2. CASE burst' = BurstBatches
      BY <3>1, <3>2
    <3>3. CASE burst > 0 /\ burst' = IF RefOpen THEN burst - 1 ELSE 0
      BY <3>1, <3>3
    <3> QED
      BY <1>5, <3>2, <3>3 DEF TriggerBurst, SendBatch
  <2>3. TalkTypes'
    BY <1>0, <1>1, <2>1, <2>2 DEF TalkTypes, Activity
  <2>4. RoomsRestored'
    BY <1>1, <2>1 DEF DashboardInv, RoomsRestored, RefOpen
  <2> QED
    BY <2>3, <2>4
<1>6. TalkTypes' /\ RoomsRestored'
  BY <1>4, <1>5
<1> QED
  BY <1>2, <1>3, <1>6 DEF DashboardInv

\* setActivities keeps entries of the list and at most MAX_ACTIVITIES_BUFFER of them.
LEMMA NewestOf ==
  ASSUME DashboardConstants, NEW seq \in Seq(Activity)
  PROVE  /\ Newest(seq) \in Seq(Activity) /\ Len(Newest(seq)) <= MaxActivities
         /\ \A i \in DOMAIN Newest(seq) : \E j \in DOMAIN seq : Newest(seq)[i] = seq[j]
<1>1. MaxActivities \in Nat /\ MaxActivities > 0 /\ Len(seq) \in Nat
  BY DEF DashboardConstants
<1>2. CASE Len(seq) > MaxActivities
  <2> DEFINE m == Len(seq) - MaxActivities + 1
             n == Len(seq)
  <2>1. m \in 1..Len(seq) /\ n \in 1..Len(seq) /\ n - m + 1 = MaxActivities /\ m <= n
    BY <1>1, <1>2
  <2>2. Newest(seq) = SubSeq(seq, m, n)
    BY <1>2 DEF Newest
  <2> HIDE DEF m, n
  <2>3. /\ SubSeq(seq, m, n) \in Seq(Activity)
        /\ Len(SubSeq(seq, m, n)) = IF m <= n THEN n - m + 1 ELSE 0
        /\ \A i \in 1 .. n - m + 1 : SubSeq(seq, m, n)[i] = seq[m + i - 1]
    BY <2>1, SubSeqProperties
  <2>4. Len(SubSeq(seq, m, n)) = MaxActivities
    BY <2>1, <2>3
  <2>5. ASSUME NEW i \in DOMAIN SubSeq(seq, m, n)
        PROVE  \E j \in DOMAIN seq : SubSeq(seq, m, n)[i] = seq[j]
    <3>1. i \in 1..MaxActivities
      BY <2>3, <2>4
    <3>2. m + i - 1 \in DOMAIN seq /\ i \in 1..(n - m + 1)
      BY <1>1, <2>1, <3>1 DEF n
    <3> QED
      BY <2>3, <3>2
  <2> QED
    BY <1>1, <2>2, <2>3, <2>4, <2>5
<1>3. CASE ~(Len(seq) > MaxActivities)
  BY <1>1, <1>3 DEF Newest
<1> QED
  BY <1>2, <1>3

\* A message is sent or received, or the list is cleared: each entry that is
\* pending afterwards was so before, or is the one just sent.
LEMMA ListKeeps ==
  ASSUME DashboardInv,
         \/ \E k \in Correlations : BroadcastMessage(k)
         \/ \E s \in WebSockets : Receive(s)
         \/ ClearActivities
  PROVE  DashboardInv'
<1>0. DashboardConstants /\ LinkTypes /\ TalkTypes /\ Control /\ 0 \notin WebSockets
  BY DEF DashboardInv, DashboardConstants
<1>1. /\ UNCHANGED <<ready, attached, ref, status, shouldConnect, intentional, activeUrl,
           timer, attempts, mounted, stored, subscribed, asked, lost, burst>>
  BY DEF BroadcastMessage, Receive, ClearActivities, link, policy, page
<1>2. LinkTypes' /\ Control' /\ DashboardConstants' /\ RoomsRestored'
  BY <1>0, <1>1 DEF DashboardInv, LinkTypes, Status, Control, Held, NoOrphanSocket,
                    NeverStuck, RefLive, RefOpen, Live, DashboardConstants, RoomsRestored
<1>3. ASSUME NEW x \in Activity, activities' = Newest(Append(activities, x)),
             x.status = "pending" => x.dir = "sent",
             x.status = "pending" => RefOpen /\ x.corr \in ToSet(wire'[ref]),
             RefOpen => ToSet(wire[ref]) \subseteq ToSet(wire'[ref]),
             wire' \in [WebSockets -> Seq(Correlations)]
      PROVE  TalkTypes' /\ Answers'
  <2> DEFINE all == Append(activities, x)
  <2>1. /\ all \in Seq(Activity)
        /\ \A j \in DOMAIN all : all[j] = x \/ \E i \in DOMAIN activities : all[j] = activities[i]
    BY <1>0 DEF TalkTypes
  <2> HIDE DEF all
  <2>2. /\ activities' \in Seq(Activity) /\ Len(activities') <= MaxActivities
        /\ \A i \in DOMAIN activities' : \E j \in DOMAIN all : activities'[i] = all[j]
    <3>1. activities' = Newest(all)
      BY <1>3 DEF all
    <3> QED
      BY <1>0, <2>1, <3>1, NewestOf
  <2>3. \A i \in DOMAIN activities' :
          activities'[i] = x \/ \E j \in DOMAIN activities : activities'[i] = activities[j]
    BY <2>1, <2>2
  <2>4. TalkTypes'
    BY <1>0, <1>1, <1>3, <2>2 DEF TalkTypes, Activity
  <2>5. PendingSent'
    BY <1>3, <2>3 DEF DashboardInv, Answers, PendingSent
  <2>6. ASSUME NEW y, y.status = "pending",
               y = x \/ \E j \in DOMAIN activities : y = activities[j]
        PROVE  y.corr \in lost \/ (RefOpen /\ y.corr \in ToSet(wire'[ref]))
    <3>1. CASE y = x
      BY <1>3, <2>6, <3>1
    <3>2. CASE \E j \in DOMAIN activities : y = activities[j]
      <4>1. y.corr \in lost \/ (RefOpen /\ y.corr \in ToSet(wire[ref]))
        BY <2>6, <3>2 DEF DashboardInv, Answers, NoMissedAck
      <4> QED
        BY <1>3, <4>1
    <3> QED
      BY <2>6, <3>1, <3>2
  <2>7. NoMissedAck'
    BY <1>1, <2>3, <2>6 DEF NoMissedAck, RefOpen
  <2> QED
    BY <2>4, <2>5, <2>7 DEF Answers
<1>4. ASSUME NEW k \in Correlations, BroadcastMessage(k) PROVE TalkTypes' /\ Answers'
  <2> DEFINE x == [dir |-> "sent", corr |-> k, status |-> "pending"]
  <2>1. /\ RefOpen /\ ref \in WebSockets /\ wire' = [wire EXCEPT ![ref] = Append(wire[ref], k)]
        /\ activities' = Newest(Append(activities, x))
    BY <1>0, <1>4 DEF BroadcastMessage, RefOpen, LinkTypes
  <2>2. wire[ref] \in Seq(Correlations) /\ wire' \in [WebSockets -> Seq(Correlations)]
        /\ wire'[ref] = Append(wire[ref], k)
    BY <1>0, <2>1 DEF TalkTypes
  <2>3. k \in ToSet(Append(wire[ref], k))
        /\ ToSet(wire[ref]) \subseteq ToSet(Append(wire[ref], k))
    <3> DEFINE w == wire[ref]
    <3>1. /\ Len(w) \in Nat /\ DOMAIN w = 1..Len(w) /\ DOMAIN Append(w, k) = 1..Len(w) + 1
          /\ \A i \in 1..Len(w) : Append(w, k)[i] = w[i]
          /\ Append(w, k)[Len(w) + 1] = k
      BY <2>2, AppendProperties
    <3> HIDE DEF w
    <3>2. /\ Len(w) + 1 \in DOMAIN Append(w, k)
          /\ \A i \in DOMAIN w : i \in DOMAIN Append(w, k) /\ Append(w, k)[i] = w[i]
      BY <3>1
    <3>3. k \in ToSet(Append(w, k)) /\ ToSet(w) \subseteq ToSet(Append(w, k))
      BY <3>1, <3>2 DEF ToSet
    <3> QED
      BY <3>3 DEF w
  <2>4. x \in Activity /\ x.dir = "sent" /\ x.corr = k
    BY DEF Activity
  <2> HIDE DEF x
  <2> QED
    BY <1>0, <1>3, <2>1, <2>2, <2>3, <2>4
<1>5. ASSUME NEW s \in WebSockets, Receive(s) PROVE TalkTypes' /\ Answers'
  <2> DEFINE x == [dir |-> "received", corr |-> "none", status |-> "delivered"]
  <2>1. activities' = Newest(Append(activities, x)) /\ wire' = wire
    BY <1>5 DEF Receive
  <2>2. x \in Activity /\ x.status # "pending"
    BY DEF Activity
  <2> HIDE DEF x
  <2> QED
    BY <1>0, <1>3, <2>1, <2>2 DEF TalkTypes
<1>6. ASSUME ClearActivities PROVE TalkTypes' /\ Answers'
  <2>1. activities' = <<>> /\ wire' = wire
    BY <1>6 DEF ClearActivities
  <2>2. activities' \in Seq(Activity) /\ Len(activities') <= MaxActivities
    BY <1>0, <2>1 DEF DashboardConstants
  <2>3. TalkTypes'
    BY <1>0, <1>1, <2>1, <2>2 DEF TalkTypes, Activity
  <2>4. Answers'
    BY <2>1 DEF Answers, PendingSent, NoMissedAck
  <2> QED
    BY <2>3, <2>4
<1> QED
  BY <1>2, <1>4, <1>5, <1>6 DEF DashboardInv

\* An answer settles every entry of its correlation, or is counted as lost.
LEMMA AnswerKeeps ==
  ASSUME DashboardInv, NEW s \in WebSockets, ServerAnswers(s)
  PROVE  DashboardInv'
<1>0. DashboardConstants /\ LinkTypes /\ TalkTypes /\ Control /\ 0 \notin WebSockets
  BY DEF DashboardInv, DashboardConstants
<1>1. /\ ready[s] = "open" /\ wire[s] # <<>> /\ wire' = [wire EXCEPT ![s] = Tail(wire[s])]
      /\ UNCHANGED <<ready, attached, ref, status, shouldConnect, intentional, activeUrl,
           timer, attempts, mounted, stored, subscribed, asked, burst>>
  BY DEF ServerAnswers, link, policy, page
<1>2. ref = s
  BY <1>0, <1>1 DEF Control, NoOrphanSocket, Live
<1>3. LinkTypes' /\ Control' /\ DashboardConstants' /\ RoomsRestored'
  BY <1>0, <1>1 DEF DashboardInv, LinkTypes, Status, Control, Held, NoOrphanSocket,
                    NeverStuck, RefLive, RefOpen, Live, DashboardConstants, RoomsRestored
<1> DEFINE k == Head(wire[s])
<1>4. wire[s] \in Seq(Correlations)
  BY <1>0 DEF TalkTypes
<1>5. /\ k \in Correlations /\ Tail(wire[s]) \in Seq(Correlations)
      /\ \A c \in ToSet(wire[s]) : c = k \/ c \in ToSet(Tail(wire[s]))
  <2>1. /\ Len(wire[s]) \in Nat /\ Len(wire[s]) > 0 /\ DOMAIN wire[s] = 1..Len(wire[s])
        /\ Tail(wire[s]) \in Seq(Correlations) /\ Len(Tail(wire[s])) = Len(wire[s]) - 1
        /\ \A i \in 1..(Len(wire[s]) - 1) : Tail(wire[s])[i] = wire[s][i + 1]
        /\ k = wire[s][1] /\ DOMAIN Tail(wire[s]) = 1..(Len(wire[s]) - 1)
    BY <1>1, <1>4
  <2>2. k \in Correlations
    BY <1>4, <2>1, ElementOfSeq
  <2>3. ASSUME NEW i \in DOMAIN wire[s]
        PROVE  wire[s][i] = k \/ wire[s][i] \in ToSet(Tail(wire[s]))
    <3>1. CASE i = 1
      BY <2>1, <3>1
    <3>2. CASE i # 1
      <4>1. i - 1 \in 1..(Len(wire[s]) - 1) /\ (i - 1) + 1 = i
        BY <2>1, <3>2
      <4>2. Tail(wire[s])[i - 1] = wire[s][i]
        BY <2>1, <4>1
      <4> QED
        BY <2>1, <4>1, <4>2 DEF ToSet
    <3> QED
      BY <3>1, <3>2
  <2> QED
    BY <2>1, <2>2, <2>3 DEF ToSet
<1>6. wire' \in [WebSockets -> Seq(Correlations)] /\ wire'[s] = Tail(wire[s])
  BY <1>0, <1>1, <1>5 DEF TalkTypes
<1>7. \/ \E v \in {"delivered", "failed"} : activities' = Settled(k, v) /\ lost' = lost
      \/ activities' = activities /\ lost' = lost \cup {k}
  BY DEF ServerAnswers
<1> HIDE DEF k
<1>8. ASSUME NEW v \in {"delivered", "failed"}, activities' = Settled(k, v), lost' = lost
      PROVE  TalkTypes' /\ Answers'
  <2>1. activities \in Seq(Activity) /\ DOMAIN activities = 1..Len(activities)
        /\ Len(activities) \in Nat
    BY <1>0 DEF TalkTypes
  <2>2. /\ DOMAIN activities' = DOMAIN activities
        /\ \A i \in DOMAIN activities :
             \/ activities'[i] = activities[i]
                /\ ~(activities[i].status = "pending" /\ activities[i].corr = k)
             \/ activities'[i] \in Activity /\ activities'[i].status # "pending"
    <3>1. \A i \in DOMAIN activities : activities[i] \in Activity
      BY <2>1, ElementOfSeq
    <3>2. \A x \in Activity : /\ [x EXCEPT !.status = v] \in Activity
                                /\ [x EXCEPT !.status = v].status # "pending"
      BY DEF Activity
    <3>3. PendingSent
      BY DEF DashboardInv, Answers
    <3> QED
      BY <1>8, <3>1, <3>2, <3>3 DEF Settled, PendingSent
  <2>3. activities' \in Seq(Activity) /\ Len(activities') = Len(activities)
    <3>1. activities' = [i \in 1..Len(activities) |-> activities'[i]]
      BY <1>8, <2>1 DEF Settled
    <3>2. \A i \in 1..Len(activities) : activities'[i] \in Activity
      BY <2>1, <2>2, ElementOfSeq
    <3> QED
      BY <2>1, <3>1, <3>2, IsASeq
  <2>4. TalkTypes'
    BY <1>0, <1>1, <1>6, <1>8, <2>3 DEF TalkTypes, Activity
  <2>5. PendingSent'
    BY <2>2 DEF DashboardInv, Answers, PendingSent
  <2>6. NoMissedAck'
    BY <1>1, <1>2, <1>5, <1>6, <1>8, <2>2 DEF DashboardInv, Answers, NoMissedAck, RefOpen
  <2> QED
    BY <2>4, <2>5, <2>6 DEF Answers
<1>9. ASSUME activities' = activities, lost' = lost \cup {k} PROVE TalkTypes' /\ Answers'
  <2>1. TalkTypes'
    BY <1>0, <1>1, <1>5, <1>6, <1>9 DEF TalkTypes, Activity
  <2>2. PendingSent' /\ NoMissedAck'
    BY <1>1, <1>2, <1>5, <1>6, <1>9 DEF DashboardInv, Answers, PendingSent, NoMissedAck, RefOpen
  <2> QED
    BY <2>1, <2>2 DEF Answers
<1> QED
  BY <1>3, <1>7, <1>8, <1>9 DEF DashboardInv

\* A sandbox just opened satisfies the invariant.
LEMMA DashboardInit == DashboardConstants /\ HookInit => DashboardInv
<1> SUFFICES ASSUME DashboardConstants, HookInit PROVE DashboardInv
  OBVIOUS
<1>1. LinkTypes
  <2>1. 0 \in 0..MaxAttempts
    BY DEF DashboardConstants
  <2> QED
    BY <2>1 DEF HookInit, LinkTypes, Status
<1>2. TalkTypes
  <2>1. 0 \in 0..BurstBatches /\ MaxActivities \in Nat
    BY DEF DashboardConstants
  <2> QED
    BY <2>1 DEF HookInit, TalkTypes
<1>3. Control
  BY DEF HookInit, Control, Held, NoOrphanSocket, NeverStuck, RefLive, RefOpen, Live
<1>4. RoomsRestored /\ Answers
  BY DEF HookInit, RoomsRestored, RefOpen, Answers, PendingSent, NoMissedAck
<1> QED
  BY <1>1, <1>2, <1>3, <1>4 DEF DashboardInv

\* Every step of the user, the browser and the server keeps it.
LEMMA DashboardNext == DashboardInv /\ [HookNext]_hookVars => DashboardInv'
<1> SUFFICES ASSUME DashboardInv, [HookNext]_hookVars PROVE DashboardInv'
  OBVIOUS
<1>1. CASE (\E u \in Urls : ToggleConnect(u)) \/ TimerFires \/ Visible \/ Mount
  BY <1>1, AttemptKeeps
<1>2. CASE ToggleDisconnect \/ Unmount
  BY <1>2, CleanupKeeps
<1>3. ASSUME NEW s \in WebSockets,
             SocketOpens(s) \/ SocketDrops(s) \/ ServerCloses(s) \/ CloseCompletes(s)
      PROVE  DashboardInv'
  BY <1>3, EventKeeps
<1>4. ASSUME NEW s \in WebSockets, ServerAnswers(s) PROVE DashboardInv'
  BY <1>4, AnswerKeeps
<1>5. CASE \/ \E k \in Correlations : BroadcastMessage(k)
           \/ \E s \in WebSockets : Receive(s)
           \/ ClearActivities
  BY <1>5, ListKeeps
<1>6. CASE \/ \E r \in SandboxRooms : Subscribe(r) \/ Unsubscribe(r)
           \/ TriggerBurst \/ SendBatch
  BY <1>6, RoomKeeps
<1>7. CASE UNCHANGED hookVars
  <2>1. UNCHANGED <<ready, attached, ref, status, shouldConnect, intentional, activeUrl, timer,
          attempts, subscribed, asked, activities, wire, lost, burst, mounted, stored>>
    BY <1>7 DEF hookVars, link, policy, talk, page
  <2>2. LinkTypes' /\ TalkTypes' /\ DashboardConstants'
    BY <2>1 DEF DashboardInv, LinkTypes, TalkTypes, DashboardConstants, Status, Activity
  <2>3. Control' /\ RoomsRestored'
    BY <2>1 DEF DashboardInv, Control, Held, NoOrphanSocket, NeverStuck, RefLive,
                RefOpen, Live, RoomsRestored
  <2>4. Answers'
    BY <2>1 DEF DashboardInv, Answers, PendingSent, NoMissedAck, RefOpen, ToSet
  <2> QED
    BY <2>2, <2>3, <2>4 DEF DashboardInv
<1> QED
  BY <1>1, <1>2, <1>3, <1>4, <1>5, <1>6, <1>7 DEF HookNext

\* The hook holds the only socket that is open or opening, shows what it is and
\* knows what is still to be answered: the invariant the next theorems rest on.
THEOREM DashboardInvariant == HookSpec => []DashboardInv
<1>1. HookInit => DashboardInv
  BY DashboardInit, DashboardAssumption
<1>2. DashboardInv /\ [HookNext]_hookVars => DashboardInv'
  BY DashboardNext
<1> QED
  BY <1>1, <1>2, PTL DEF HookSpec

\* Whatever replaced a socket (connect, timer, visibility, tab switch), one that is
\* open or opening is the one the hook holds and wants.
THEOREM OneSocketAtATime == HookSpec => []NoOrphanSocket
<1>1. DashboardInv => NoOrphanSocket
  BY DEF DashboardInv, Control
<1> QED
  BY <1>1, DashboardInvariant, PTL

\* While the sandbox shows an attempt, one is under way or a timer will start it.
THEOREM NoAttemptHangs == HookSpec => []NeverStuck
<1>1. DashboardInv => NeverStuck
  BY DEF DashboardInv, Control
<1> QED
  BY <1>1, DashboardInvariant, PTL

\* After any number of reconnects the open socket has asked for the subscribed rooms.
THEOREM RoomsAreRestored == HookSpec => []RoomsRestored
<1>1. DashboardInv => RoomsRestored
  BY DEF DashboardInv
<1> QED
  BY <1>1, DashboardInvariant, PTL

\* A message stays pending only while its answer is to come or can never come.
THEOREM NoAckIsMissed == HookSpec => []NoMissedAck
<1>1. DashboardInv => NoMissedAck
  BY DEF DashboardInv, Answers
<1> QED
  BY <1>1, DashboardInvariant, PTL

\* TypeOK of the dashboard: in particular the counter of attempts, the list of
\* activities and the bursts keep their limits.
THEOREM DashboardTypes == HookSpec => []HookTypeOK
<1>1. DashboardInv => HookTypeOK
  BY DEF DashboardInv, LinkTypes, TalkTypes, HookTypeOK
<1> QED
  BY <1>1, DashboardInvariant, PTL
=============================================================================

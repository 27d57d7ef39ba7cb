----------------------------- MODULE SocketHealth -----------------------------
(***************************************************************************)
(* One connection of a Pulse server from its upgrade to its removal: the   *)
(* heartbeat sweeps (HeartbeatManager), the rate limit (TokenBucket) and   *)
(* the slow-consumer check (Connection.send), as the start of              *)
(* dispatchRawMessage and the keepalive hooks of PulseServer drive them.   *)
(*                                                                         *)
(* Time passes in ticks.  Timers fire when they are due or up to MaxLag    *)
(* ticks late.  Times are kept as ages, and an age stops where no          *)
(* comparison in the code can tell it from a larger one.  The peer may be  *)
(* cut off and come back: while it is, nothing arrives in either direction *)
(* and the server is told nothing.                                         *)
(***************************************************************************)
EXTENDS Integers

CONSTANTS
  IntervalMs, TimeoutMs, MinSweepMs,  \* heartbeat, and the least sweep period (20)
  FallbackMs,                         \* 150
  BucketCapacity, RefillRate,               \* of the token bucket, per tick
  Threshold, WindowMs,                \* of rate violations
  MaxBuffered,                        \* maxBufferedAmountBytes, in frames
  MaxLag,                             \* how late a timer may be
  Rtt,                                \* within this time a reachable peer answers SYS_PING
  Answers                             \* the client's code answers SYS_PING

Larger(a, b) == IF a > b THEN a ELSE b
Smaller(a, b) == IF a < b THEN a ELSE b

sweepTickMs == Larger(MinSweepMs, Smaller(IntervalMs, TimeoutMs) \div 2)

ASSUME HealthAssumption ==
  /\ {IntervalMs, TimeoutMs, MinSweepMs, FallbackMs, BucketCapacity, RefillRate,
      Threshold, WindowMs, MaxBuffered} \subseteq Nat \ {0}
  /\ {MaxLag, Rtt} \subseteq Nat
  /\ Answers \in BOOLEAN

\* The ping that a sweep sends late is answered before the timeout.
ASSUME TimingAssumption == sweepTickMs + MaxLag + Rtt <= TimeoutMs

VARIABLES
  readyState,     \* of the socket; "none" before the upgrade
  idle,           \* age of lastSeenAt
  sweepIn,        \* ticks to the next sweep; not above 0 when it is due
  isRunning,      \* HeartbeatManager.isRunning
  isHeartbeatTimedOut,
  fallbackIn,     \* ticks to the fallback timer, or Off
  bufferedAmount,
  tokens, sinceRefill,            \* TokenBucket: tokens, age of lastRefillTime
  violationCount, sinceViolation, \* and age of lastViolationTime
  reachable,      \* the network carries bytes to and from the peer
  pongIn,         \* ticks within which the peer's SYS_PONG arrives, or Off
  wasCut,         \* history: the peer was unreachable at some time
  excess,         \* history: messages let through above the refill rate
  recent          \* history: age of the k-th last rate violation, for k up to Threshold

heartbeat == <<sweepIn, isRunning, isHeartbeatTimedOut, fallbackIn>>
bucket == <<tokens, sinceRefill, violationCount, sinceViolation, excess, recent>>
peer == <<reachable, pongIn, wasCut>>
healthVars == <<readyState, idle, heartbeat, bufferedAmount, bucket, peer>>

Off == Larger(FallbackMs, Rtt) + 1

\* Longest time for which a silent connection stays registered.
ReapBound == IntervalMs + TimeoutMs + sweepTickMs + MaxLag + FallbackMs + MaxLag

Registered == readyState \in {"OPEN", "CLOSING"}

HealthInit ==
  /\ readyState = "none" /\ idle = 0
  /\ sweepIn = sweepTickMs /\ isRunning = TRUE
  /\ isHeartbeatTimedOut = FALSE /\ fallbackIn = Off
  /\ bufferedAmount = 0
  /\ tokens = BucketCapacity /\ sinceRefill = 0
  /\ violationCount = 0 /\ sinceViolation = WindowMs + 1
  /\ reachable = TRUE /\ pongIn = Off /\ wasCut = FALSE
  /\ excess = 0 /\ recent = [k \in 1..Threshold |-> WindowMs + 1]

-----------------------------------------------------------------------------
(***************************************************************************)
(* Connection                                                              *)
(***************************************************************************)

\* handleAuthenticatedConnection: the connection, whose first frame is
\* SYS_CONNECT_ACK.
Establish ==
  /\ readyState = "none"
  /\ readyState' = "OPEN" /\ idle' = 0
  /\ bufferedAmount' = 1
  /\ tokens' = BucketCapacity /\ sinceRefill' = 0
  /\ UNCHANGED <<heartbeat, violationCount, sinceViolation, excess, recent, peer>>

\* Connection.send: state and buffer of the socket after one frame.  A socket
\* that is not open is left alone, a slow consumer is closed with 1008.
Sent(ready, buffered) ==
  CASE ready # "OPEN" -> <<ready, buffered>>
    [] ready = "OPEN" /\ buffered > MaxBuffered -> <<"CLOSING", buffered>>
    [] OTHER -> <<ready, buffered + 1>>

SendFrame ==
  /\ readyState' = Sent(readyState, bufferedAmount)[1]
  /\ bufferedAmount' = Sent(readyState, bufferedAmount)[2]

\* Connection.close.
CloseSocket == readyState' = IF readyState = "OPEN" THEN "CLOSING" ELSE readyState

\* Connection.terminate and the close event that follows: removal.
Gone ==
  /\ readyState' = "CLOSED"
  /\ fallbackIn' = Off /\ pongIn' = Off

\* A frame of another client or of the server.
Deliver ==
  /\ readyState = "OPEN"
  /\ SendFrame
  /\ UNCHANGED <<idle, heartbeat, bucket, peer>>

\* The peer takes what is buffered.
Drain ==
  /\ Registered /\ reachable /\ bufferedAmount > 0
  /\ bufferedAmount' = 0
  /\ UNCHANGED <<readyState, idle, heartbeat, bucket, peer>>

-----------------------------------------------------------------------------
(***************************************************************************)
(* TokenBucket                                                             *)
(***************************************************************************)

\* Mutant: the refill is counted again from the same instant.
RefillTwice == [tokens |-> Smaller(BucketCapacity, tokens + sinceRefill * RefillRate),
                sinceRefill |-> sinceRefill]

\* refill.
Refill == [tokens |-> Smaller(BucketCapacity, tokens + sinceRefill * RefillRate),
           sinceRefill |-> 0]

\* tryConsume(1).
TryConsume ==
  /\ Refill.tokens >= 1
  /\ tokens' = Refill.tokens - 1 /\ sinceRefill' = Refill.sinceRefill
  /\ excess' = excess + 1
  /\ UNCHANGED <<violationCount, sinceViolation, recent>>

\* Mutant: the count starts again at each violation but the first.
CountedFromLast == IF sinceViolation > WindowMs - 1 THEN 1 ELSE violationCount + 1

\* The new violationCount: counted on while each violation comes within WindowMs
\* of the one before.
Counted == IF sinceViolation > WindowMs THEN 1 ELSE violationCount + 1

\* tryConsume fails, recordViolation counts it.
RecordViolation ==
  /\ Refill.tokens < 1
  /\ tokens' = Refill.tokens /\ sinceRefill' = Refill.sinceRefill
  /\ violationCount' = Smaller(Counted, Threshold) /\ sinceViolation' = 0
  /\ recent' = [k \in 1..Threshold |-> IF k = 1 THEN 0 ELSE recent[k - 1]]
  /\ UNCHANGED excess

-----------------------------------------------------------------------------
(***************************************************************************)
(* Frames from the peer                                                    *)
(***************************************************************************)

\* dispatchRawMessage up to the handlers.  The frame counts as a sign of life
\* before the rate limit; a frame above the limit is answered with SYS_ERROR and
\* the connection is closed when it is one violation too many.  Others are
\* answered, with an error or by the handler of their type, or not.
DispatchRawMessage(reply) ==
  /\ idle' = 0
  /\ \/ /\ TryConsume
        /\ IF reply = "one" THEN SendFrame ELSE UNCHANGED <<readyState, bufferedAmount>>
     \/ /\ RecordViolation
        /\ LET s == Sent(readyState, bufferedAmount)
           IN /\ bufferedAmount' = s[2]
              /\ readyState' = IF Counted >= Threshold /\ s[1] = "OPEN"
                                 THEN "CLOSING" ELSE s[1]

\* Any frame.  Frames are dispatched while the socket is closing, too.
ReceiveFrame ==
  /\ Registered /\ reachable
  /\ \E reply \in {"none", "one"} : DispatchRawMessage(reply)
  /\ UNCHANGED <<heartbeat, peer>>

\* The peer's answer to SYS_PING, as the dashboard's client gives it.
ReceivePong ==
  /\ Registered /\ reachable /\ pongIn # Off
  /\ DispatchRawMessage("none")
  /\ pongIn' = Off
  /\ UNCHANGED <<heartbeat, reachable, wasCut>>

\* A ping or a pong of the WebSocket protocol: touch.
Keepalive ==
  /\ Registered /\ reachable
  /\ idle' = 0
  /\ UNCHANGED <<readyState, heartbeat, bufferedAmount, bucket, peer>>

\* The peer closes, or answers the close frame; or the WebSocket library gives up
\* waiting for that answer.
PeerCloses ==
  /\ \/ Registered /\ reachable
     \/ readyState = "CLOSING"
  /\ Gone
  /\ UNCHANGED <<idle, sweepIn, isRunning, isHeartbeatTimedOut, bufferedAmount, bucket,
                 reachable, wasCut>>

\* The network stops or starts to carry the peer's bytes; what was on its way is lost.
Cut ==
  /\ Registered /\ reachable
  /\ reachable' = FALSE /\ wasCut' = TRUE /\ pongIn' = Off
  /\ UNCHANGED <<readyState, idle, heartbeat, bufferedAmount, bucket>>

Restore ==
  /\ ~reachable
  /\ reachable' = TRUE
  /\ UNCHANGED <<readyState, idle, heartbeat, bufferedAmount, bucket, pongIn, wasCut>>

-----------------------------------------------------------------------------
(***************************************************************************)
(* HeartbeatManager                                                        *)
(***************************************************************************)

\* Mutant: the close frame is trusted to bring the socket down.
TimeOutOnly ==
  /\ isHeartbeatTimedOut' = TRUE /\ CloseSocket
  /\ UNCHANGED <<fallbackIn, pongIn, bufferedAmount>>

\* First sweep that finds the connection stale: close with 1002, and a timer in
\* case the peer never answers the close frame.
TimeOut ==
  /\ isHeartbeatTimedOut' = TRUE /\ CloseSocket
  /\ fallbackIn' = FallbackMs
  /\ UNCHANGED <<pongIn, bufferedAmount>>

\* SYS_PING, which reaches the peer and is answered if the network is up and the
\* client's code answers pings.
Ping ==
  /\ SendFrame
  /\ pongIn' = IF Answers /\ reachable /\ readyState' = "OPEN" /\ pongIn = Off
                 THEN Rtt ELSE pongIn
  /\ UNCHANGED <<isHeartbeatTimedOut, fallbackIn>>

\* Mutant: pings go out only when the connection is about to time out.
QuietLate == idle >= IntervalMs + TimeoutMs

\* The connection has been quiet for an interval.
Quiet == idle >= IntervalMs

\* checkHeartbeats, for this connection.
CheckHeartbeats ==
  /\ isRunning /\ sweepIn <= 0
  /\ sweepIn' = sweepTickMs
  /\ CASE Registered /\ idle > IntervalMs + TimeoutMs /\ isHeartbeatTimedOut ->
            Gone /\ UNCHANGED <<isHeartbeatTimedOut, bufferedAmount>>
       [] Registered /\ idle > IntervalMs + TimeoutMs /\ ~isHeartbeatTimedOut -> TimeOut
       [] Registered /\ idle <= IntervalMs + TimeoutMs /\ Quiet -> Ping
       [] OTHER -> UNCHANGED <<readyState, isHeartbeatTimedOut, fallbackIn, pongIn, bufferedAmount>>
  /\ UNCHANGED <<idle, isRunning, bucket, reachable, wasCut>>

\* The fallback timer: terminate, whether or not the peer has been heard since.
Fallback ==
  /\ fallbackIn # Off /\ fallbackIn <= 0
  /\ Gone
  /\ UNCHANGED <<idle, sweepIn, isRunning, isHeartbeatTimedOut, bufferedAmount, bucket,
                 reachable, wasCut>>

\* stop(), called by the server's stop(), which later closes what is left.
StopHeartbeat ==
  /\ isRunning
  /\ isRunning' = FALSE
  /\ UNCHANGED <<readyState, idle, sweepIn, isHeartbeatTimedOut, fallbackIn,
                 bufferedAmount, bucket, peer>>

ForceClose ==
  /\ ~isRunning /\ readyState = "OPEN"
  /\ CloseSocket
  /\ UNCHANGED <<idle, heartbeat, bufferedAmount, bucket, peer>>

-----------------------------------------------------------------------------
(***************************************************************************)
(* Time                                                                    *)
(***************************************************************************)

\* One tick, unless a timer or an answer would come later than it may.
HealthTick ==
  /\ isRunning => sweepIn > -MaxLag
  /\ fallbackIn # Off => fallbackIn > -MaxLag
  /\ pongIn # Off => pongIn > 0
  /\ idle' = IF Registered THEN Smaller(idle + 1, ReapBound + 1) ELSE idle
  /\ sweepIn' = IF isRunning THEN sweepIn - 1 ELSE sweepIn
  /\ fallbackIn' = IF fallbackIn = Off THEN Off ELSE fallbackIn - 1
  /\ pongIn' = IF pongIn = Off THEN Off ELSE pongIn - 1
  /\ sinceRefill' = Smaller(sinceRefill + 1, BucketCapacity)
  /\ sinceViolation' = Smaller(sinceViolation + 1, WindowMs + 1)
  /\ excess' = Larger(0, excess - RefillRate)
  /\ recent' = [k \in 1..Threshold |-> Smaller(recent[k] + 1, WindowMs + 1)]
  /\ UNCHANGED <<readyState, isRunning, isHeartbeatTimedOut, bufferedAmount, tokens,
                 violationCount, reachable, wasCut>>

HealthNext ==
  \/ Establish \/ Deliver \/ Drain
  \/ ReceiveFrame \/ ReceivePong \/ Keepalive \/ PeerCloses \/ Cut \/ Restore
  \/ CheckHeartbeats \/ Fallback \/ StopHeartbeat \/ ForceClose
  \/ HealthTick

HealthSpec == HealthInit /\ [][HealthNext]_healthVars

-----------------------------------------------------------------------------
(***************************************************************************)
(* Properties                                                              *)
(***************************************************************************)

\* Ages, timers and counters stay in their ranges; in particular at most one
\* frame is queued above maxBufferedAmountBytes.
HealthTypeOK ==
  /\ readyState \in {"none", "OPEN", "CLOSING", "CLOSED"}
  /\ idle \in 0..ReapBound + 1
  /\ sweepIn \in -MaxLag..sweepTickMs /\ isRunning \in BOOLEAN
  /\ isHeartbeatTimedOut \in BOOLEAN /\ fallbackIn \in -MaxLag..Off
  /\ bufferedAmount \in 0..MaxBuffered + 1
  /\ tokens \in 0..BucketCapacity /\ sinceRefill \in 0..BucketCapacity
  /\ violationCount \in 0..Threshold /\ sinceViolation \in 0..WindowMs + 1
  /\ reachable \in BOOLEAN /\ pongIn \in 0..Off /\ wasCut \in BOOLEAN
  /\ excess \in 0..BucketCapacity + 1
  /\ recent \in [1..Threshold -> 0..WindowMs + 1]

\* A half-open connection does not stay: while the sweeps run, no connection is
\* registered longer than ReapBound after its last sign of life, even when it is
\* already closing for another reason.
HalfOpenReaped == Registered /\ isRunning => idle <= ReapBound

\* The sweeps never take a connection for dead whose peer could be reached all
\* the time: the ping reaches it early enough for its answer, even when the
\* answer is refused by the rate limit.
ResponsiveKept ==
  [][readyState = "OPEN" /\ ~isHeartbeatTimedOut /\ isHeartbeatTimedOut' => wasCut]_healthVars

\* The rate limit, stated without a bucket: over no stretch of time do more than
\* BucketCapacity messages beyond the refill rate get through, however the calls and
\* the lazy refills fall.
RateBounded == excess <= BucketCapacity

\* Threshold violations within WindowMs close the connection.
AbuseCloses == recent[Threshold] <= WindowMs => readyState # "OPEN"

\* What TokenBucket says of recordViolation: a connection is abusive when it has
\* Threshold violations within the window.  It does not hold: a chain of
\* violations counts on while each follows the one before within the window.
AbuseWithinWindow ==
  [][violationCount < Threshold /\ violationCount' >= Threshold
       => recent'[Threshold] <= WindowMs]_healthVars
=============================================================================

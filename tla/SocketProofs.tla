----------------------------- MODULE SocketProofs -----------------------------
(***************************************************************************)
(* Proofs about SocketHealth, Uuidv7 and Ingress: for every heartbeat      *)
(* interval, timeout, lag and round trip, every bucket, every clock and    *)
(* every set of upgrade requests.                                          *)
(***************************************************************************)
EXTENDS SocketHealth, Ingress, Uuidv7, SequenceTheorems, TLAPS

-----------------------------------------------------------------------------
(***************************************************************************)
(* Facts about the constants                                               *)
(***************************************************************************)

LEMMA Constants ==
  /\ IntervalMs \in Nat /\ IntervalMs > 0 /\ TimeoutMs \in Nat /\ FallbackMs \in Nat
  /\ MaxLag \in Nat /\ Rtt \in Nat /\ sweepTickMs \in Nat
  /\ Off \in Nat /\ FallbackMs < Off /\ Rtt < Off
  /\ ReapBound \in Nat
  /\ BucketCapacity \in Nat /\ BucketCapacity > 0 /\ RefillRate \in Nat
  /\ Threshold \in Nat /\ Threshold > 0 /\ WindowMs \in Nat
<1>1. /\ {IntervalMs, TimeoutMs, MinSweepMs, FallbackMs, BucketCapacity, RefillRate,
          Threshold, WindowMs, MaxBuffered} \subseteq Nat \ {0}
      /\ MaxLag \in Nat /\ Rtt \in Nat
  BY HealthAssumption
<1>2. Off \in Nat /\ FallbackMs < Off /\ Rtt < Off
  BY <1>1 DEF Off, Larger
<1>3. sweepTickMs \in Nat
  <2>1. Smaller(IntervalMs, TimeoutMs) \in Nat
    BY <1>1 DEF Smaller
  <2>2. Smaller(IntervalMs, TimeoutMs) \div 2 \in Nat
    BY <2>1
  <2> QED
    BY <1>1, <2>2 DEF sweepTickMs, Larger
<1> QED
  BY <1>1, <1>2, <1>3 DEF ReapBound

-----------------------------------------------------------------------------
(***************************************************************************)
(* The inductive invariant of SocketHealth                                 *)
(***************************************************************************)

Bucket ==
  /\ tokens \in 0..BucketCapacity /\ sinceRefill \in 0..BucketCapacity
  /\ excess \in Nat

\* What the bucket can still give and what was let through above the rate are
\* never more than the bucket together.
RateInv ==
  /\ Bucket
  /\ excess + Refill.tokens <= BucketCapacity
  /\ readyState = "none" => excess = 0

\* The k-th last violation is within the window only if the chain has k links.
AbuseInv ==
  /\ violationCount \in 0..Threshold /\ sinceViolation \in 0..WindowMs + 1
  /\ recent \in [1..Threshold -> 0..WindowMs + 1]
  /\ \A k \in 1..Threshold : /\ recent[k] >= sinceViolation
                             /\ recent[k] <= WindowMs => violationCount >= k
  /\ readyState \in {"none", "OPEN"} => violationCount < Threshold

Timers ==
  /\ readyState \in {"none", "OPEN", "CLOSING", "CLOSED"}
  /\ idle \in Nat
  /\ isRunning \in BOOLEAN /\ isHeartbeatTimedOut \in BOOLEAN
  /\ reachable \in BOOLEAN /\ wasCut \in BOOLEAN
  /\ sweepIn \in Int /\ -MaxLag <= sweepIn /\ sweepIn <= sweepTickMs
  /\ fallbackIn \in Int /\ -MaxLag <= fallbackIn /\ fallbackIn <= Off
  /\ pongIn \in 0..Off
  /\ readyState = "none" => ~isHeartbeatTimedOut /\ pongIn = Off

\* How old the last sign of life can be: before the time-out it is bounded by
\* the last sweep, which found it young enough; after it by the fallback timer.
ReapInv ==
  /\ Registered /\ isHeartbeatTimedOut => fallbackIn # Off
  /\ Registered /\ isRunning /\ ~isHeartbeatTimedOut =>
       idle + sweepIn <= IntervalMs + TimeoutMs + sweepTickMs
  /\ Registered /\ isRunning /\ isHeartbeatTimedOut =>
       idle + fallbackIn <= IntervalMs + TimeoutMs + sweepTickMs + MaxLag + FallbackMs

\* With a peer that answers and was never cut off: either the last sweep found
\* no reason to ping, or an answer is due before the time-out.
PingInv ==
  /\ ~wasCut => reachable
  /\ Answers /\ readyState = "OPEN" /\ isRunning /\ ~isHeartbeatTimedOut /\ ~wasCut =>
       /\ pongIn = Off => idle + sweepIn < IntervalMs + sweepTickMs
       /\ pongIn # Off => idle + pongIn < IntervalMs + sweepTickMs + MaxLag + Rtt

HealthInv == Timers /\ RateInv /\ AbuseInv /\ ReapInv /\ PingInv

-----------------------------------------------------------------------------
(***************************************************************************)
(* The token bucket                                                        *)
(***************************************************************************)

\* What a refill makes of the bucket.
LEMMA RefillRange ==
  ASSUME Bucket
  PROVE  /\ Refill.tokens \in 0..BucketCapacity
         /\ Refill.tokens <= tokens + sinceRefill * RefillRate
         /\ Refill.tokens = BucketCapacity \/ Refill.tokens = tokens + sinceRefill * RefillRate
         /\ Refill.sinceRefill = 0
<1>1. sinceRefill * RefillRate \in Nat
  BY Constants DEF Bucket
<1> QED
  BY <1>1, Constants DEF Bucket, Refill, Smaller

\* The refill that has been due since just now is the bucket itself.
LEMMA RefillNow ==
  ASSUME NEW t \in 0..BucketCapacity, tokens' = t, sinceRefill' = 0
  PROVE  Refill.tokens' = t
  BY Constants DEF Refill, Smaller

\* A tick adds at most RefillRate to what the bucket can give.
LEMMA RefillTick ==
  ASSUME Bucket, Bucket', tokens' = tokens, sinceRefill' = Smaller(sinceRefill + 1, BucketCapacity)
  PROVE  /\ Refill.tokens' \in 0..BucketCapacity
         /\ Refill.tokens' <= Refill.tokens + RefillRate
<1> DEFINE x == sinceRefill * RefillRate
           y == sinceRefill' * RefillRate
<1>1. x \in Nat /\ y \in Nat
  BY Constants DEF Bucket
<1>2. y <= x + RefillRate
  <2>1. CASE sinceRefill' = sinceRefill + 1
    <3>1. (sinceRefill + 1) * RefillRate = x + RefillRate
      BY Constants DEF Bucket
    <3> QED
      BY <2>1, <3>1, <1>1, Constants
  <2>2. CASE sinceRefill' = sinceRefill
    BY <2>2, <1>1, Constants
  <2> QED
    BY <2>1, <2>2, Constants DEF Bucket, Smaller
<1> HIDE DEF x, y
<1>3. Refill.tokens = Smaller(BucketCapacity, tokens + x) /\ Refill.tokens' = Smaller(BucketCapacity, tokens + y)
  BY DEF Refill, x, y
<1> QED
  BY <1>1, <1>2, <1>3, Constants DEF Bucket, Smaller

LEMMA RateStep ==
  ASSUME HealthInv, [HealthNext]_healthVars
  PROVE  RateInv'
<1> USE DEF HealthInv
<1>1. ASSUME UNCHANGED <<tokens, sinceRefill, excess>>, readyState' # "none" \/ readyState = "none"
      PROVE  RateInv'
  BY <1>1 DEF RateInv, Bucket, Refill
<1>2. CASE Establish
  <2>1. Refill.tokens' = BucketCapacity
    BY <1>2, RefillNow, Constants DEF Establish
  <2>2. excess' = excess /\ excess = 0
    BY <1>2 DEF Establish, RateInv
  <2> QED
    BY <1>2, <2>1, <2>2, Constants DEF Establish, RateInv, Bucket
<1>3. ASSUME TryConsume, readyState # "none", readyState' # "none" PROVE RateInv'
  <2>1. Refill.tokens \in 1..BucketCapacity /\ tokens' = Refill.tokens - 1 /\ sinceRefill' = 0
    BY <1>3, RefillRange, Constants DEF TryConsume, RateInv
  <2>2. Refill.tokens' = Refill.tokens - 1
    BY <2>1, RefillNow, Constants
  <2> QED
    BY <1>3, <2>1, <2>2, Constants DEF TryConsume, RateInv, Bucket
<1>4. ASSUME RecordViolation, readyState # "none", readyState' # "none" PROVE RateInv'
  <2>1. Refill.tokens \in 0..BucketCapacity /\ tokens' = Refill.tokens /\ sinceRefill' = 0
    BY <1>4, RefillRange, Constants DEF RecordViolation, RateInv
  <2>2. Refill.tokens' = Refill.tokens
    BY <2>1, RefillNow, Constants
  <2> QED
    BY <1>4, <2>1, <2>2, Constants DEF RecordViolation, RateInv, Bucket
<1>5. ASSUME NEW reply \in {"none", "one"}, DispatchRawMessage(reply), Registered PROVE RateInv'
  <2>1. readyState # "none" /\ readyState' # "none"
    BY <1>5 DEF DispatchRawMessage, Registered, SendFrame, Sent, Timers
  <2> QED
    BY <1>3, <1>4, <1>5, <2>1 DEF DispatchRawMessage
<1>6. CASE ReceiveFrame \/ ReceivePong
  BY <1>5, <1>6 DEF ReceiveFrame, ReceivePong
<1>7. CASE HealthTick
  <2>1. Bucket'
    BY <1>7, Constants DEF HealthTick, RateInv, Bucket, Smaller, Larger
  <2>2. Refill.tokens' \in 0..BucketCapacity /\ Refill.tokens' <= Refill.tokens + RefillRate
    BY <1>7, <2>1, RefillTick DEF HealthTick, RateInv
  <2>3. Refill.tokens \in 0..BucketCapacity
    BY RefillRange DEF RateInv
  <2>4. excess' + Refill.tokens' <= BucketCapacity
    BY <1>7, <2>2, <2>3, Constants DEF HealthTick, RateInv, Bucket, Larger
  <2> QED
    BY <1>7, <2>1, <2>4, Constants DEF HealthTick, RateInv, Bucket, Larger
<1>8. CASE Deliver \/ Drain \/ Keepalive \/ PeerCloses \/ Cut \/ Restore
  BY <1>1, <1>8 DEF Deliver, Drain, Keepalive, PeerCloses, Cut, Restore, bucket, Gone, SendFrame, Sent
<1>9. CASE CheckHeartbeats \/ Fallback \/ StopHeartbeat \/ ForceClose
  BY <1>1, <1>9 DEF CheckHeartbeats, Fallback, StopHeartbeat, ForceClose, bucket, Gone, TimeOut,
       Ping, SendFrame, Sent, CloseSocket
<1>10. CASE UNCHANGED healthVars
  BY <1>1, <1>10 DEF healthVars, bucket
<1> QED
  BY <1>2, <1>6, <1>7, <1>8, <1>9, <1>10 DEF HealthNext

-----------------------------------------------------------------------------
(***************************************************************************)
(* Violations                                                              *)
(***************************************************************************)

\* A violation extends the chain or starts a new one.
LEMMA ViolationStep ==
  ASSUME AbuseInv, RecordViolation,
         violationCount < Threshold \/ readyState' \notin {"none", "OPEN"},
         Counted >= Threshold => readyState' \notin {"none", "OPEN"}
  PROVE  AbuseInv'
<1>1. /\ violationCount \in 0..Threshold /\ sinceViolation \in 0..WindowMs + 1
      /\ recent \in [1..Threshold -> 0..WindowMs + 1]
      /\ violationCount' = Smaller(Counted, Threshold) /\ sinceViolation' = 0
      /\ recent' = [k \in 1..Threshold |-> IF k = 1 THEN 0 ELSE recent[k - 1]]
  BY DEF AbuseInv, RecordViolation
<1>2. /\ Counted \in 1..Threshold + 1
      /\ sinceViolation <= WindowMs => Counted = violationCount + 1
  BY <1>1, Constants DEF Counted
<1>3. recent' \in [1..Threshold -> 0..WindowMs + 1]
  BY <1>1, Constants
<1>4. ASSUME NEW k \in 1..Threshold, recent'[k] <= WindowMs
      PROVE  violationCount' >= k
  <2>1. CASE k = 1
    BY <1>1, <1>2, <2>1, Constants DEF Smaller
  <2>2. CASE k # 1
    <3>1. k - 1 \in 1..Threshold /\ recent'[k] = recent[k - 1]
      BY <1>1, <2>2, Constants
    <3>2. sinceViolation <= recent[k - 1] /\ violationCount >= k - 1
      BY <1>4, <3>1 DEF AbuseInv
    <3>3. Counted = violationCount + 1
      BY <1>1, <1>2, <1>4, <3>1, <3>2, Constants
    <3> QED
      BY <1>1, <3>2, <3>3, Constants DEF Smaller
  <2> QED
    BY <2>1, <2>2
<1>5. \A k \in 1..Threshold : recent'[k] >= sinceViolation'
  BY <1>1, <1>3, Constants
<1>6. violationCount' \in 0..Threshold /\ (Counted < Threshold => violationCount' < Threshold)
  BY <1>1, <1>2, Constants DEF Smaller
<1>7. readyState' \in {"none", "OPEN"} => violationCount' < Threshold
  BY <1>2, <1>6, Constants
<1> QED
  BY <1>1, <1>3, <1>4, <1>5, <1>6, <1>7, Constants DEF AbuseInv

LEMMA AbuseStep ==
  ASSUME HealthInv, [HealthNext]_healthVars
  PROVE  AbuseInv'
<1> USE DEF HealthInv
<1>1. ASSUME UNCHANGED <<violationCount, sinceViolation, recent>>,
             readyState' \in {"none", "OPEN"} => readyState \in {"none", "OPEN"}
      PROVE  AbuseInv'
  BY <1>1 DEF AbuseInv
<1>2. CASE Establish
  BY <1>1, <1>2 DEF Establish
<1>3. ASSUME NEW reply \in {"none", "one"}, DispatchRawMessage(reply), Registered PROVE AbuseInv'
  <2>1. CASE TryConsume /\ IF reply = "one" THEN SendFrame ELSE UNCHANGED <<readyState, bufferedAmount>>
    BY <1>1, <1>3, <2>1 DEF TryConsume, SendFrame, Sent, Registered
  <2>2. CASE /\ RecordViolation
             /\ readyState' = IF /\ Counted >= Threshold
                                 /\ Sent(readyState, bufferedAmount)[1] = "OPEN"
                                THEN "CLOSING" ELSE Sent(readyState, bufferedAmount)[1]
    <3>1. Sent(readyState, bufferedAmount)[1] \in {"OPEN", "CLOSING"}
      BY <1>3 DEF Sent, Registered
    <3>2. Counted >= Threshold => readyState' \notin {"none", "OPEN"}
      BY <2>2, <3>1
    <3>3. readyState' \in {"none", "OPEN"} => readyState = "OPEN"
      BY <1>3, <2>2, <3>1 DEF Sent, Registered
    <3>4. violationCount < Threshold \/ readyState' \notin {"none", "OPEN"}
      BY <3>3 DEF AbuseInv
    <3> QED
      BY <2>2, <3>2, <3>4, ViolationStep
  <2> QED
    BY <1>3, <2>1, <2>2 DEF DispatchRawMessage
<1>4. CASE ReceiveFrame \/ ReceivePong
  BY <1>3, <1>4 DEF ReceiveFrame, ReceivePong
<1>5. CASE HealthTick
  <2>1. /\ sinceViolation' = Smaller(sinceViolation + 1, WindowMs + 1)
        /\ recent' = [k \in 1..Threshold |-> Smaller(recent[k] + 1, WindowMs + 1)]
        /\ UNCHANGED <<readyState, violationCount>>
    BY <1>5 DEF HealthTick
  <2>2. ASSUME NEW k \in 1..Threshold
        PROVE  /\ recent'[k] \in 0..WindowMs + 1
               /\ recent'[k] >= sinceViolation'
               /\ recent'[k] <= WindowMs => violationCount' >= k
    <3>1. /\ recent[k] \in 0..WindowMs + 1 /\ recent[k] >= sinceViolation
          /\ recent[k] <= WindowMs => violationCount >= k
          /\ recent'[k] = Smaller(recent[k] + 1, WindowMs + 1)
      BY <2>1 DEF AbuseInv
    <3> QED
      BY <2>1, <3>1, Constants DEF Smaller, AbuseInv
  <2>3. sinceViolation' \in 0..WindowMs + 1
    BY <2>1, Constants DEF Smaller, AbuseInv
  <2>4. recent' \in [1..Threshold -> 0..WindowMs + 1]
    BY <2>1, <2>2
  <2> QED
    BY <2>1, <2>2, <2>3, <2>4 DEF AbuseInv
<1>6. CASE Deliver \/ Drain \/ Keepalive \/ PeerCloses \/ Cut \/ Restore
  BY <1>1, <1>6 DEF Deliver, Drain, Keepalive, PeerCloses, Cut, Restore, bucket, Gone, SendFrame, Sent
<1>7. CASE CheckHeartbeats \/ Fallback \/ StopHeartbeat \/ ForceClose
  BY <1>1, <1>7 DEF CheckHeartbeats, Fallback, StopHeartbeat, ForceClose, bucket, Gone, TimeOut,
       Ping, SendFrame, Sent, CloseSocket
<1>8. CASE UNCHANGED healthVars
  BY <1>1, <1>8 DEF healthVars, bucket
<1> QED
  BY <1>2, <1>4, <1>5, <1>6, <1>7, <1>8 DEF HealthNext

-----------------------------------------------------------------------------
(***************************************************************************)
(* Timers                                                                  *)
(***************************************************************************)

\* What a dispatched frame does to socket and timers, whatever becomes of it.
LEMMA DispatchEffect ==
  ASSUME NEW reply \in {"none", "one"}, Registered, DispatchRawMessage(reply)
  PROVE  /\ idle' = 0 /\ readyState' \in {"OPEN", "CLOSING"}
         /\ readyState' = "OPEN" => readyState = "OPEN"
  BY DEF Registered, DispatchRawMessage, SendFrame, Sent

LEMMA TimersStep ==
  ASSUME HealthInv, [HealthNext]_healthVars
  PROVE  Timers'
<1> USE DEF HealthInv
<1>1. CASE Establish
  BY <1>1, Constants DEF Establish, Timers, heartbeat, peer
<1>2. CASE ReceiveFrame
  BY <1>2, DispatchEffect, Constants DEF ReceiveFrame, Timers, heartbeat, peer
<1>3. CASE ReceivePong
  BY <1>3, DispatchEffect, Constants DEF ReceivePong, Timers, heartbeat
<1>4. CASE Deliver \/ Drain \/ Keepalive
  BY <1>4, Constants DEF Deliver, Drain, Keepalive, Timers, heartbeat, peer, SendFrame, Sent
<1>5. CASE Cut \/ Restore
  <2>1. /\ UNCHANGED <<readyState, idle, isRunning, isHeartbeatTimedOut, sweepIn, fallbackIn>>
        /\ reachable' \in BOOLEAN /\ wasCut' \in BOOLEAN
        /\ pongIn' = Off \/ pongIn' = pongIn
    BY <1>5 DEF Cut, Restore, heartbeat, Timers
  <2> QED
    BY <2>1, Constants DEF Timers
<1>6. CASE CheckHeartbeats
  <2>1. sweepIn' = sweepTickMs /\ UNCHANGED <<idle, isRunning, reachable, wasCut>>
    BY <1>6 DEF CheckHeartbeats
  <2>2. CASE Gone /\ UNCHANGED isHeartbeatTimedOut
    BY <2>1, <2>2, Constants DEF Gone, Timers
  <2>3. CASE Registered /\ TimeOut
    BY <2>1, <2>3, Constants DEF Registered, TimeOut, CloseSocket, Timers
  <2>4. CASE Registered /\ Ping
    BY <2>1, <2>4, Constants DEF Registered, Ping, SendFrame, Sent, Timers
  <2>5. CASE UNCHANGED <<readyState, isHeartbeatTimedOut, fallbackIn, pongIn>>
    BY <2>1, <2>5, Constants DEF Timers
  <2> QED
    BY <1>6, <2>2, <2>3, <2>4, <2>5 DEF CheckHeartbeats
<1>7. CASE StopHeartbeat \/ ForceClose
  <2>1. /\ UNCHANGED <<idle, isHeartbeatTimedOut, sweepIn, fallbackIn, reachable, wasCut, pongIn>>
        /\ isRunning' \in BOOLEAN
        /\ readyState' = readyState \/ readyState' = "CLOSING"
    BY <1>7 DEF StopHeartbeat, ForceClose, CloseSocket, heartbeat, peer, Timers
  <2> QED
    BY <2>1, Constants DEF Timers
<1>10. CASE PeerCloses \/ Fallback
  <2>1. /\ readyState' = "CLOSED" /\ fallbackIn' = Off /\ pongIn' = Off
        /\ UNCHANGED <<idle, sweepIn, isRunning, isHeartbeatTimedOut, reachable, wasCut>>
    BY <1>10 DEF PeerCloses, Fallback, Gone
  <2> QED
    BY <2>1, Constants DEF Timers
<1>8. CASE HealthTick
  BY <1>8, Constants DEF HealthTick, Timers, Smaller
<1>9. CASE UNCHANGED healthVars
  BY <1>9 DEF healthVars, Timers, heartbeat, peer
<1> QED
  BY <1>1, <1>2, <1>3, <1>4, <1>5, <1>6, <1>7, <1>8, <1>9, <1>10 DEF HealthNext

\* The bounds on the last sign of life give the bound of the property.
LEMMA IdleBounded ==
  ASSUME Timers, ReapInv, Registered, isRunning
  PROVE  idle <= ReapBound
<1>1. CASE isHeartbeatTimedOut
  BY <1>1, Constants DEF Timers, ReapInv, ReapBound
<1>2. CASE ~isHeartbeatTimedOut
  BY <1>2, Constants DEF Timers, ReapInv, ReapBound
<1> QED
  BY <1>1, <1>2

LEMMA ReapStep ==
  ASSUME HealthInv, [HealthNext]_healthVars
  PROVE  ReapInv'
<1> USE DEF HealthInv
<1>1. ASSUME UNCHANGED <<sweepIn, isRunning, isHeartbeatTimedOut, fallbackIn>>,
             Registered' => Registered, idle' = idle \/ idle' = 0
      PROVE  ReapInv'
  <2>1. idle' = idle \/ idle' = 0
    BY <1>1
  <2>2. CASE Registered'
    <3>1. Registered /\ (isRunning' <=> isRunning) /\ (isHeartbeatTimedOut' <=> isHeartbeatTimedOut)
      BY <1>1, <2>2
    <3>2. /\ sweepIn' = sweepIn /\ fallbackIn' = fallbackIn
          /\ sweepIn \in Int /\ fallbackIn \in Int /\ idle \in Nat
      BY <1>1 DEF Timers
    <3>3. isHeartbeatTimedOut => fallbackIn # Off
      BY <3>1 DEF ReapInv
    <3>4. ASSUME isRunning, ~isHeartbeatTimedOut
          PROVE  idle' + sweepIn <= IntervalMs + TimeoutMs + sweepTickMs
      <4>1. idle + sweepIn <= IntervalMs + TimeoutMs + sweepTickMs
        BY <3>1, <3>4 DEF ReapInv
      <4> QED
        BY <2>1, <3>2, <4>1, Constants
    <3>5. ASSUME isRunning, isHeartbeatTimedOut
          PROVE  idle' + fallbackIn <= IntervalMs + TimeoutMs + sweepTickMs + MaxLag + FallbackMs
      <4>1. idle + fallbackIn <= IntervalMs + TimeoutMs + sweepTickMs + MaxLag + FallbackMs
        BY <3>1, <3>5 DEF ReapInv
      <4> QED
        BY <2>1, <3>2, <4>1, Constants
    <3> QED
      BY <3>1, <3>2, <3>3, <3>4, <3>5 DEF ReapInv
  <2>3. CASE ~Registered'
    BY <2>3 DEF ReapInv
  <2> QED
    BY <2>2, <2>3
<1>2. CASE Establish
  <2>1. /\ idle' = 0 /\ UNCHANGED <<sweepIn, isRunning, isHeartbeatTimedOut, fallbackIn>>
        /\ ~isHeartbeatTimedOut
    BY <1>2 DEF Establish, heartbeat, Timers
  <2> QED
    BY <2>1, Constants DEF Timers, ReapInv
<1>3. CASE ReceiveFrame
  BY <1>1, <1>3, DispatchEffect DEF ReceiveFrame, heartbeat
<1>4. CASE ReceivePong
  BY <1>1, <1>4, DispatchEffect DEF ReceivePong, heartbeat
<1>5. CASE Deliver \/ Drain \/ Keepalive \/ Cut \/ Restore \/ ForceClose
  <2>1. Registered' => Registered
    BY <1>5 DEF Deliver, Drain, Keepalive, Cut, Restore, ForceClose, CloseSocket, Registered
  <2> QED
    BY <1>1, <1>5, <2>1 DEF Deliver, Drain, Keepalive, Cut, Restore, ForceClose, heartbeat
<1>6. CASE PeerCloses \/ Fallback
  BY <1>6 DEF PeerCloses, Fallback, Gone, Registered, ReapInv
<1>7. CASE StopHeartbeat
  BY <1>7 DEF StopHeartbeat, Registered, ReapInv
<1>8. CASE CheckHeartbeats
  <2>1. /\ sweepIn' = sweepTickMs /\ UNCHANGED <<idle, isRunning>>
        /\ isRunning /\ sweepIn <= 0
    BY <1>8 DEF CheckHeartbeats
  <2>2. CASE Gone
    BY <2>2 DEF Gone, Registered, ReapInv
  <2>3. CASE Registered /\ ~isHeartbeatTimedOut /\ TimeOut
    <3>1. idle <= IntervalMs + TimeoutMs + sweepTickMs + MaxLag
      BY <2>1, <2>3, Constants DEF ReapInv, Timers
    <3> QED
      BY <2>1, <2>3, <3>1, Constants DEF TimeOut, ReapInv, Timers
  <2>4. CASE Registered /\ idle <= IntervalMs + TimeoutMs /\ UNCHANGED <<isHeartbeatTimedOut, fallbackIn>>
    BY <2>1, <2>4, Constants DEF ReapInv, Timers
  <2>5. CASE ~Registered /\ UNCHANGED readyState
    BY <2>5 DEF Registered, ReapInv
  <2> QED
    BY <1>8, <2>2, <2>3, <2>4, <2>5, Constants DEF CheckHeartbeats, Ping, Timers
<1>9. CASE HealthTick
  <2>1. /\ idle' \in Nat /\ idle' <= idle + 1 /\ UNCHANGED <<readyState, isRunning, isHeartbeatTimedOut>>
        /\ isRunning => sweepIn' = sweepIn - 1
        /\ fallbackIn # Off => fallbackIn' = fallbackIn - 1
    BY <1>9, Constants DEF HealthTick, Timers, Smaller
  <2>2. Registered' = Registered
    BY <2>1 DEF Registered
  <2> QED
    BY <2>1, <2>2, Constants DEF ReapInv, Timers
<1>10. CASE UNCHANGED healthVars
  BY <1>10 DEF healthVars, ReapInv, Registered, heartbeat
<1> QED
  BY <1>2, <1>3, <1>4, <1>5, <1>6, <1>7, <1>8, <1>9, <1>10 DEF HealthNext

\* A connection that PingInv speaks of: its peer answers and was never cut off.
Responsive == Answers /\ readyState = "OPEN" /\ isRunning /\ ~isHeartbeatTimedOut /\ ~wasCut

\* Such a connection is heard from before the time-out.
LEMMA ResponsiveIdle ==
  ASSUME Timers, PingInv, Responsive
  PROVE  /\ idle + 1 <= IntervalMs + TimeoutMs
         /\ pongIn # Off => idle + pongIn < IntervalMs + sweepTickMs + MaxLag + Rtt
         /\ pongIn = Off => idle + sweepIn < IntervalMs + sweepTickMs
<1>1. /\ pongIn = Off => idle + sweepIn < IntervalMs + sweepTickMs
      /\ pongIn # Off => idle + pongIn < IntervalMs + sweepTickMs + MaxLag + Rtt
  BY DEF PingInv, Responsive
<1> QED
  BY <1>1, Constants, TimingAssumption DEF Timers

LEMMA PingStep ==
  ASSUME HealthInv, [HealthNext]_healthVars
  PROVE  PingInv'
<1> USE DEF HealthInv
<1>1. ASSUME UNCHANGED <<sweepIn, pongIn>>, Responsive' => Responsive,
             idle' = idle \/ idle' = 0, ~wasCut' => reachable'
      PROVE  PingInv'
  <2>1. CASE Responsive'
    <3>1. /\ pongIn = Off => idle + sweepIn < IntervalMs + sweepTickMs
          /\ pongIn # Off => idle + pongIn < IntervalMs + sweepTickMs + MaxLag + Rtt
      BY <1>1, <2>1, ResponsiveIdle
    <3>2. /\ pongIn = Off => idle' + sweepIn < IntervalMs + sweepTickMs
          /\ pongIn # Off => idle' + pongIn < IntervalMs + sweepTickMs + MaxLag + Rtt
      BY <1>1, <3>1, Constants DEF Timers
    <3> QED
      BY <1>1, <3>2 DEF PingInv
  <2>2. CASE ~Responsive'
    BY <1>1, <2>2 DEF PingInv, Responsive
  <2> QED
    BY <2>1, <2>2
<1>2. CASE Establish
  <2>1. /\ idle' = 0 /\ pongIn' = Off /\ sweepIn' = sweepIn /\ sweepIn <= sweepTickMs
        /\ UNCHANGED <<reachable, wasCut>>
    BY <1>2 DEF Establish, heartbeat, peer, Timers
  <2>2. idle' + sweepIn' < IntervalMs + sweepTickMs
    BY <2>1, Constants DEF Timers
  <2> QED
    BY <2>1, <2>2 DEF PingInv
<1>3. CASE ReceiveFrame
  <2>1. UNCHANGED <<sweepIn, pongIn, isRunning, isHeartbeatTimedOut, reachable, wasCut>>
    BY <1>3 DEF ReceiveFrame, heartbeat, peer
  <2>2. idle' = 0 /\ (readyState' = "OPEN" => readyState = "OPEN")
    BY <1>3, DispatchEffect DEF ReceiveFrame
  <2> QED
    BY <1>1, <2>1, <2>2 DEF Responsive, PingInv
<1>4. CASE ReceivePong
  <2>1. UNCHANGED <<sweepIn, reachable, wasCut>> /\ pongIn' = Off
    BY <1>4 DEF ReceivePong, heartbeat
  <2>2. idle' = 0
    BY <1>4, DispatchEffect DEF ReceivePong
  <2>3. idle' + sweepIn' < IntervalMs + sweepTickMs
    BY <2>1, <2>2, Constants DEF Timers
  <2> QED
    BY <2>1, <2>3 DEF PingInv
<1>5. CASE Deliver \/ Drain \/ Keepalive \/ StopHeartbeat \/ ForceClose
  <2>1. UNCHANGED <<sweepIn, pongIn, reachable, wasCut>> /\ (idle' = idle \/ idle' = 0)
    BY <1>5 DEF Deliver, Drain, Keepalive, StopHeartbeat, ForceClose, heartbeat, peer
  <2>2. Responsive' => Responsive
    BY <1>5 DEF Deliver, Drain, Keepalive, StopHeartbeat, ForceClose, heartbeat, peer, Responsive,
         CloseSocket
  <2> QED
    BY <1>1, <2>1, <2>2 DEF PingInv
<1>6. CASE PeerCloses \/ Fallback
  BY <1>6 DEF PeerCloses, Fallback, Gone, PingInv
<1>7. CASE Cut
  BY <1>7 DEF Cut, PingInv
<1>8. CASE Restore
  <2>1. UNCHANGED <<sweepIn, pongIn, wasCut, idle>> /\ reachable' /\ (Responsive' => Responsive)
    BY <1>8 DEF Restore, heartbeat, Responsive
  <2> QED
    BY <1>1, <2>1
<1>9. CASE CheckHeartbeats
  <2>1. /\ sweepIn' = sweepTickMs /\ sweepIn <= 0 /\ UNCHANGED <<idle, isRunning, reachable, wasCut>>
    BY <1>9 DEF CheckHeartbeats
  <2>2. CASE Gone \/ TimeOut
    BY <2>1, <2>2 DEF Gone, TimeOut, PingInv
  <2>3. CASE idle < IntervalMs /\ UNCHANGED pongIn /\ UNCHANGED <<readyState, isHeartbeatTimedOut>>
    <3>1. Responsive' => Responsive
      BY <2>1, <2>3 DEF Responsive
    <3>2. CASE Responsive'
      <4>1. pongIn # Off => idle + pongIn < IntervalMs + sweepTickMs + MaxLag + Rtt
        BY <3>1, <3>2, ResponsiveIdle
      <4>2. idle + sweepTickMs < IntervalMs + sweepTickMs
        BY <2>3, Constants DEF Timers
      <4> QED
        BY <2>1, <2>3, <4>1, <4>2 DEF PingInv
    <3>3. CASE ~Responsive'
      BY <2>1, <2>3, <3>3 DEF PingInv, Responsive
    <3> QED
      BY <3>2, <3>3
  <2>4. CASE Ping
    <3>1. readyState' = "OPEN" => readyState = "OPEN"
      BY <2>4 DEF Ping, SendFrame, Sent
    <3>2. /\ UNCHANGED isHeartbeatTimedOut
          /\ pongIn' = IF Answers /\ reachable /\ readyState' = "OPEN" /\ pongIn = Off
                         THEN Rtt ELSE pongIn
      BY <2>4 DEF Ping
    <3>3. Responsive' => Responsive /\ reachable
      BY <2>1, <3>1, <3>2 DEF Responsive, PingInv
    <3>4. CASE Responsive'
      <4>1. pongIn' # Off
        BY <3>2, <3>3, <3>4, Constants DEF Responsive
      <4>2. CASE pongIn = Off
        <5>1. pongIn' = Rtt
          BY <3>2, <3>3, <3>4, <4>2 DEF Responsive
        <5>2. idle + sweepIn < IntervalMs + sweepTickMs
          BY <3>3, <3>4, <4>2, ResponsiveIdle
        <5>3. idle + Rtt < IntervalMs + sweepTickMs + MaxLag + Rtt
          BY <5>2, Constants DEF Timers
        <5> QED
          BY <2>1, <4>1, <5>1, <5>3 DEF PingInv
      <4>3. CASE pongIn # Off
        <5>1. pongIn' = pongIn
          BY <3>2, <4>3
        <5>2. idle + pongIn < IntervalMs + sweepTickMs + MaxLag + Rtt
          BY <3>3, <3>4, <4>3, ResponsiveIdle
        <5> QED
          BY <2>1, <4>1, <5>1, <5>2 DEF PingInv
      <4> QED
        BY <4>2, <4>3
    <3>5. CASE ~Responsive'
      BY <2>1, <3>5 DEF PingInv, Responsive
    <3> QED
      BY <3>4, <3>5
  <2>5. CASE ~Registered /\ UNCHANGED readyState
    BY <2>1, <2>5 DEF Registered, PingInv
  <2>6. \/ Gone \/ TimeOut \/ Ping
        \/ ~Quiet /\ UNCHANGED <<readyState, isHeartbeatTimedOut, pongIn>>
        \/ ~Registered /\ UNCHANGED readyState
    BY <1>9, Constants DEF CheckHeartbeats, Timers
  <2>7. ~Quiet => idle < IntervalMs
    BY Constants DEF Quiet, Timers
  <2> QED
    BY <2>2, <2>3, <2>4, <2>5, <2>6, <2>7
<1>10. CASE HealthTick
  <2>1. /\ UNCHANGED <<readyState, isRunning, isHeartbeatTimedOut, reachable, wasCut>>
        /\ pongIn' = IF pongIn = Off THEN Off ELSE pongIn - 1
        /\ isRunning => sweepIn' = sweepIn - 1
    BY <1>10 DEF HealthTick
  <2>2. Responsive' => Responsive
    BY <2>1 DEF Responsive
  <2>3. CASE Responsive'
    <3>1. /\ sweepIn' = sweepIn - 1 /\ idle' <= idle + 1
          /\ idle' = idle + 1 \/ idle' = ReapBound + 1
      BY <1>10, <2>1, <2>3, Constants DEF HealthTick, Responsive, Registered, Timers, Smaller
    <3>2. CASE pongIn = Off
      <4>1. idle + sweepIn < IntervalMs + sweepTickMs
        BY <2>2, <2>3, <3>2, ResponsiveIdle
      <4>2. idle' + sweepIn' < IntervalMs + sweepTickMs
        BY <3>1, <4>1, Constants DEF Timers
      <4> QED
        BY <2>1, <3>2, <4>2 DEF PingInv
    <3>3. CASE pongIn # Off
      <4>1. idle + pongIn < IntervalMs + sweepTickMs + MaxLag + Rtt
        BY <2>2, <2>3, <3>3, ResponsiveIdle
      <4>2. pongIn' = pongIn - 1 /\ pongIn' # Off
        BY <2>1, <3>3, Constants DEF Timers
      <4>3. idle' + pongIn' < IntervalMs + sweepTickMs + MaxLag + Rtt
        BY <3>1, <4>1, <4>2, Constants DEF Timers
      <4> QED
        BY <2>1, <4>2, <4>3 DEF PingInv
    <3> QED
      BY <3>2, <3>3
  <2>4. CASE ~Responsive'
    BY <2>1, <2>4 DEF PingInv, Responsive
  <2> QED
    BY <2>3, <2>4
<1>11. CASE UNCHANGED healthVars
  BY <1>11 DEF healthVars, heartbeat, peer, PingInv
<1> QED
  BY <1>2, <1>3, <1>4, <1>5, <1>6, <1>7, <1>8, <1>9, <1>10, <1>11 DEF HealthNext

-----------------------------------------------------------------------------
(***************************************************************************)
(* Theorems about SocketHealth                                             *)
(***************************************************************************)

LEMMA HealthInitially == HealthInit => HealthInv
<1> SUFFICES ASSUME HealthInit PROVE HealthInv
  OBVIOUS
<1>1. Timers
  <2>1. /\ isRunning \in BOOLEAN /\ isHeartbeatTimedOut \in BOOLEAN
        /\ reachable \in BOOLEAN /\ wasCut \in BOOLEAN /\ ~isHeartbeatTimedOut
    BY DEF HealthInit
  <2>2. /\ readyState = "none" /\ idle = 0 /\ sweepIn = sweepTickMs
        /\ fallbackIn = Off /\ pongIn = Off
    BY DEF HealthInit
  <2> QED
    BY <2>1, <2>2, Constants DEF Timers
<1>2. RateInv
  BY Constants DEF HealthInit, RateInv, Bucket, Refill, Smaller
<1>3. AbuseInv
  BY Constants DEF HealthInit, AbuseInv
<1>4. ReapInv /\ PingInv
  BY Constants DEF HealthInit, ReapInv, PingInv, Registered
<1> QED
  BY <1>1, <1>2, <1>3, <1>4 DEF HealthInv

\* The invariant holds in every state of a connection.
THEOREM HealthInvariant == HealthSpec => []HealthInv
<1>1. HealthInv /\ [HealthNext]_healthVars => HealthInv'
  BY TimersStep, RateStep, AbuseStep, ReapStep, PingStep DEF HealthInv
<1> QED
  BY <1>1, HealthInitially, PTL DEF HealthSpec

\* The token bucket, for every capacity and refill rate: however calls to
\* tryConsume and the lazy refills fall in time, at most BucketCapacity messages above
\* the refill rate get through.
THEOREM RateLimitHolds == HealthSpec => []RateBounded
<1>1. HealthInv => RateBounded
  <2> SUFFICES ASSUME HealthInv PROVE RateBounded
    OBVIOUS
  <2>1. Refill.tokens \in 0..BucketCapacity
    BY RefillRange DEF HealthInv, RateInv
  <2> QED
    BY <2>1, Constants DEF HealthInv, RateInv, Bucket, RateBounded
<1> QED
  BY <1>1, HealthInvariant, PTL

\* Threshold violations within the window close the connection, whatever the
\* spacing of the violations and whatever else happens between them.
THEOREM AbuseIsClosed == HealthSpec => []AbuseCloses
<1>1. HealthInv => AbuseCloses
  <2> SUFFICES ASSUME HealthInv, recent[Threshold] <= WindowMs PROVE readyState # "OPEN"
    BY DEF AbuseCloses
  <2>1. Threshold \in 1..Threshold
    BY Constants
  <2>2. violationCount >= Threshold /\ violationCount \in 0..Threshold
    BY <2>1 DEF HealthInv, AbuseInv
  <2>3. ~(violationCount < Threshold)
    BY <2>2, Constants
  <2> QED
    BY <2>3 DEF HealthInv, AbuseInv
<1> QED
  BY <1>1, HealthInvariant, PTL

\* While the sweeps of HeartbeatManager run, no connection stays registered
\* longer than ReapBound after its last sign of life, for every interval,
\* timeout, fallback delay and lag of the timers.
THEOREM HalfOpenIsReaped == HealthSpec => []HalfOpenReaped
<1>1. HealthInv => HalfOpenReaped
  BY IdleBounded DEF HealthInv, HalfOpenReaped
<1> QED
  BY <1>1, HealthInvariant, PTL

\* The sweeps never time out a connection whose client answers SYS_PING and
\* could be reached all the time, provided that a late sweep, its ping and the
\* answer fit into the timeout (TimingAssumption).
THEOREM ResponsiveIsKept ==
  ASSUME Answers
  PROVE  HealthSpec => ResponsiveKept
<1>1. ASSUME HealthInv, HealthNext, readyState = "OPEN", ~isHeartbeatTimedOut, isHeartbeatTimedOut', ~wasCut
      PROVE  FALSE
  <2>1. CheckHeartbeats
    BY <1>1 DEF HealthNext, Establish, Deliver, Drain, ReceiveFrame, ReceivePong, Keepalive, PeerCloses,
         Cut, Restore, Fallback, StopHeartbeat, ForceClose, HealthTick, heartbeat
  <2>2. isRunning /\ idle > IntervalMs + TimeoutMs
    BY <1>1, <2>1 DEF CheckHeartbeats, TimeOut, Ping, Gone
  <2>3. idle + 1 <= IntervalMs + TimeoutMs
    BY <1>1, <2>2, ResponsiveIdle DEF HealthInv, Responsive
  <2> QED
    BY <1>1, <2>2, <2>3, Constants DEF HealthInv, Timers
<1>2. HealthInv /\ [HealthNext]_healthVars =>
        [readyState = "OPEN" /\ ~isHeartbeatTimedOut /\ isHeartbeatTimedOut' => wasCut]_healthVars
  BY <1>1
<1> QED
  BY <1>2, HealthInvariant, PTL DEF HealthSpec, ResponsiveKept

-----------------------------------------------------------------------------
(***************************************************************************)
(* Uuidv7                                                                  *)
(***************************************************************************)

LEMMA IdConstants ==
  /\ SeqMax \in Nat /\ SeqMax > 0 /\ SeedMax \in Nat /\ 1 <= SeedMax /\ SeedMax <= SeqMax
  /\ \A ms \in Clock : ms \in Nat
  BY UuidAssumption

\* No id is of a later millisecond than the generator, and unless the counter was
\* overwritten the latest one shows the generator's state.
IdInv ==
  /\ lastMs \in Nat /\ sequenceCounter \in Nat
  /\ latest \in [ms : Nat, bits : Nat]
  /\ latest.ms <= lastMs
  /\ ~overwritten => latest = Id(lastMs, sequenceCounter)

\* What the counter leaves in an id.
LEMMA IdValue ==
  ASSUME NEW ms \in Nat, NEW n \in Nat
  PROVE  /\ Id(ms, n) \in [ms : Nat, bits : Nat]
         /\ Id(ms, n).ms = ms /\ Id(ms, n).bits = n % (SeqMax + 1)
<1>1. n % (SeqMax + 1) \in Nat
  BY IdConstants
<1> QED
  BY <1>1 DEF Id

\* The generator's state after a call without customTimestamp.
LEMMA Generated ==
  ASSUME IdInv, NEW ms \in Clock, GenerateUUIDv7(ms)
  PROVE  /\ lastMs' \in Nat /\ sequenceCounter' \in Nat
         /\ lastMs' > lastMs \/ (sequenceCounter' = sequenceCounter + 1 /\ lastMs' = lastMs)
<1>1. ms \in Nat
  BY IdConstants
<1>2. CASE ms > lastMs /\ lastMs' = ms /\ sequenceCounter' \in 0..SeedMax - 1
  BY <1>1, <1>2, IdConstants DEF IdInv
<1>3. CASE ms = lastMs /\ RollOver(ms)
  BY <1>1, <1>3 DEF IdInv, RollOver
<1>4. CASE sequenceCounter' = sequenceCounter + 1 /\ UNCHANGED lastMs
  BY <1>4 DEF IdInv
<1> QED
  BY <1>2, <1>3, <1>4 DEF GenerateUUIDv7

LEMMA IdInvStep ==
  ASSUME IdInv, [IdNext]_idVars
  PROVE  IdInv'
<1>1. ASSUME NEW ms \in Clock, GenerateUUIDv7(ms) PROVE IdInv'
  <2>1. PICK m \in Nat, n \in Nat : lastMs' = m /\ sequenceCounter' = n
    BY <1>1, Generated
  <2>2. latest' = Id(m, n) /\ overwritten' = FALSE
    BY <1>1, <2>1 DEF GenerateUUIDv7
  <2>3. latest' \in [ms : Nat, bits : Nat] /\ latest'.ms = m
    BY <2>2, IdValue
  <2>4. latest' = [ms |-> lastMs', bits |-> sequenceCounter' % (SeqMax + 1)]
    BY <2>1, <2>2 DEF Id
  <2>5. lastMs' \in Nat /\ sequenceCounter' \in Nat /\ latest'.ms <= lastMs'
    BY <2>1, <2>3
  <2> QED
    BY <2>2, <2>3, <2>4, <2>5 DEF IdInv, Id
<1>2. CASE GenerateCustom
  BY <1>2, IdConstants DEF GenerateCustom, IdInv
<1>3. CASE UNCHANGED idVars
  BY <1>3 DEF IdInv, idVars, Id
<1> QED
  BY <1>1, <1>2, <1>3 DEF IdNext

\* Division by a positive number: the remainder is what is left, and nothing else is.
LEMMA Division ==
  ASSUME NEW n \in Int, NEW w \in Int, w > 0
  PROVE  n = (n \div w) * w + (n % w)
  OBVIOUS

LEMMA Remainder ==
  ASSUME NEW n \in Nat, NEW w \in Nat, w > 0, NEW q \in Nat, NEW r \in 0..w - 1, n = q * w + r
  PROVE  n % w = r
  OBVIOUS

\* A counter that does not start again at 0 goes up by one.
LEMMA NextRemainder ==
  ASSUME NEW n \in Nat, NEW w \in Nat, w > 0, (n + 1) % w # 0
  PROVE  (n + 1) % w = (n % w) + 1
<1> DEFINE q == n \div w
           r == n % w
<1>1. q \in Nat /\ r \in 0..w - 1 /\ q * w \in Nat
  OBVIOUS
<1>2. n = q * w + r
  BY Division
<1> HIDE DEF q, r
<1>3. CASE r + 1 < w
  <2>1. r + 1 \in 0..w - 1 /\ n + 1 = q * w + (r + 1) /\ n + 1 \in Nat
    BY <1>1, <1>2, <1>3
  <2>2. (n + 1) % w = r + 1
    BY <1>1, <2>1, Remainder
  <2> QED
    BY <2>2 DEF r
<1>4. CASE r + 1 = w
  <2>1. (q + 1) * w = q * w + w
    BY <1>1
  <2>2. n + 1 = (q + 1) * w + 0 /\ n + 1 \in Nat /\ q + 1 \in Nat /\ 0 \in 0..w - 1
    BY <1>1, <1>2, <1>4, <2>1
  <2> QED
    BY <2>2, Remainder
<1> QED
  BY <1>1, <1>3, <1>4

\* The ids that generateUUIDv7 gives within a process increase, for every width
\* of the counter and every behaviour of the clock, except where the counter
\* runs over its bits while the clock is behind, and within the millisecond in
\* which a call with customTimestamp overwrote the counter.
THEOREM IdsAlwaysIncrease == IdInit /\ [][IdNext]_idVars => IdsIncrease
<1> DEFINE Rises == \/ Above(latest', latest)
                    \/ sequenceCounter' # 0 /\ sequenceCounter' % (SeqMax + 1) = 0
                    \/ overwritten /\ latest'.ms = latest.ms
<1>1. IdInit => IdInv
  <2> SUFFICES ASSUME IdInit PROVE IdInv
    OBVIOUS
  <2>1. lastMs = 0 /\ sequenceCounter = 0 /\ latest = Id(0, 0)
    BY DEF IdInit
  <2>2. latest \in [ms : Nat, bits : Nat] /\ latest.ms = 0
    BY <2>1, IdValue
  <2>3. latest = Id(lastMs, sequenceCounter)
    BY <2>1, Zenon
  <2>4. lastMs \in Nat /\ sequenceCounter \in Nat /\ latest.ms <= lastMs
    BY <2>1, <2>2
  <2> QED
    BY <2>2, <2>3, <2>4, Zenon DEF IdInv
<1>2. ASSUME IdInv, NEW ms \in Clock, GenerateUUIDv7(ms) PROVE Rises
  <2>1. PICK m \in Nat, n \in Nat : lastMs' = m /\ sequenceCounter' = n
    BY <1>2, Generated
  <2>2. latest' = Id(m, n)
    BY <1>2, <2>1 DEF GenerateUUIDv7
  <2>3. latest'.ms = m /\ latest'.bits = n % (SeqMax + 1)
    BY <2>2, IdValue
  <2>4. lastMs \in Nat /\ sequenceCounter \in Nat /\ latest.ms \in Nat /\ latest.ms <= lastMs
    BY <1>2 DEF IdInv
  <2>5. CASE m > latest.ms
    BY <2>3, <2>5 DEF Above
  <2>6. CASE ~(m > latest.ms)
    <3>1. m > lastMs \/ (n = sequenceCounter + 1 /\ m = lastMs)
      BY <1>2, <2>1, Generated
    <3>2. n = sequenceCounter + 1 /\ m = lastMs /\ latest.ms = m
      BY <2>4, <2>6, <3>1
    <3>3. CASE overwritten
      BY <2>3, <3>2, <3>3
    <3>4. CASE ~overwritten
      <4>1. latest.bits = sequenceCounter % (SeqMax + 1)
        BY <1>2, <2>4, <3>4, IdValue DEF IdInv
      <4>2. CASE n % (SeqMax + 1) = 0
        BY <2>1, <2>4, <3>2, <4>2
      <4>3. CASE n % (SeqMax + 1) # 0
        <5>1. SeqMax + 1 \in Nat /\ SeqMax + 1 > 0
          BY IdConstants
        <5>2. n % (SeqMax + 1) = (sequenceCounter % (SeqMax + 1)) + 1
          BY <2>4, <3>2, <4>3, <5>1, NextRemainder
        <5>3. sequenceCounter % (SeqMax + 1) \in Nat
          BY <2>4, <5>1
        <5> QED
          BY <2>3, <3>2, <4>1, <5>2, <5>3 DEF Above
      <4> QED
        BY <4>2, <4>3
    <3> QED
      BY <3>3, <3>4
  <2> QED
    BY <2>5, <2>6
<1>3. IdInv /\ [IdNext]_idVars => [~overwritten' => Rises]_idVars
  BY <1>2 DEF IdNext, GenerateCustom
<1>4. IdInv /\ [IdNext]_idVars => IdInv'
  BY IdInvStep
<1> QED
  BY <1>1, <1>3, <1>4, PTL DEF IdsIncrease

-----------------------------------------------------------------------------
(***************************************************************************)
(* The upgrade handler                                                     *)
(***************************************************************************)

\* Origins, tokens and requests over a set T of texts.
Origins(T) == [scheme : T, host : Seq(T), port : T, spelling : T]
TokenRecords(T) == [parts : Nat, signed : BOOLEAN, decodes : BOOLEAN, userId : T, exp : Int]
Requests(T) ==
  [given : BOOLEAN, origin : Origins(T), query : TokenRecords(T), bearer : BOOLEAN,
   authorization : TokenRecords(T), protocol : TokenRecords(T)]

UpgradesWellFormed(T) ==
  Upgrades \subseteq [request : Requests(T), allowedOrigins : SUBSET Origins(T), now : Nat]

\* Equal after normalisation is equal in meaning.
LEMMA NormalIsMeaning ==
  ASSUME NEW T, "" \in T, "plain" \in T, NEW a \in Origins(T), NEW h \in Origins(T)
  PROVE  /\ normalizeOrigin(h) = normalizeOrigin(a) <=> Meaning(a) = Meaning(h)
         /\ normalizeOrigin(a).port = "" <=> Meaning(a)[3] = DefaultPort(a.scheme)
         /\ normalizeOrigin(a).scheme = a.scheme /\ normalizeOrigin(a).host = a.host
<1> DEFINE d == DefaultPort(a.scheme)
           short(o) == IF o.port = DefaultPort(o.scheme) THEN "" ELSE o.port
           long(o) == IF o.port = "" THEN DefaultPort(o.scheme) ELSE o.port
<1>1. ASSUME NEW o \in Origins(T)
      PROVE  /\ normalizeOrigin(o) \in Origins(T)
             /\ normalizeOrigin(o).scheme = o.scheme /\ normalizeOrigin(o).host = o.host
             /\ normalizeOrigin(o).spelling = "plain" /\ normalizeOrigin(o).port = short(o)
  <2>1. short(o) \in T
    BY DEF Origins
  <2> HIDE DEF short
  <2>2. normalizeOrigin(o) = [o EXCEPT !.spelling = "plain", !.port = short(o)]
    BY DEF normalizeOrigin, short, Origins
  <2> QED
    BY <2>1, <2>2 DEF Origins
<1>2. normalizeOrigin(h) = normalizeOrigin(a) <=>
        h.scheme = a.scheme /\ h.host = a.host /\ short(h) = short(a)
  <2>1. ASSUME NEW p \in Origins(T), NEW q \in Origins(T)
        PROVE  p = q <=> /\ p.scheme = q.scheme /\ p.host = q.host
                         /\ p.port = q.port /\ p.spelling = q.spelling
    <3>1. /\ DOMAIN p = {"scheme", "host", "port", "spelling"} /\ p = [f \in DOMAIN p |-> p[f]]
          /\ DOMAIN q = {"scheme", "host", "port", "spelling"} /\ q = [f \in DOMAIN q |-> q[f]]
      BY DEF Origins
    <3>2. ASSUME p.scheme = q.scheme, p.host = q.host, p.port = q.port, p.spelling = q.spelling
          PROVE  \A f \in DOMAIN p : p[f] = q[f]
      BY <3>1, <3>2
    <3> QED
      BY <3>1, <3>2
  <2>2. normalizeOrigin(h) \in Origins(T) /\ normalizeOrigin(a) \in Origins(T)
    BY <1>1
  <2>3. normalizeOrigin(h) = normalizeOrigin(a) <=>
          /\ normalizeOrigin(h).scheme = normalizeOrigin(a).scheme
          /\ normalizeOrigin(h).host = normalizeOrigin(a).host
          /\ normalizeOrigin(h).port = normalizeOrigin(a).port
          /\ normalizeOrigin(h).spelling = normalizeOrigin(a).spelling
    BY <2>1, <2>2
  <2>4. /\ normalizeOrigin(h).scheme = h.scheme /\ normalizeOrigin(h).host = h.host
        /\ normalizeOrigin(h).spelling = "plain" /\ normalizeOrigin(h).port = short(h)
        /\ normalizeOrigin(a).scheme = a.scheme /\ normalizeOrigin(a).host = a.host
        /\ normalizeOrigin(a).spelling = "plain" /\ normalizeOrigin(a).port = short(a)
    BY <1>1
  <2> HIDE DEF short
  <2> QED
    BY <2>3, <2>4
<1>3. Meaning(a) = Meaning(h) <=> h.scheme = a.scheme /\ h.host = a.host /\ long(h) = long(a)
  BY DEF Meaning
<1>4. h.scheme = a.scheme => (short(h) = short(a) <=> long(h) = long(a))
  OBVIOUS
<1>5. short(a) = "" <=> long(a) = d
  OBVIOUS
<1>6. Meaning(a)[3] = long(a)
  BY DEF Meaning
<1> QED
  BY <1>1, <1>2, <1>3, <1>4, <1>5, <1>6

\* A host ends with a domain when what is left after some labels is the domain.
LEMMA EndsWithMeaning ==
  ASSUME NEW T, NEW host \in Seq(T), NEW domain \in Seq(T)
  PROVE  EndsWith(host, domain) <=>
           \E n \in 1..Len(host) : SubSeq(host, n + 1, Len(host)) = domain
<1>1. Len(host) \in Nat /\ Len(domain) \in Nat
  OBVIOUS
<1>2. ASSUME EndsWith(host, domain)
      PROVE  \E n \in 1..Len(host) : SubSeq(host, n + 1, Len(host)) = domain
  <2>1. Len(host) - Len(domain) \in 1..Len(host)
    BY <1>1, <1>2 DEF EndsWith
  <2> QED
    BY <1>2, <2>1 DEF EndsWith
<1>3. ASSUME NEW n \in 1..Len(host), SubSeq(host, n + 1, Len(host)) = domain
      PROVE  EndsWith(host, domain)
  <2>1. \A i \in n + 1..Len(host) : host[i] \in T
    BY <1>1
  <2>2. Len(domain) = IF n + 1 <= Len(host) THEN Len(host) - (n + 1) + 1 ELSE 0
    BY <1>1, <1>3, <2>1, SubSeqProperties
  <2>3. Len(domain) = Len(host) - n
    BY <1>1, <2>2
  <2>4. Len(host) > Len(domain) /\ Len(host) - Len(domain) + 1 = n + 1
    BY <1>1, <2>3
  <2> QED
    BY <1>3, <2>4 DEF EndsWith
<1> QED
  BY <1>2, <1>3

\* OriginMatcher decides by meaning, whatever the spelling.
LEMMA MatchesNames ==
  ASSUME NEW T, "" \in T, "plain" \in T, NEW a \in Origins(T), NEW h \in Origins(T)
  PROVE  OriginMatches(normalizeOrigin(h), normalizeOrigin(a)) <=> Names(a, h)
<1>1. ASSUME a.host # <<>>
      PROVE  EndsWith(h.host, Tail(a.host)) <=>
               \E n \in 1..Len(h.host) : SubSeq(h.host, n + 1, Len(h.host)) = Tail(a.host)
  <2>1. a.host \in Seq(T) /\ h.host \in Seq(T)
    BY DEF Origins
  <2>2. Tail(a.host) \in Seq(T)
    BY <1>1, <2>1, HeadTailProperties
  <2> QED
    BY <2>1, <2>2, EndsWithMeaning
<1>2. /\ normalizeOrigin(h) = normalizeOrigin(a) <=> Meaning(a) = Meaning(h)
      /\ normalizeOrigin(a).port = "" <=> Meaning(a)[3] = DefaultPort(a.scheme)
      /\ normalizeOrigin(a).scheme = a.scheme /\ normalizeOrigin(a).host = a.host
      /\ normalizeOrigin(h).scheme = h.scheme /\ normalizeOrigin(h).host = h.host
  BY NormalIsMeaning
<1> QED
  BY <1>1, <1>2 DEF OriginMatches, Names

\* Authenticator looks at the token that decides, and at no other.
LEMMA TokenDecides ==
  ASSUME NEW T, NEW q \in Requests(T), NEW now \in Nat
  PROVE  authenticateRequest(q, now) <=>
           \E t \in {q.query, q.authorization, q.protocol} :
             /\ Decides(q, t)
             /\ t.parts = 2 /\ t.signed /\ t.decodes /\ t.userId # ""
             /\ now <= t.exp
<1>1. q.query \in TokenRecords(T) /\ q.authorization \in TokenRecords(T)
      /\ q.protocol \in TokenRecords(T) /\ q.bearer \in BOOLEAN
  BY DEF Requests
<1>2. ASSUME NEW t \in TokenRecords(T)
      PROVE  verifyToken(t, now) <=> /\ t.parts = 2 /\ t.signed /\ t.decodes /\ t.userId # ""
                                     /\ now <= t.exp
  <2>1. t.exp \in Int
    BY DEF TokenRecords
  <2>2. ~(now > t.exp) <=> now <= t.exp
    BY <2>1
  <2> QED
    BY <2>2 DEF verifyToken
<1>3. extractToken(q) \in {q.query, q.authorization, q.protocol}
  BY Zenon DEF extractToken
<1>4. ASSUME NEW t PROVE Decides(q, t) <=> t = extractToken(q)
  <2>1. CASE q.query # NoToken
    BY <2>1, Zenon DEF Decides, extractToken
  <2>2. CASE q.query = NoToken /\ q.bearer
    BY <2>2, Zenon DEF Decides, extractToken
  <2>3. CASE q.query = NoToken /\ ~q.bearer
    BY <2>3, Zenon DEF Decides, extractToken
  <2> QED
    BY <2>1, <2>2, <2>3
<1>5. extractToken(q) \in TokenRecords(T)
  BY <1>1, <1>3
<1> QED
  BY <1>2, <1>3, <1>4, <1>5 DEF authenticateRequest

UpgradeInv ==
  /\ at \in {"admitted", "refused"} =>
       /\ upgrade \in Upgrades
       /\ at = "admitted" <=> Admits(upgrade.request, upgrade.allowedOrigins, upgrade.now)

\* The upgrade handler admits a request iff its origin is absent or named by the
\* list and the token that decides is genuine and has not expired: for every
\* request, with any tokens in any of the three places, every list and every time.
THEOREM HandshakeIsSound ==
  ASSUME NEW T, "" \in T, "plain" \in T, UpgradesWellFormed(T)
  PROVE  IngressInit /\ [][IngressNext]_ingressVars => []HandshakeSound
<1>1. IngressInit => UpgradeInv
  BY DEF IngressInit, UpgradeInv
<1>2. UpgradeInv /\ [IngressNext]_ingressVars => UpgradeInv'
  <2> SUFFICES ASSUME UpgradeInv, [IngressNext]_ingressVars PROVE UpgradeInv'
    OBVIOUS
  <2>1. CASE Upgrade
    BY <2>1 DEF Upgrade, UpgradeInv
  <2>2. CASE Connected \/ Dispatch \/ Distribute \/ Receive
    BY <2>2 DEF Connected, Dispatch, Distribute, Receive, UpgradeInv
  <2>3. CASE UNCHANGED ingressVars
    BY <2>3 DEF ingressVars, UpgradeInv
  <2> QED
    BY <2>1, <2>2, <2>3 DEF IngressNext
<1>3. UpgradeInv => HandshakeSound
  <2> SUFFICES ASSUME UpgradeInv, at \in {"admitted", "refused"} PROVE HandshakeSound
    BY DEF HandshakeSound
  <2> DEFINE q == upgrade.request
             l == upgrade.allowedOrigins
  <2>1. q \in Requests(T) /\ l \subseteq Origins(T) /\ upgrade.now \in Nat
    BY DEF UpgradeInv, UpgradesWellFormed
  <2>2. at = "admitted" <=> Admits(q, l, upgrade.now)
    BY DEF UpgradeInv
  <2> HIDE DEF q, l
  <2>3. q.origin \in Origins(T)
    BY <2>1 DEF Requests
  <2>4. isAllowed(q.given, q.origin, l) <=>
          AnyOrigin \in l \/ ~q.given \/ \E a \in l : Names(a, q.origin)
    BY <2>1, <2>3, MatchesNames DEF isAllowed
  <2>5. authenticateRequest(q, upgrade.now) <=>
          \E t \in {q.query, q.authorization, q.protocol} :
            /\ Decides(q, t)
            /\ t.parts = 2 /\ t.signed /\ t.decodes /\ t.userId # ""
            /\ upgrade.now <= t.exp
    BY <2>1, TokenDecides
  <2> QED
    BY <2>2, <2>4, <2>5 DEF HandshakeSound, Admits, q, l
<1> QED
  BY <1>1, <1>2, <1>3, PTL

-----------------------------------------------------------------------------
(***************************************************************************)
(* A message between the nodes                                             *)
(***************************************************************************)

Fields == {"eventId", "type", "timestamp", "senderId", "seq", "target", "payload", "correlationId",
           "ackRequired", "originInstanceId", "originTimestampMs"}

\* The frame passes all checks of validateIncoming.
Passes(o) == \A i \in 1..Len(Checks) : ~Fails(o, Checks[i])

CheckNames ==
  {"MALFORMED_JSON", "INVALID_ENVELOPE", "MISSING_EVENT_TYPE", "UNRECOGNIZED_EVENT_TYPE",
   "INVALID_SEQUENCE_NUMBER", "MISSING_ROOM_ID", "INVALID_ROOMS_ARRAY", "BATCH_SIZE_EXCEEDED",
   "INVALID_ROOM_ID", "EMPTY_PAYLOAD", "MISSING_RECIPIENT_ID", "INVALID_ORIGIN_INSTANCE_ID",
   "INVALID_ORIGIN_TIMESTAMP"}

LEMMA ChecksListed ==
  /\ \A i \in 1..Len(Checks) : Checks[i] \in CheckNames
  /\ \A c \in CheckNames : \E i \in 1..Len(Checks) : Checks[i] = c
<1>1. Len(Checks) = 13
  BY DEF Checks
<1>2. /\ Checks[1] = "MALFORMED_JSON" /\ Checks[2] = "INVALID_ENVELOPE"
      /\ Checks[3] = "MISSING_EVENT_TYPE" /\ Checks[4] = "UNRECOGNIZED_EVENT_TYPE"
      /\ Checks[5] = "INVALID_SEQUENCE_NUMBER" /\ Checks[6] = "MISSING_ROOM_ID"
      /\ Checks[7] = "INVALID_ROOMS_ARRAY" /\ Checks[8] = "BATCH_SIZE_EXCEEDED"
      /\ Checks[9] = "INVALID_ROOM_ID" /\ Checks[10] = "EMPTY_PAYLOAD"
      /\ Checks[11] = "MISSING_RECIPIENT_ID" /\ Checks[12] = "INVALID_ORIGIN_INSTANCE_ID"
      /\ Checks[13] = "INVALID_ORIGIN_TIMESTAMP"
  BY DEF Checks
<1>3. 1..Len(Checks) = {1, 2, 3, 4, 5, 6, 7, 8, 9, 10, 11, 12, 13}
  BY <1>1
<1> HIDE DEF Checks
<1>4. \A i \in 1..Len(Checks) : Checks[i] \in CheckNames
  BY <1>2, <1>3 DEF CheckNames
<1>5. \A c \in CheckNames : \E i \in 1..13 : Checks[i] = c
  BY <1>2 DEF CheckNames
<1> QED
  BY <1>1, <1>4, <1>5

\* Trimming again changes nothing, and a blank addressee stays blank.
LEMMA AddresseeKept ==
  ASSUME NEW o, NEW w, NEW f, w.target[f] = Addressee(o, f), w.payload = o.payload
  PROVE  Addressee(w, f) = Addressee(o, f)
<1> DEFINE p == o.payload[f]
           t == o.target[f]
<1>1. /\ \A v \in Text : Trim[v] \in Text /\ Trim[Trim[v]] = Trim[v]
      /\ "" \in Text /\ Trim[""] = "" /\ Undefined \notin Text
  BY DEF Trim, Text, Undefined
<1>2. Addressee(o, f) = IF Truthy(TrimOr(t, Undefined)) THEN TrimOr(t, Undefined)
                          ELSE TrimOr(p, TrimOr(t, Undefined))
  BY DEF Addressee
<1>3. Addressee(w, f) = IF Truthy(TrimOr(w.target[f], Undefined)) THEN TrimOr(w.target[f], Undefined)
                          ELSE TrimOr(p, TrimOr(w.target[f], Undefined))
  BY DEF Addressee
<1>4. \A v, d : d = Undefined \/ (d \in Text /\ Trim[d] = d) =>
                  TrimOr(v, d) = Undefined \/ (TrimOr(v, d) \in Text /\ Trim[TrimOr(v, d)] = TrimOr(v, d))
  BY <1>1 DEF TrimOr
<1>5. \/ Addressee(o, f) = Undefined
      \/ Addressee(o, f) \in Text /\ Trim[Addressee(o, f)] = Addressee(o, f)
  <2> DEFINE n == TrimOr(t, Undefined)
  <2> HIDE DEF p, t
  <2>1. n = Undefined \/ (n \in Text /\ Trim[n] = n)
    BY <1>4
  <2> HIDE DEF n
  <2>2. TrimOr(p, n) = Undefined \/ (TrimOr(p, n) \in Text /\ Trim[TrimOr(p, n)] = TrimOr(p, n))
    BY <1>4, <2>1
  <2> QED
    BY <1>2, <2>1, <2>2 DEF n
<1>6. TrimOr(w.target[f], Undefined) = Addressee(o, f)
  BY <1>1, <1>5 DEF TrimOr
<1>7. CASE Truthy(Addressee(o, f))
  BY <1>3, <1>6, <1>7
<1>8. CASE ~Truthy(Addressee(o, f))
  <2>1. Addressee(o, f) = TrimOr(p, TrimOr(t, Undefined))
    BY <1>2, <1>8
  <2>2. TrimOr(p, Addressee(o, f)) = Addressee(o, f)
    BY <2>1 DEF TrimOr
  <2> QED
    BY <1>3, <1>6, <1>8, <2>2
<1> QED
  BY <1>7, <1>8

\* What the other node reads.
LEMMA WireFields ==
  ASSUME NEW o, NEW e, e = EnvelopeOf(o, "x"),
         NEW w, w = Wire(stampForDistribution(e, "y", "1"))
  PROVE  /\ w.text = "object" /\ w.senderId = "x" /\ w.seq = Undefined
         /\ w.originInstanceId = "y" /\ w.originTimestampMs = "1"
         /\ w.eventId = e.eventId /\ w.type = o.type /\ w.payload = o.payload
         /\ w.target = e.target /\ w.correlationId = e.correlationId
         /\ w.ackRequired = o.ackRequired
         /\ w.timestamp = IF e.timestamp = "1e999" THEN Other ELSE e.timestamp
<1>1. /\ DOMAIN e = Fields /\ e.senderId = "x" /\ e.type = o.type /\ e.payload = o.payload
      /\ e.ackRequired = o.ackRequired
  BY DEF EnvelopeOf, Fields
<1> DEFINE s == stampForDistribution(e, "y", "1")
<1>2. /\ DOMAIN s = Fields
      /\ s.senderId = "x" /\ s.seq = Undefined /\ s.originInstanceId = "y"
      /\ s.originTimestampMs = "1" /\ s.eventId = e.eventId /\ s.type = o.type
      /\ s.payload = o.payload /\ s.target = e.target /\ s.correlationId = e.correlationId
      /\ s.ackRequired = o.ackRequired /\ s.timestamp = e.timestamp
  BY <1>1 DEF stampForDistribution, Fields
<1> HIDE DEF s
<1>3. w = [f \in Fields \cup {"text"} |->
             CASE f = "text" -> "object"
               [] f = "timestamp" -> IF s[f] = "1e999" THEN Other ELSE s[f]
               [] OTHER -> s[f]]
  BY <1>2 DEF Wire, s
<1>4. w.text = "object" /\ w.timestamp = IF s.timestamp = "1e999" THEN Other ELSE s.timestamp
  BY <1>3 DEF Fields
<1>5. \A f \in Fields \ {"timestamp"} : w[f] = s[f]
  BY <1>3 DEF Fields
<1> QED
  BY <1>2, <1>4, <1>5 DEF Fields

\* The published event passes the checks of the other node.
LEMMA WirePasses ==
  ASSUME NEW o, Passes(o), NEW w,
         w.text = "object", w.seq = Undefined,
         w.originInstanceId = "y", w.originTimestampMs = "1",
         w.type = o.type, w.payload = o.payload,
         Addressee(w, "roomId") = Addressee(o, "roomId"),
         Addressee(w, "recipientId") = Addressee(o, "recipientId")
  PROVE  Passes(w)
<1>1. \A c \in CheckNames : ~Fails(o, c)
  BY ChecksListed DEF Passes
<1>2. ~Fails(w, "MALFORMED_JSON") /\ ~Fails(w, "INVALID_ENVELOPE")
  BY DEF Fails
<1>3. ~Fails(w, "MISSING_EVENT_TYPE")
  <2>1. ~Fails(o, "MISSING_EVENT_TYPE")
    BY <1>1 DEF CheckNames
  <2> QED
    BY <2>1 DEF Fails
<1>4. ~Fails(w, "UNRECOGNIZED_EVENT_TYPE")
  <2>1. ~Fails(o, "UNRECOGNIZED_EVENT_TYPE")
    BY <1>1 DEF CheckNames
  <2> QED
    BY <2>1 DEF Fails
<1>5. ~Fails(w, "INVALID_SEQUENCE_NUMBER")
  BY DEF Fails
<1>6. ~Fails(w, "MISSING_ROOM_ID")
  <2>1. ~Fails(o, "MISSING_ROOM_ID")
    BY <1>1 DEF CheckNames
  <2> QED
    BY <2>1 DEF Fails
<1>7. ~Fails(w, "INVALID_ROOMS_ARRAY")
  <2>1. ~Fails(o, "INVALID_ROOMS_ARRAY")
    BY <1>1 DEF CheckNames
  <2> QED
    BY <2>1 DEF Fails
<1>8. ~Fails(w, "BATCH_SIZE_EXCEEDED")
  <2>1. ~Fails(o, "BATCH_SIZE_EXCEEDED")
    BY <1>1 DEF CheckNames
  <2> QED
    BY <2>1 DEF Fails
<1>9. ~Fails(w, "INVALID_ROOM_ID")
  <2>1. ~Fails(o, "INVALID_ROOM_ID")
    BY <1>1 DEF CheckNames
  <2> QED
    BY <2>1 DEF Fails
<1>10. ~Fails(w, "EMPTY_PAYLOAD")
  <2>1. ~Fails(o, "EMPTY_PAYLOAD")
    BY <1>1 DEF CheckNames
  <2> QED
    BY <2>1 DEF Fails
<1>11. ~Fails(w, "MISSING_RECIPIENT_ID")
  <2>1. ~Fails(o, "MISSING_RECIPIENT_ID")
    BY <1>1 DEF CheckNames
  <2> QED
    BY <2>1 DEF Fails
<1>12. ~Fails(w, "INVALID_ORIGIN_INSTANCE_ID")
  <2>1. "y" \in Text /\ Trim["y"] = "y"
    BY DEF Trim, Text
  <2>2. Truthy(TrimOr("y", ""))
    BY <2>1 DEF Truthy, TrimOr, Undefined
  <2> QED
    BY <2>2 DEF Fails
<1>13. ~Fails(w, "INVALID_ORIGIN_TIMESTAMP")
  BY DEF Fails, Other
<1>14. \A c \in CheckNames : ~Fails(w, c)
  BY <1>2, <1>3, <1>4, <1>5, <1>6, <1>7, <1>8, <1>9, <1>10, <1>11, <1>12, <1>13 DEF CheckNames
<1> QED
  BY <1>14, ChecksListed DEF Passes

\* e is the event that a frame o of the sender becomes.
IsEnvelope(e, o, sender) ==
  /\ DOMAIN e = Fields /\ e = [f \in Fields |-> e[f]]
  /\ e.eventId = IF Truthy(TextOr(o.eventId, "")) THEN o.eventId ELSE "generated"
  /\ e.timestamp = IF o.timestamp \in {"1", "1e999", "now"} THEN o.timestamp ELSE "now"
  /\ e.target = [f \in {"roomId", "recipientId"} |-> Addressee(o, f)]
  /\ e.correlationId = TextOr(o.correlationId, Undefined)
  /\ e.originInstanceId = TrimOr(o.originInstanceId, Undefined)
  /\ e.type = o.type /\ e.payload = o.payload /\ e.senderId = sender
  /\ e.ackRequired = o.ackRequired /\ e.seq = o.seq
  /\ e.originTimestampMs = o.originTimestampMs

LEMMA EnvelopeFields ==
  ASSUME NEW o, NEW sender
  PROVE  IsEnvelope(EnvelopeOf(o, sender), o, sender)
<1>1. ASSUME NEW e, e = EnvelopeOf(o, sender) PROVE IsEnvelope(e, o, sender)
  BY <1>1 DEF EnvelopeOf, Fields, IsEnvelope
<1> QED
  BY <1>1

\* What the other node makes of the event is what was accepted.
LEMMA EnvelopeKept ==
  ASSUME NEW o, NEW e, e = EnvelopeOf(o, "x"),
         NEW w, w = Wire(stampForDistribution(e, "y", "1"))
  PROVE  EnvelopeOf(w, "x") =
           [e EXCEPT !.originInstanceId = "y", !.originTimestampMs = "1", !.seq = Undefined,
                     !.timestamp = IF @ = "1e999" THEN "now" ELSE @]
<1> DEFINE r == EnvelopeOf(w, "x")
           g == [e EXCEPT !.originInstanceId = "y", !.originTimestampMs = "1", !.seq = Undefined,
                          !.timestamp = IF @ = "1e999" THEN "now" ELSE @]
<1>0. IsEnvelope(e, o, "x") /\ IsEnvelope(r, w, "x")
  BY EnvelopeFields
<1>1. /\ w.text = "object" /\ w.senderId = "x" /\ w.seq = Undefined
      /\ w.originInstanceId = "y" /\ w.originTimestampMs = "1"
      /\ w.eventId = e.eventId /\ w.type = o.type /\ w.payload = o.payload
      /\ w.target = e.target /\ w.correlationId = e.correlationId
      /\ w.ackRequired = o.ackRequired
      /\ w.timestamp = IF e.timestamp = "1e999" THEN Other ELSE e.timestamp
  BY WireFields
<1> HIDE DEF r
<1>2. /\ DOMAIN e = Fields /\ e = [f \in Fields |-> e[f]]
      /\ e.type = o.type /\ e.payload = o.payload /\ e.senderId = "x"
      /\ e.ackRequired = o.ackRequired
  BY <1>0 DEF IsEnvelope
<1>3. /\ DOMAIN r = Fields /\ r = [f \in Fields |-> r[f]]
      /\ r.type = w.type /\ r.payload = w.payload /\ r.senderId = "x"
      /\ r.ackRequired = w.ackRequired /\ r.seq = w.seq
      /\ r.originTimestampMs = w.originTimestampMs
  BY <1>0 DEF IsEnvelope
<1>4. /\ g.originInstanceId = "y" /\ g.originTimestampMs = "1" /\ g.seq = Undefined
      /\ g.timestamp = IF e.timestamp = "1e999" THEN "now" ELSE e.timestamp
      /\ g.eventId = e.eventId /\ g.type = e.type /\ g.payload = e.payload
      /\ g.senderId = e.senderId /\ g.target = e.target
      /\ g.correlationId = e.correlationId /\ g.ackRequired = e.ackRequired
      /\ DOMAIN g = Fields /\ g = [f \in Fields |-> g[f]]
  BY <1>2 DEF Fields
<1>5. r.eventId = e.eventId
  <2>1. e.eventId = IF Truthy(TextOr(o.eventId, "")) THEN o.eventId ELSE "generated"
    BY <1>0 DEF IsEnvelope
  <2>2. r.eventId = IF Truthy(TextOr(w.eventId, "")) THEN w.eventId ELSE "generated"
    BY <1>0 DEF IsEnvelope
  <2>3. "generated" \in Text
    BY DEF Text, Trim
  <2>4. Truthy(TextOr(e.eventId, ""))
    BY <2>1, <2>3 DEF TextOr, Truthy, Undefined
  <2> QED
    BY <1>1, <2>2, <2>4
<1>6. r.timestamp = g.timestamp
  <2>1. e.timestamp = IF o.timestamp \in {"1", "1e999", "now"} THEN o.timestamp ELSE "now"
    BY <1>0 DEF IsEnvelope
  <2>2. r.timestamp = IF w.timestamp \in {"1", "1e999", "now"} THEN w.timestamp ELSE "now"
    BY <1>0 DEF IsEnvelope
  <2>3. w.timestamp = IF e.timestamp = "1e999" THEN Other ELSE e.timestamp
    BY <1>1
  <2>4. g.timestamp = IF e.timestamp = "1e999" THEN "now" ELSE e.timestamp
    BY <1>4
  <2> HIDE DEF g
  <2> QED
    BY <2>1, <2>2, <2>3, <2>4 DEF Other
<1>7. r.correlationId = e.correlationId
  <2>1. e.correlationId = TextOr(o.correlationId, Undefined)
    BY <1>0 DEF IsEnvelope
  <2>2. r.correlationId = TextOr(w.correlationId, Undefined)
    BY <1>0 DEF IsEnvelope
  <2> HIDE DEF g
  <2> QED
    BY <1>1, <2>1, <2>2 DEF TextOr
<1>8. r.originInstanceId = "y"
  <2>1. "y" \in Text /\ Trim["y"] = "y"
    BY DEF Trim, Text
  <2>2. r.originInstanceId = TrimOr(w.originInstanceId, Undefined)
    BY <1>0 DEF IsEnvelope
  <2> HIDE DEF g
  <2> QED
    BY <1>1, <2>1, <2>2 DEF TrimOr
<1>9. r.target = e.target
  <2>1. e.target = [f \in {"roomId", "recipientId"} |-> Addressee(o, f)]
    BY <1>0 DEF IsEnvelope
  <2>2. r.target = [f \in {"roomId", "recipientId"} |-> Addressee(w, f)]
    BY <1>0 DEF IsEnvelope
  <2> HIDE DEF g
  <2>3. ASSUME NEW f \in {"roomId", "recipientId"} PROVE Addressee(w, f) = Addressee(o, f)
    <3>1. w.target[f] = Addressee(o, f)
      BY <1>1, <2>1
    <3> QED
      BY <1>1, <3>1, AddresseeKept
  <2> QED
    BY <2>1, <2>2, <2>3
<1> HIDE DEF g
<1>10. \A f \in Fields : r[f] = g[f]
  BY <1>1, <1>2, <1>3, <1>4, <1>5, <1>6, <1>7, <1>8, <1>9 DEF Fields
<1> QED
  BY <1>3, <1>4, <1>10 DEF r, g

\* A frame that one node accepts and publishes is accepted by every other.
LEMMA Relayed ==
  ASSUME NEW o, Passes(o), NEW e, e = EnvelopeOf(o, "x"),
         NEW w, w = Wire(stampForDistribution(e, "y", "1"))
  PROVE  /\ validateDistributed(w).valid
         /\ validateDistributed(w).envelope =
              [e EXCEPT !.originInstanceId = "y", !.originTimestampMs = "1", !.seq = Undefined,
                        !.timestamp = IF @ = "1e999" THEN "now" ELSE @]
<1> DEFINE r == EnvelopeOf(w, "x")
<1>1. /\ w.text = "object" /\ w.senderId = "x" /\ w.seq = Undefined
      /\ w.originInstanceId = "y" /\ w.originTimestampMs = "1"
      /\ w.type = o.type /\ w.payload = o.payload /\ w.target = e.target
  BY WireFields
<1>2. \A f \in {"roomId", "recipientId"} : Addressee(w, f) = Addressee(o, f)
  <2> SUFFICES ASSUME NEW f \in {"roomId", "recipientId"} PROVE Addressee(w, f) = Addressee(o, f)
    OBVIOUS
  <2>1. IsEnvelope(e, o, "x")
    BY EnvelopeFields
  <2>2. e.target = [g \in {"roomId", "recipientId"} |-> Addressee(o, g)]
    BY <2>1 DEF IsEnvelope
  <2>3. w.target[f] = Addressee(o, f)
    BY <1>1, <2>2
  <2> QED
    BY <1>1, <2>3, AddresseeKept
<1>3. Passes(w)
  BY <1>1, <1>2, WirePasses
<1>4. validateIncoming(w, "x") = [valid |-> TRUE, envelope |-> r]
  BY <1>3 DEF validateIncoming, Passes
<1>5. "y" \in Text /\ Trim["y"] = "y"
  BY DEF Trim, Text
<1>6. Truthy(TrimOr(w.originInstanceId, "")) /\ Truthy(w.senderId)
  BY <1>1, <1>5 DEF Truthy, TrimOr, Undefined
<1> DEFINE base == validateIncoming(w, IF Truthy(w.senderId) THEN w.senderId ELSE "unknown")
           d == [base EXCEPT !.envelope.originInstanceId = Trim[w.originInstanceId],
                             !.envelope.seq = Undefined]
<1>7. base = [valid |-> TRUE, envelope |-> r]
  <2>1. (IF Truthy(w.senderId) THEN w.senderId ELSE "unknown") = "x"
    BY <1>1, <1>6
  <2> QED
    BY <1>4, <2>1
<1>8. DOMAIN r = Fields /\ r = [f \in Fields |-> r[f]] /\ r.originInstanceId = "y" /\ r.seq = Undefined
  <2>1. IsEnvelope(r, w, "x")
    BY EnvelopeFields
  <2> HIDE DEF r
  <2>2. r.originInstanceId = TrimOr(w.originInstanceId, Undefined) /\ r.seq = w.seq
    BY <2>1 DEF IsEnvelope
  <2>3. DOMAIN r = Fields /\ r = [f \in Fields |-> r[f]]
    BY <2>1 DEF IsEnvelope
  <2> QED
    BY <1>1, <1>5, <2>2, <2>3 DEF TrimOr
<1>9. r = [e EXCEPT !.originInstanceId = "y", !.originTimestampMs = "1", !.seq = Undefined,
                    !.timestamp = IF @ = "1e999" THEN "now" ELSE @]
  BY EnvelopeKept
<1> HIDE DEF r
<1>10. [r EXCEPT !.originInstanceId = "y", !.seq = Undefined] = r
  BY <1>8 DEF Fields
<1>11. validateDistributed(w) = d
  <2>1. validateDistributed(w) =
          CASE w.text # "object" ->
                 [valid |-> FALSE, code |-> "INVALID_DISTRIBUTED_ENVELOPE",
                  correlationId |-> Undefined]
            [] w.text = "object" /\ ~Truthy(TrimOr(w.originInstanceId, "")) ->
                 [valid |-> FALSE, code |-> "MISSING_ORIGIN_INSTANCE_ID",
                  correlationId |-> TextOr(w.correlationId, Undefined)]
            [] OTHER -> IF base.valid THEN d ELSE base
    BY DEF validateDistributed
  <2>2. base.valid = TRUE
    BY <1>7
  <2> HIDE DEF base, d
  <2> QED
    BY <1>1, <1>6, <2>1, <2>2, Zenon
<1>12. d.valid = TRUE /\ d.envelope = [r EXCEPT !.originInstanceId = "y", !.seq = Undefined]
  <2>1. Trim[w.originInstanceId] = "y"
    BY <1>1, <1>5
  <2> HIDE DEF base
  <2> QED
    BY <1>7, <2>1 DEF d
<1> HIDE DEF base, d
<1>13. validateDistributed(w).valid
  BY <1>11, <1>12, Zenon
<1> QED
  BY <1>9, <1>10, <1>11, <1>12, <1>13

RelayInv ==
  /\ at \in {"accepted", "published", "received"} =>
       \E o \in Frames : Passes(o) /\ envelope = EnvelopeOf(o, "x")
  /\ at \in {"published", "received"} => wire = Wire(stampForDistribution(envelope, "y", "1"))
  /\ at = "received" => received = validateDistributed(wire)

\* Whatever frame a client sends: if its node accepts and publishes it, every
\* other node accepts it and makes the same event of it.
THEOREM RelayIsFaithful == IngressInit /\ [][IngressNext]_ingressVars => []RelayFaithful
<1>1. IngressInit => RelayInv
  BY DEF IngressInit, RelayInv
<1>2. RelayInv /\ [IngressNext]_ingressVars => RelayInv'
  <2> SUFFICES ASSUME RelayInv, [IngressNext]_ingressVars PROVE RelayInv'
    OBVIOUS
  <2>1. CASE Upgrade \/ Connected
    BY <2>1 DEF Upgrade, Connected, RelayInv
  <2>2. CASE Dispatch
    <3>1. PICK o \in Frames :
            /\ at' = IF validateIncoming(o, "x").valid THEN "accepted" ELSE "open"
            /\ envelope' = IF validateIncoming(o, "x").valid
                             THEN validateIncoming(o, "x").envelope ELSE None
      BY <2>2 DEF Dispatch
    <3>2. CASE Passes(o)
      <4>1. validateIncoming(o, "x") = [valid |-> TRUE, envelope |-> EnvelopeOf(o, "x")]
        BY <3>2 DEF validateIncoming, Passes
      <4> QED
        BY <3>1, <3>2, <4>1 DEF RelayInv
    <3>3. CASE ~Passes(o)
      <4>1. ~validateIncoming(o, "x").valid
        BY <3>3 DEF validateIncoming, Passes
      <4> QED
        BY <3>1, <4>1 DEF RelayInv
    <3> QED
      BY <3>2, <3>3
  <2>3. CASE Distribute
    BY <2>3 DEF Distribute, RelayInv
  <2>4. CASE Receive
    BY <2>4 DEF Receive, RelayInv
  <2>5. CASE UNCHANGED ingressVars
    BY <2>5 DEF ingressVars, RelayInv
  <2> QED
    BY <2>1, <2>2, <2>3, <2>4, <2>5 DEF IngressNext
<1>3. RelayInv => RelayFaithful
  <2> SUFFICES ASSUME RelayInv, at = "received" PROVE RelayFaithful
    BY DEF RelayFaithful
  <2>1. PICK o \in Frames : Passes(o) /\ envelope = EnvelopeOf(o, "x")
    BY DEF RelayInv
  <2>2. /\ wire = Wire(stampForDistribution(envelope, "y", "1"))
        /\ received = validateDistributed(wire)
    BY DEF RelayInv
  <2> QED
    BY <2>1, <2>2, Relayed DEF RelayFaithful
<1> QED
  BY <1>1, <1>2, <1>3, PTL
=============================================================================

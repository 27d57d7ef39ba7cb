----------------------------- MODULE Idempotency -----------------------------
(***************************************************************************)
(* IdempotencyManager, the LRU cache of acknowledged events of one node,   *)
(* driven the way MessageDispatcher drives it for ROOM_MESSAGE and         *)
(* DIRECT_MESSAGE: check, then (when the event is new and accepted)        *)
(* recordAck, with no await in between, so a frame is one action.          *)
(*                                                                         *)
(* The JavaScript Map is a sequence of entries in insertion order.  The    *)
(* ACK an entry holds is determined by the execution that recorded it.     *)
(***************************************************************************)
EXTENDS Integers, FiniteSets, SequencesExt

CONSTANTS
  EventIds,
  Payloads,     \* payload objects, as functions from key paths to values
  Capacity,     \* capacity
  Ttl,          \* ttlMs
  MaxTime       \* bound on the clock

ASSUME IdempotencyAssumption ==
  /\ IsFiniteSet(EventIds)
  /\ Capacity \in Nat \ {0}
  /\ Ttl \in Nat
  /\ MaxTime \in Nat

VARIABLES
  cache,        \* IdempotencyManager.cache
  now,          \* Date.now()
  lastRun,      \* history: when and with what payload an event was executed
  since         \* history: events recorded or replayed after this one was

cacheVars == <<cache, now, lastRun, since>>

Never == [ts |-> -1]
Execution == [ts : 0..MaxTime, payload : Payloads]
Entry == [id : EventIds, payload : Payloads, ts : 0..MaxTime]

\* Mutant: only the names of the top-level keys are hashed.
HashKeys(p) == {path[1] : path \in DOMAIN p}

\* hashPayload: the array of top-level keys that JSON.stringify gets as its
\* replacer filters the keys of nested objects too; SHA-256 is taken as
\* injective.  A path has at most two keys: payload.a or payload.a.b.
HashPayload(p) ==
  LET top == {path[1] : path \in DOMAIN p}
      kept == {path \in DOMAIN p : ToSet(path) \subseteq top}
  IN <<top, [path \in kept |-> p[path]]>>

Expired(e) == now - e.ts > Ttl

\* An entry that check would report as a duplicate.
Known(id) == \E i \in DOMAIN cache : cache[i].id = id /\ ~Expired(cache[i])

Position(id) == CHOOSE i \in DOMAIN cache : cache[i].id = id

\* The cache after a check that reports no duplicate: an expired entry is
\* deleted.
Dropped(id) ==
  IF \E i \in DOMAIN cache : cache[i].id = id
    THEN RemoveAt(cache, Position(id))
    ELSE cache

\* Mutant: a hit does not refresh the LRU position.
NotRefreshed(id) == cache

\* Mutant: a hit also renews the timestamp.
Renewed(id) ==
  Append(RemoveAt(cache, Position(id)), [cache[Position(id)] EXCEPT !.ts = now])

\* The cache after a check that reports a duplicate: the entry moves to the end
\* and keeps its timestamp.
Refreshed(id) == Append(RemoveAt(cache, Position(id)), cache[Position(id)])

\* recordAck of an event that check has just found absent.
RecordAck(s, e) == Append(IF Len(s) >= Capacity THEN Tail(s) ELSE s, e)

\* What pruneExpired leaves: from the oldest entry on it deletes up to the
\* first that is unexpired.
Pruned ==
  LET live == {i \in DOMAIN cache : ~Expired(cache[i])}
  IN IF live = {} THEN <<>> ELSE SubSeq(cache, Min(live), Len(cache))

\* The frame would be answered with the cached ACK.
IsReplay(id, p) ==
  Known(id) /\ HashPayload(p) = HashPayload(cache[Position(id)].payload)

\* The frame would be answered with EVENT_ID_CONFLICT.
IsConflict(id, p) ==
  Known(id) /\ HashPayload(p) # HashPayload(cache[Position(id)].payload)

Touched(id) ==
  since' = [e \in EventIds |-> IF e = id THEN {} ELSE since[e] \cup {id}]

-----------------------------------------------------------------------------
CacheInit ==
  /\ cache = <<>>
  /\ now = 0
  /\ lastRun = [id \in EventIds |-> Never]
  /\ since = [id \in EventIds |-> {}]

Tick ==
  /\ now < MaxTime
  /\ now' = now + 1
  /\ UNCHANGED <<cache, lastRun, since>>

\* A new event that passes the sequence and membership checks.
Execute(id, p) ==
  /\ ~Known(id)
  /\ cache' = RecordAck(Dropped(id), [id |-> id, payload |-> p, ts |-> now])
  /\ lastRun' = [lastRun EXCEPT ![id] = [ts |-> now, payload |-> p]]
  /\ Touched(id)
  /\ UNCHANGED now

\* A new event that fails one of them.
Reject(id) ==
  /\ ~Known(id)
  /\ cache' = Dropped(id)
  /\ UNCHANGED <<now, lastRun, since>>

\* A duplicate: the cached ACK is replayed, or the conflict reported.  Both
\* refresh the LRU position.
Duplicate(id, p) ==
  /\ IsReplay(id, p) \/ IsConflict(id, p)
  /\ cache' = Refreshed(id)
  /\ Touched(id)
  /\ UNCHANGED <<now, lastRun>>

PruneExpired == cache' = Pruned /\ UNCHANGED <<now, lastRun, since>>

\* clear, when the server stops: a new life that has executed nothing.
Clear ==
  /\ cache' = <<>>
  /\ lastRun' = [id \in EventIds |-> Never]
  /\ since' = [id \in EventIds |-> {}]
  /\ UNCHANGED now

CacheNext ==
  \/ Tick \/ PruneExpired \/ Clear
  \/ \E id \in EventIds :
       \/ Reject(id)
       \/ \E p \in Payloads : Execute(id, p) \/ Duplicate(id, p)

CacheSpec == CacheInit /\ [][CacheNext]_cacheVars

-----------------------------------------------------------------------------
(***************************************************************************)
(* Properties                                                              *)
(***************************************************************************)

\* The cache is a Map of at most one entry per event, with times of the clock.
CacheTypeOK ==
  /\ cache \in Seq(Entry)
  /\ now \in 0..MaxTime
  /\ lastRun \in [EventIds -> Execution \cup {Never}]
  /\ since \in [EventIds -> SUBSET EventIds]

\* Effectively once: an event executed within the TTL is still known, so a
\* retry of it is not executed again, unless at least Capacity other events
\* were recorded or replayed after it was.
Remembered ==
  \A id \in EventIds :
    /\ lastRun[id] # Never
    /\ now - lastRun[id].ts <= Ttl
    /\ Cardinality(since[id]) < Capacity
    => Known(id)

\* An ACK is replayed only within the TTL of the execution it acknowledges,
\* however often the event was retried before.
AckFresh ==
  \A id \in EventIds, p \in Payloads :
    IsReplay(id, p) => lastRun[id] # Never /\ now - lastRun[id].ts <= Ttl

\* An ACK is replayed only for a payload with the keys of the one that was
\* executed and the same values outside nested objects; the same event id with
\* another payload of that kind is a conflict.
ConflictDetected ==
  \A id \in EventIds, p \in Payloads :
    IsReplay(id, p) =>
      LET q == lastRun[id].payload
          flat == {path \in DOMAIN p \cup DOMAIN q : Len(path) = 1}
      IN \A path \in flat : path \in DOMAIN p \cap DOMAIN q /\ p[path] = q[path]
=============================================================================

---------------------------- MODULE RedisConnection ----------------------------
(***************************************************************************)
(* RedisConnectionManager: its two clients, the status it keeps for each,  *)
(* connect() with its timeout, the retry strategy that gives up, and       *)
(* disconnect().  ServerLifecycle extends this module with the server that *)
(* calls connect() and disconnect().                                       *)
(*                                                                         *)
(* A client of the library connects by itself and retries until the retry  *)
(* strategy returns null: then it has ended for good.  The error, close    *)
(* and reconnecting events of one failure come in one turn of the event    *)
(* loop, and the catch of connect() at its end: they are one step.         *)
(***************************************************************************)
EXTENDS Naturals, FiniteSets

CONSTANTS
  MaxAttempts,   \* retryMaxAttempts
  MaxFaults      \* bound on lost and refused connections and on time-outs

ASSUME RedisAssumption == MaxAttempts \in Nat \ {0} /\ MaxFaults \in Nat

Roles == {"publisher", "subscriber"}

VARIABLES
  client,    \* the library's clients
  status,    \* publisherStatus and subscriberStatus
  retries,   \* attempts of each client since it was ready
  waiting,   \* the clients connect() waits for
  quitting,  \* RedisConnectionManager.isShuttingDown
  faults

redisVars == <<client, status, retries, waiting, quitting, faults>>

Clients == {"none", "connecting", "ready", "ended"}
Statuses == {"idle", "connecting", "connected", "reconnecting",
             "disconnecting", "disconnected", "error"}

Both(x) == [r \in Roles |-> x]

RedisInit ==
  /\ client = Both("none") /\ status = Both("idle")
  /\ retries = Both(0) /\ waiting = {} /\ quitting = FALSE /\ faults = 0

IsConnected == \A r \in Roles : client[r] # "none" /\ status[r] = "connected"

\* connect(): two new clients.
Connect ==
  /\ client' = Both("connecting") /\ status' = Both("connecting")
  /\ retries' = Both(0) /\ waiting' = Roles /\ quitting' = FALSE
  /\ UNCHANGED faults

\* Mutant: only connect() marks a client as connected.
ReadyUnmarked(r) ==
  /\ client[r] = "connecting"
  /\ client' = [client EXCEPT ![r] = "ready"]
  /\ status' = IF r \in waiting THEN [status EXCEPT ![r] = "connected"] ELSE status
  /\ retries' = [retries EXCEPT ![r] = 0]
  /\ waiting' = waiting \ {r}
  /\ UNCHANGED <<quitting, faults>>

\* The ready event.
Ready(r) ==
  /\ client[r] = "connecting"
  /\ client' = [client EXCEPT ![r] = "ready"]
  /\ status' = [status EXCEPT ![r] = "connected"]
  /\ retries' = [retries EXCEPT ![r] = 0]
  /\ waiting' = waiting \ {r}
  /\ UNCHANGED <<quitting, faults>>

\* retryStrategy returns null.
GivesUp(r) == quitting \/ retries[r] + 1 > MaxAttempts

\* Mutant: the end of a connection is left to the next command to find out.
CloseStatusKept(r) == IF GivesUp(r) THEN "disconnected" ELSE status[r]

\* The status that the close event, and the end event after it, leave.
CloseStatus(r) == IF GivesUp(r) THEN "disconnected" ELSE "reconnecting"

\* What the library does with a client whose connection is gone.
Closed(r) ==
  /\ faults < MaxFaults /\ faults' = faults + 1
  /\ client' = [client EXCEPT ![r] = IF GivesUp(r) THEN "ended" ELSE "connecting"]
  /\ retries' = [retries EXCEPT ![r] = IF GivesUp(r) THEN @ ELSE @ + 1]
  /\ UNCHANGED quitting

\* An established connection breaks: the close event.
LoseClient(r) ==
  /\ client[r] = "ready" /\ Closed(r)
  /\ status' = [status EXCEPT ![r] = CloseStatus(r)]
  /\ UNCHANGED waiting

\* An attempt fails.  When connect() still waits for this client it rejects,
\* and its catch marks both clients, also one that is connected already.
Refused(r) ==
  /\ client[r] = "connecting" /\ Closed(r)
  /\ status' = IF r \in waiting THEN Both("error")
                                ELSE [status EXCEPT ![r] = CloseStatus(r)]
  /\ waiting' = IF r \in waiting THEN {} ELSE waiting

\* connect() waited connectTimeoutMs for a client: the same catch.
ConnectTimeout ==
  /\ waiting # {}
  /\ faults < MaxFaults /\ faults' = faults + 1
  /\ status' = Both("error") /\ waiting' = {}
  /\ UNCHANGED <<client, retries, quitting>>

\* disconnect() up to its awaits.
Disconnect ==
  /\ quitting' = TRUE /\ status' = Both("disconnecting")
  /\ UNCHANGED <<client, retries, waiting, faults>>

\* QUIT closed the client, or its two seconds are over and it was cut off.
Quit(r) ==
  /\ quitting /\ client[r] \in {"connecting", "ready"}
  /\ client' = [client EXCEPT ![r] = "ended"]
  /\ status' = [status EXCEPT ![r] = "disconnected"]
  /\ UNCHANGED <<retries, waiting, quitting, faults>>

HasQuit == \A r \in Roles : client[r] \in {"none", "ended"}

\* The end of disconnect().
Disconnected ==
  /\ client' = Both("none") /\ status' = Both("disconnected")
  /\ UNCHANGED <<retries, waiting, quitting, faults>>

-----------------------------------------------------------------------------
RedisTypeOK ==
  /\ client \in [Roles -> Clients] /\ status \in [Roles -> Statuses]
  /\ retries \in [Roles -> 0..MaxAttempts] /\ waiting \in SUBSET Roles
  /\ quitting \in BOOLEAN /\ faults \in 0..MaxFaults

\* A client gave up: nothing in the server connects it again.
GaveUp == \E r \in Roles : client[r] = "ended"

\* A client that is ready, which connect() marked as failed because of the
\* other one: no event will come that marks it as connected.
Mismarked == \E r \in Roles : client[r] = "ready" /\ status[r] = "error"
=============================================================================

--------------------------- MODULE DashboardSocket ---------------------------
(***************************************************************************)
(* The browser side of the dashboard: the usePulseSocket hook and the      *)
(* traffic sandbox that drives it.                                         *)
(*                                                                         *)
(* A WebSocket is an identifier whose readyState the browser changes.  The *)
(* hook keeps one of them in socketRef and a reconnect timer beside it;    *)
(* connect, disconnect, the timer, the visibility of the tab, the events   *)
(* of the socket and the mounting of the component all change both.  React *)
(* state is taken to change at once; the log of frames is left out, and so *)
(* are the texts of lastError.  The browser reports an error and the close *)
(* that follows in one task, so that they are one step here.               *)
(***************************************************************************)
EXTENDS Naturals, Sequences, FiniteSets, SequencesExt

CONSTANTS
  WebSockets,     \* identifiers, used again once a socket is closed
  GoodUrls, BadUrls,  \* new WebSocket throws on a bad URL
  SandboxRooms,
  Correlations,   \* correlationIds: `corr-${Date.now()}`, not always distinct
  MaxAttempts,    \* MAX_RECONNECT_ATTEMPTS
  MaxActivities,  \* MAX_ACTIVITIES_BUFFER
  MaxUnanswered,  \* bound on messages the server has not answered
  BurstBatches    \* batches of the load generator

DashboardConstants ==
  /\ WebSockets \subseteq Nat \ {0} /\ IsFiniteSet(WebSockets)
  /\ GoodUrls \cap BadUrls = {} /\ "none" \notin GoodUrls \cup BadUrls
  /\ MaxAttempts \in Nat /\ MaxActivities \in Nat \ {0}
  /\ MaxUnanswered \in Nat /\ BurstBatches \in Nat

ASSUME DashboardAssumption == DashboardConstants

VARIABLES
  ready,       \* readyState of each socket; "closed" sockets are free
  attached,    \* the sockets whose handlers are set
  ref,         \* socketRef.current, 0 for null
  status,
  shouldConnect, intentional, activeUrl,
  timer,       \* reconnectTimerRef is set
  attempts,
  subscribed,  \* subscribedRooms
  asked,       \* rooms asked for on each socket
  activities,
  wire,        \* messages sent on each socket that the server has not answered
  lost,        \* history: correlations whose message will not be answered
  burst,       \* batches the load generator has still to send
  mounted,
  stored       \* the URL under SANDBOX_SESSION_KEY

link == <<ready, attached, ref>>
policy == <<shouldConnect, intentional, activeUrl, timer, attempts>>
page == <<mounted, stored, burst>>
talk == <<activities, wire, lost>>
hookVars == <<link, status, policy, subscribed, asked, talk, page>>

Urls == GoodUrls \cup BadUrls
Status == {"disconnected", "connecting", "connected", "reconnecting", "error"}
Activity == [dir : {"sent", "received"}, corr : Correlations \cup {"none"},
             status : {"pending", "delivered", "failed"}]

Live(s) == ready[s] \in {"open", "connecting"}
RefOpen == ref # 0 /\ ready[ref] = "open"
RefLive == ref # 0 /\ Live(ref)
Engaged == status \in {"connected", "connecting", "reconnecting"}

HookInit ==
  /\ ready = [s \in WebSockets |-> "closed"]
  /\ attached = {} /\ ref = 0
  /\ status = "disconnected"
  /\ shouldConnect = FALSE /\ intentional = FALSE /\ activeUrl = "none"
  /\ timer = FALSE /\ attempts = 0
  /\ subscribed = {} /\ asked = [s \in WebSockets |-> {}]
  /\ activities = <<>> /\ wire = [s \in WebSockets |-> <<>>] /\ lost = {}
  /\ burst = 0 /\ mounted = TRUE /\ stored = "none"

-----------------------------------------------------------------------------
(***************************************************************************)
(* Opening and closing sockets                                             *)
(***************************************************************************)

\* Mutant: the handlers are removed but the socket is left open.
CleanedWithoutClose == ready

\* cleanupSocket: the socket of socketRef is closed if it is open or opening.
Cleaned ==
  [s \in WebSockets |-> IF s = ref /\ Live(s) THEN "closing" ELSE ready[s]]

\* What the loss of the current socket leaves unanswered.
Forget ==
  /\ wire' = [s \in WebSockets |-> IF s = ref THEN <<>> ELSE wire[s]]
  /\ lost' = IF ref = 0 THEN lost ELSE lost \cup ToSet(wire[ref])

CleanupSocket ==
  /\ ready' = Cleaned
  /\ attached' = attached \ {ref}
  /\ ref' = 0
  /\ Forget

\* Mutant: the counter of attempts is never advanced.
ScheduleForever(n) ==
  /\ status' = "reconnecting" /\ timer' = TRUE
  /\ shouldConnect' = TRUE /\ attempts' = n

\* scheduleReconnect after n attempts.
ScheduleAttempt(n) ==
  IF n >= MaxAttempts
    THEN /\ status' = "disconnected" /\ timer' = FALSE
         /\ shouldConnect' = FALSE /\ attempts' = n
    ELSE /\ status' = "reconnecting" /\ timer' = TRUE
         /\ shouldConnect' = TRUE /\ attempts' = n + 1

\* doConnect past its early return, with n attempts made so far.  A URL the
\* constructor refuses ends in the catch block.
OpenSocket(url, isReconnecting, n) ==
  IF url \in BadUrls
    THEN CleanupSocket /\ ScheduleAttempt(n) /\ UNCHANGED asked
    ELSE \E new \in WebSockets :
           /\ ready[new] = "closed"
           /\ \A s \in WebSockets : ready[s] = "closed" => new <= s
           /\ ready' = [Cleaned EXCEPT ![new] = "connecting"]
           /\ attached' = (attached \ {ref}) \cup {new}
           /\ ref' = new
           /\ asked' = [asked EXCEPT ![new] = {}]
           /\ Forget
           /\ status' = IF isReconnecting THEN "reconnecting" ELSE "connecting"
           /\ timer' = FALSE /\ attempts' = n /\ shouldConnect' = TRUE

\* connect.  doConnect keeps a socket that is open or opening: the URL it
\* compares with was set just before.
HookConnect(url) ==
  /\ intentional' = FALSE /\ activeUrl' = url
  /\ IF RefLive
       THEN /\ shouldConnect' = TRUE /\ timer' = FALSE /\ attempts' = 0
            /\ UNCHANGED <<link, status, asked, wire, lost>>
       ELSE OpenSocket(url, FALSE, 0)

\* handleConnectToggle, when the button says Connect.
ToggleConnect(url) ==
  /\ mounted /\ ~Engaged
  /\ HookConnect(url)
  /\ UNCHANGED <<subscribed, activities, page>>

\* handleConnectToggle, when it says Disconnect or Cancel: disconnect.
ToggleDisconnect ==
  /\ mounted /\ Engaged
  /\ stored' = "none"
  /\ shouldConnect' = FALSE /\ intentional' = TRUE
  /\ attempts' = 0 /\ timer' = FALSE
  /\ CleanupSocket
  /\ status' = "disconnected"
  /\ UNCHANGED <<activeUrl, subscribed, asked, activities, mounted, burst>>

\* The reconnect timer fires.
TimerFires ==
  /\ timer
  /\ IF shouldConnect /\ ~intentional /\ activeUrl # "none"
       THEN OpenSocket(activeUrl, TRUE, attempts)
       ELSE /\ timer' = FALSE
            /\ UNCHANGED <<link, status, shouldConnect, attempts, asked, wire, lost>>
  /\ UNCHANGED <<intentional, activeUrl, subscribed, activities, page>>

\* handleVisibilityChange, when the tab is shown again.
Visible ==
  /\ mounted
  /\ shouldConnect /\ ~intentional /\ ~RefLive /\ activeUrl # "none"
  /\ OpenSocket(activeUrl, TRUE, attempts)
  /\ UNCHANGED <<intentional, activeUrl, subscribed, activities, page>>

-----------------------------------------------------------------------------
(***************************************************************************)
(* Events of a socket                                                      *)
(***************************************************************************)

Heard(s) == s \in attached /\ ref = s

\* Mutant: the rooms are not asked for again.
OnOpenPlain(s) ==
  /\ status' = "connected" /\ attempts' = 0
  /\ UNCHANGED asked

\* onopen: every room is joined again.
OnOpen(s) ==
  /\ status' = "connected" /\ attempts' = 0
  /\ asked' = [asked EXCEPT ![s] = subscribed]

SocketOpens(s) ==
  /\ ready[s] = "connecting"
  /\ ready' = [ready EXCEPT ![s] = "open"]
  /\ IF Heard(s) THEN OnOpen(s) ELSE UNCHANGED <<status, attempts, asked>>
  /\ UNCHANGED <<attached, ref, shouldConnect, intentional, activeUrl, timer,
                 subscribed, talk, page>>

\* Mutant: only an established connection is taken up again.
OnCloseConnectedOnly(s) ==
  /\ ref' = 0
  /\ IF status = "connected" THEN ScheduleAttempt(attempts)
     ELSE UNCHANGED <<status, timer, shouldConnect, attempts>>

\* onclose (and onerror before it).
OnClose(s) ==
  /\ ref' = 0
  /\ IF intentional \/ ~shouldConnect
       THEN status' = "disconnected" /\ UNCHANGED <<timer, shouldConnect, attempts>>
       ELSE ScheduleAttempt(attempts)

\* The attempt is refused, or the network drops the socket at once.
SocketDrops(s) ==
  /\ Live(s)
  /\ ready' = [ready EXCEPT ![s] = "closed"]
  /\ IF Heard(s) THEN OnClose(s) /\ Forget
     ELSE UNCHANGED <<ref, status, timer, shouldConnect, attempts, wire, lost>>
  /\ UNCHANGED <<attached, intentional, activeUrl, subscribed, asked, activities, page>>

\* The server's Close frame has come: the browser answers it, and no other frame
\* can come.  The hook hears nothing of it yet: it holds the socket, sendRaw
\* refuses to send, and the sandbox still shows the connection.
ServerCloses(s) ==
  /\ ready[s] = "open"
  /\ ready' = [ready EXCEPT ![s] = "closing"]
  /\ IF ref = s THEN Forget ELSE UNCHANGED <<wire, lost>>
  /\ UNCHANGED <<attached, ref, status, policy, subscribed, asked, activities, page>>

\* A close, of the hook or of the server, is complete; only a socket that the
\* hook still holds and listens to has its onclose called.
CloseCompletes(s) ==
  /\ ready[s] = "closing"
  /\ ready' = [ready EXCEPT ![s] = "closed"]
  /\ IF Heard(s) THEN OnClose(s)
     ELSE UNCHANGED <<ref, status, timer, shouldConnect, attempts>>
  /\ UNCHANGED <<attached, intentional, activeUrl, subscribed, asked, talk, page>>

-----------------------------------------------------------------------------
(***************************************************************************)
(* Rooms, messages and the load generator                                  *)
(***************************************************************************)

Subscribe(r) ==
  /\ mounted /\ status = "connected" /\ RefOpen /\ r \notin subscribed
  /\ subscribed' = subscribed \cup {r}
  /\ asked' = [asked EXCEPT ![ref] = @ \cup {r}]
  /\ UNCHANGED <<link, status, policy, talk, page>>

Unsubscribe(r) ==
  /\ mounted /\ status = "connected" /\ RefOpen /\ r \in subscribed
  /\ subscribed' = subscribed \ {r}
  /\ asked' = [asked EXCEPT ![ref] = @ \ {r}]
  /\ UNCHANGED <<link, status, policy, talk, page>>

\* setActivities keeps the newest MaxActivities entries.
Newest(seq) ==
  IF Len(seq) > MaxActivities
    THEN SubSeq(seq, Len(seq) - MaxActivities + 1, Len(seq)) ELSE seq

\* handleBroadcast and sendRaw of a message.
BroadcastMessage(k) ==
  /\ mounted /\ status = "connected" /\ RefOpen
  /\ Len(wire[ref]) < MaxUnanswered
  /\ wire' = [wire EXCEPT ![ref] = Append(@, k)]
  /\ activities' = Newest(Append(activities,
                     [dir |-> "sent", corr |-> k, status |-> "pending"]))
  /\ UNCHANGED <<link, status, policy, subscribed, asked, lost, page>>

\* Mutant: only the newest entry is looked at.
SettledNewest(k, verdict) ==
  [i \in DOMAIN activities |->
     IF i = Len(activities) /\ activities[i].corr = k
       THEN [activities[i] EXCEPT !.status = verdict] ELSE activities[i]]

\* DELIVERY_ACK and SYS_ERROR settle the pending entries with their
\* correlation.
Settled(k, verdict) ==
  [i \in DOMAIN activities |->
     IF /\ activities[i].dir = "sent" /\ activities[i].status = "pending"
        /\ activities[i].corr = k
       THEN [activities[i] EXCEPT !.status = verdict] ELSE activities[i]]

\* The server answers the oldest message: it accepts it, rejects it, or (rate
\* limit, malformed frame) answers with an error that names no correlation.
ServerAnswers(s) ==
  /\ ready[s] = "open" /\ wire[s] # <<>>
  /\ wire' = [wire EXCEPT ![s] = Tail(@)]
  /\ \/ /\ Heard(s)
        /\ \E v \in {"delivered", "failed"} : activities' = Settled(Head(wire[s]), v)
        /\ UNCHANGED lost
     \/ lost' = lost \cup {Head(wire[s])} /\ UNCHANGED activities
  /\ UNCHANGED <<link, status, policy, subscribed, asked, page>>

\* ROOM_MESSAGE of another member.
Receive(s) ==
  /\ ready[s] = "open" /\ Heard(s)
  /\ activities' = Newest(Append(activities,
                     [dir |-> "received", corr |-> "none", status |-> "delivered"]))
  /\ UNCHANGED <<link, status, policy, subscribed, asked, wire, lost, page>>

ClearActivities ==
  /\ mounted /\ activities # <<>>
  /\ activities' = <<>>
  /\ UNCHANGED <<link, status, policy, subscribed, asked, wire, lost, page>>

\* triggerBurstLoad; the button is disabled while a burst runs.
TriggerBurst ==
  /\ mounted /\ status = "connected" /\ burst = 0 /\ RefOpen
  /\ burst' = BurstBatches
  /\ UNCHANGED <<link, status, policy, subscribed, asked, talk, mounted, stored>>

\* sendBatch: one batch on whatever socket is current, or the end.
SendBatch ==
  /\ burst > 0
  /\ burst' = IF RefOpen THEN burst - 1 ELSE 0
  /\ UNCHANGED <<link, status, policy, subscribed, asked, talk, mounted, stored>>

-----------------------------------------------------------------------------
(***************************************************************************)
(* Leaving the tab of the dashboard and coming back                        *)
(***************************************************************************)

\* The component is unmounted: the hook cleans up and the sandbox stores its
\* session.  The state of the hook is gone with it.
Unmount ==
  /\ mounted
  /\ mounted' = FALSE
  /\ stored' = IF Engaged /\ activeUrl # "none" THEN activeUrl ELSE stored
  /\ CleanupSocket
  /\ status' = "disconnected" /\ timer' = FALSE /\ attempts' = 0
  /\ shouldConnect' = FALSE /\ intentional' = FALSE /\ activeUrl' = "none"
  /\ subscribed' = {} /\ activities' = <<>> /\ burst' = 0
  /\ UNCHANGED asked

\* It is mounted again and resumes a stored session.
Mount ==
  /\ ~mounted
  /\ mounted' = TRUE
  /\ IF stored = "none"
       THEN UNCHANGED <<link, status, policy, asked, wire, lost>>
       ELSE HookConnect(stored)
  /\ UNCHANGED <<subscribed, activities, burst, stored>>

HookNext ==
  \/ \E u \in Urls : ToggleConnect(u)
  \/ ToggleDisconnect
  \/ TimerFires
  \/ Visible
  \/ \E s \in WebSockets :
       \/ SocketOpens(s) \/ SocketDrops(s) \/ ServerCloses(s) \/ CloseCompletes(s)
       \/ ServerAnswers(s) \/ Receive(s)
  \/ \E r \in SandboxRooms : Subscribe(r) \/ Unsubscribe(r)
  \/ \E k \in Correlations : BroadcastMessage(k)
  \/ ClearActivities
  \/ TriggerBurst
  \/ SendBatch
  \/ Unmount
  \/ Mount

\* Timers fire, and the browser settles every socket: a connection attempt
\* succeeds or fails, and a close completes.
Fairness ==
  /\ WF_hookVars(TimerFires)
  /\ \A s \in WebSockets :
       /\ WF_hookVars(ready[s] = "connecting" /\ (SocketOpens(s) \/ SocketDrops(s)))
       /\ WF_hookVars(CloseCompletes(s))

HookSpec == HookInit /\ [][HookNext]_hookVars /\ Fairness

-----------------------------------------------------------------------------
(***************************************************************************)
(* Properties                                                              *)
(***************************************************************************)

\* The state of the hook and of the browser's sockets has its type.
HookTypeOK ==
  /\ ready \in [WebSockets -> {"closed", "connecting", "open", "closing"}]
  /\ attached \subseteq WebSockets /\ ref \in WebSockets \cup {0}
  /\ status \in Status
  /\ shouldConnect \in BOOLEAN /\ intentional \in BOOLEAN
  /\ activeUrl \in Urls \cup {"none"}
  /\ timer \in BOOLEAN /\ attempts \in 0..MaxAttempts
  /\ subscribed \subseteq SandboxRooms /\ asked \in [WebSockets -> SUBSET SandboxRooms]
  /\ activities \in Seq(Activity) /\ Len(activities) <= MaxActivities
  /\ wire \in [WebSockets -> Seq(Correlations)] /\ lost \subseteq Correlations
  /\ burst \in 0..BurstBatches /\ mounted \in BOOLEAN
  /\ stored \in Urls \cup {"none"}

\* No socket is left behind: whichever of connect, timer, tab switch and
\* visibility change replaced it, a socket that is open or opening is the one
\* the hook holds, and only while the sandbox is mounted and wants it.
NoOrphanSocket ==
  \A s \in WebSockets : Live(s) => ref = s /\ mounted /\ shouldConnect /\ ~intentional

\* The sandbox is never stuck: while it shows that it is connecting or
\* reconnecting, an attempt is under way or a timer will start one; an open socket
\* is shown as connected; and what it shows as connected is open, or the server is
\* closing it and onclose, which the hook listens to, is still to come.
NeverStuck ==
  /\ status \in {"connecting", "reconnecting", "error"} => timer \/ RefLive
  /\ RefOpen => status = "connected"
  /\ status = "connected" =>
       /\ ref # 0 /\ ref \in attached
       /\ ready[ref] \in {"open", "closing"}

\* After any number of drops and reconnects the rooms asked for on the open
\* socket are the subscribed ones.
RoomsRestored == RefOpen => asked[ref] = subscribed

\* A message shown as pending is still on the wire of the open socket, or its
\* answer cannot come any more: no answer that came was missed.
NoMissedAck ==
  \A i \in DOMAIN activities :
    activities[i].status = "pending" =>
      \/ activities[i].corr \in lost
      \/ RefOpen /\ activities[i].corr \in ToSet(wire[ref])

\* An attempt to connect ends: the sandbox is connected, or gives up after
\* MAX_RECONNECT_ATTEMPTS, whatever the user and the tab do meanwhile.
AttemptsEnd ==
  status \in {"connecting", "reconnecting"} ~> status \in {"connected", "disconnected"}

=============================================================================

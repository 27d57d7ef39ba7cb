-------------------------------- MODULE Ingress --------------------------------
(***************************************************************************)
(* The way of a message into the fleet: the upgrade request of its sender, *)
(* checked by the upgrade handler; the frame, checked and normalised by    *)
(* dispatchRawMessage; the event that the node publishes; and what another *)
(* node makes of it.                                                       *)
(***************************************************************************)
EXTENDS EventValidator, Handshake

CONSTANTS
  Upgrades,  \* records of a request, the configured allowedOrigins and the time
  Frames     \* frames that clients send

VARIABLES
  at,        \* how far the message got
  upgrade,   \* the upgrade request that is being answered, or None
  envelope,  \* the event as its node accepted it, or None
  wire,      \* what is published, or None
  received   \* the other node's verdict, or None

ingressVars == <<at, upgrade, envelope, wire, received>>

None == [none |-> TRUE]

IngressInit ==
  /\ at = "start"
  /\ upgrade = None /\ envelope = None /\ wire = None /\ received = None

\* The upgrade handler: origin, then token.
Upgrade ==
  /\ at = "start"
  /\ upgrade' \in Upgrades
  /\ at' = IF Admits(upgrade'.request, upgrade'.allowedOrigins, upgrade'.now)
             THEN "admitted" ELSE "refused"
  /\ UNCHANGED <<envelope, wire, received>>

\* handleAuthenticatedConnection: the request is done with.
Connected ==
  /\ at = "admitted"
  /\ at' = "open" /\ upgrade' = None
  /\ UNCHANGED <<envelope, wire, received>>

\* dispatchRawMessage, for user x: an invalid frame is answered with SYS_ERROR.
Dispatch ==
  /\ at = "open"
  /\ \E o \in Frames :
       LET v == validateIncoming(o, "x")
       IN /\ at' = IF v.valid THEN "accepted" ELSE "open"
          /\ envelope' = IF v.valid THEN v.envelope ELSE None
  /\ UNCHANGED <<upgrade, wire, received>>

\* The end of handleRoomMessage and handleDirectMessage, on node y.  Other events
\* are not published.
Distribute ==
  /\ at = "accepted"
  /\ envelope.type \in {"ROOM_MESSAGE", "DIRECT_MESSAGE"}
  /\ wire' = Wire(stampForDistribution(envelope, "y", "1"))
  /\ at' = "published"
  /\ UNCHANGED <<upgrade, envelope, received>>

\* The start of handleInboundRedisEvent on another node.
Receive ==
  /\ at = "published"
  /\ received' = validateDistributed(wire)
  /\ at' = "received"
  /\ UNCHANGED <<upgrade, envelope, wire>>

IngressNext == Upgrade \/ Connected \/ Dispatch \/ Distribute \/ Receive

-----------------------------------------------------------------------------
(***************************************************************************)
(* Properties                                                              *)
(***************************************************************************)

\* What an origin means, whichever way it is written: scheme, host and the port
\* in use.
Meaning(o) ==
  <<o.scheme, o.host, IF o.port = "" THEN DefaultPort(o.scheme) ELSE o.port>>

\* The entry a of allowedOrigins names the origin h, or is a pattern for every
\* host below its domain, on any port; a pattern with a port of its own names
\* itself only.
Names(a, h) ==
  \/ Meaning(a) = Meaning(h)
  \/ /\ a.host # <<>> /\ Head(a.host) = "*"
     /\ a.scheme = h.scheme
     /\ Meaning(a)[3] = DefaultPort(a.scheme)
     /\ \E n \in 1..Len(h.host) : SubSeq(h.host, n + 1, Len(h.host)) = Tail(a.host)

\* The token t decides: it is the one in the first of the three places that a
\* request uses, whatever is in the others.  A Bearer header is used also when
\* nothing follows the word.
Decides(q, t) ==
  \/ t = q.query /\ t # NoToken
  \/ t = q.authorization /\ q.bearer /\ q.query = NoToken
  \/ t = q.protocol /\ ~q.bearer /\ q.query = NoToken

\* The verdict of the upgrade handler, stated without normalisation and without
\* the order of the checks: a request is admitted iff its origin is absent or
\* named by the list, whatever the spelling of either, and the token that decides
\* is one that this server signed for a user and whose lifetime is not over, its
\* last millisecond included.  An expired token in the query is thus refused with
\* a valid one behind it, and an empty list names no origin.
HandshakeSound ==
  at \in {"admitted", "refused"} =>
    LET q == upgrade.request
        l == upgrade.allowedOrigins
        originNamed == AnyOrigin \in l \/ ~q.given \/ \E a \in l : Names(a, q.origin)
        genuine(t) == t.parts = 2 /\ t.signed /\ t.decodes /\ t.userId # ""
    IN at = "admitted" <=>
         /\ originNamed
         /\ \E t \in {q.query, q.authorization, q.protocol} :
              Decides(q, t) /\ genuine(t) /\ upgrade.now <= t.exp

\* A message keeps its meaning between the nodes: whatever spelling of room,
\* recipient, id or time a client chose, the event that its node publishes passes
\* the validator of every other node and comes out as it was accepted, with y
\* as its origin and without the connection's seq.  Only a time that JSON
\* cannot carry is replaced.
RelayFaithful ==
  at = "received" =>
    /\ received.valid
    /\ received.envelope =
         [envelope EXCEPT !.originInstanceId = "y", !.originTimestampMs = "1",
                          !.seq = Undefined,
                          !.timestamp = IF @ = "1e999" THEN "now" ELSE @]
=============================================================================

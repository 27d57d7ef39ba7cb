---------------------------- MODULE EventValidator ----------------------------
(***************************************************************************)
(* EventValidator: what is made of a frame from a client                   *)
(* (validateIncoming), how an accepted event is prepared for Redis         *)
(* (stampForDistribution) and what the other nodes make of it              *)
(* (validateDistributed).                                                  *)
(*                                                                         *)
(* A frame is a record of the JSON values that the code looks at.  A text  *)
(* is a member of Text, Undefined stands for a field that is absent, Other *)
(* for a value of a type that the code does not expect.  Numbers are       *)
(* numerals, since JSON's 1e999 is the number Infinity.  A payload that is *)
(* no object is a record of absent fields, rooms that are no array are     *)
(* the empty sequence.                                                     *)
(***************************************************************************)
EXTENDS Naturals, Sequences, FiniteSets

CONSTANT MaxBatchRooms   \* MAX_BATCH_ROOMS

ASSUME ValidatorAssumption == MaxBatchRooms \in Nat \ {0}

Undefined == "undefined"
Other == "other"

\* String.prototype.trim on the texts that the model tells apart.
Trim == [s \in {"", " ", "x", " x ", "y", "generated"} |->
           CASE s = " " -> "" [] s = " x " -> "x" [] OTHER -> s]
Text == DOMAIN Trim

TextOr(v, default) == IF v \in Text THEN v ELSE default
TrimOr(v, default) == IF v \in Text THEN Trim[v] ELSE default

\* In a condition, "" and undefined are both false.
Truthy(v) == v \notin {"", Undefined}

VALID_EVENT_TYPES ==
  {"SYS_CONNECT_ACK", "SYS_PING", "SYS_PONG", "SYS_ERROR", "SYS_SHUTDOWN",
   "ROOM_JOIN", "ROOM_JOIN_ACK", "ROOM_LEAVE", "ROOM_LEAVE_ACK",
   "ROOM_BATCH_JOIN", "ROOM_BATCH_JOIN_ACK", "ROOM_MESSAGE", "DIRECT_MESSAGE",
   "PRESENCE_UPDATE", "ROOM_ROSTER", "DELIVERY_ACK"}

-----------------------------------------------------------------------------
(***************************************************************************)
(* validateIncoming                                                        *)
(***************************************************************************)

\* Mutant: the payload's field is taken as it is.
AddresseeUntrimmed(o, field) ==
  LET named == TrimOr(o.target[field], Undefined)
  IN IF Truthy(named) THEN named ELSE TextOr(o.payload[field], named)

\* target.roomId or target.recipientId, trimmed; when that is missing or blank,
\* the payload's field of the same name.
Addressee(o, field) ==
  LET named == TrimOr(o.target[field], Undefined)
  IN IF Truthy(named) THEN named ELSE TrimOr(o.payload[field], named)

\* The checks, in the order in which they are made.
Checks == <<"MALFORMED_JSON", "INVALID_ENVELOPE", "MISSING_EVENT_TYPE",
            "UNRECOGNIZED_EVENT_TYPE", "INVALID_SEQUENCE_NUMBER", "MISSING_ROOM_ID",
            "INVALID_ROOMS_ARRAY", "BATCH_SIZE_EXCEEDED", "INVALID_ROOM_ID",
            "EMPTY_PAYLOAD", "MISSING_RECIPIENT_ID", "INVALID_ORIGIN_INSTANCE_ID",
            "INVALID_ORIGIN_TIMESTAMP">>

Fails(o, check) ==
  CASE check = "MALFORMED_JSON" -> o.text = "garbage"
    [] check = "INVALID_ENVELOPE" -> o.text = "array"
    [] check = "MISSING_EVENT_TYPE" -> o.type \in {Undefined, Other, ""}
    [] check = "UNRECOGNIZED_EVENT_TYPE" -> o.type \notin VALID_EVENT_TYPES
    [] check = "INVALID_SEQUENCE_NUMBER" -> o.seq \notin {Undefined, "1", "2"}
    [] check = "MISSING_ROOM_ID" ->
         /\ o.type \in {"ROOM_JOIN", "ROOM_LEAVE", "ROOM_MESSAGE"}
         /\ ~Truthy(Addressee(o, "roomId"))
    [] check = "INVALID_ROOMS_ARRAY" ->
         o.type = "ROOM_BATCH_JOIN" /\ o.payload.rooms = <<>>
    [] check = "BATCH_SIZE_EXCEEDED" ->
         o.type = "ROOM_BATCH_JOIN" /\ Len(o.payload.rooms) > MaxBatchRooms
    [] check = "INVALID_ROOM_ID" ->
         /\ o.type = "ROOM_BATCH_JOIN"
         /\ \E i \in DOMAIN o.payload.rooms : ~Truthy(TrimOr(o.payload.rooms[i], ""))
    [] check = "EMPTY_PAYLOAD" ->
         /\ o.type = "ROOM_MESSAGE" /\ o.payload.rooms = <<>>
         /\ \A k \in DOMAIN o.payload \ {"rooms"} : o.payload[k] = Undefined
    [] check = "MISSING_RECIPIENT_ID" ->
         o.type = "DIRECT_MESSAGE" /\ ~Truthy(Addressee(o, "recipientId"))
    [] check = "INVALID_ORIGIN_INSTANCE_ID" ->
         o.originInstanceId # Undefined /\ ~Truthy(TrimOr(o.originInstanceId, ""))
    [] check = "INVALID_ORIGIN_TIMESTAMP" ->
         o.originTimestampMs \in {Other, "1e999"}

\* The envelope of an accepted frame.  A missing id or time is made up here.
EnvelopeOf(o, senderId) ==
  [eventId |-> IF Truthy(TextOr(o.eventId, "")) THEN o.eventId ELSE "generated",
   type |-> o.type,
   timestamp |-> IF o.timestamp \in {"1", "1e999", "now"} THEN o.timestamp ELSE "now",
   senderId |-> senderId,
   seq |-> o.seq,
   target |-> [f \in {"roomId", "recipientId"} |-> Addressee(o, f)],
   payload |-> o.payload,
   correlationId |-> TextOr(o.correlationId, Undefined),
   ackRequired |-> o.ackRequired,
   originInstanceId |-> TrimOr(o.originInstanceId, Undefined),
   originTimestampMs |-> o.originTimestampMs]

\* The first check that fails decides; an error quotes the correlationId once
\* the frame is known to be an object.
validateIncoming(o, senderId) ==
  LET passes(n) == \A i \in 1..n : ~Fails(o, Checks[i])
      first == CHOOSE i \in DOMAIN Checks : passes(i - 1) /\ Fails(o, Checks[i])
  IN IF passes(Len(Checks))
       THEN [valid |-> TRUE, envelope |-> EnvelopeOf(o, senderId)]
       ELSE [valid |-> FALSE, code |-> Checks[first],
             correlationId |-> IF first <= 2 THEN Undefined
                                             ELSE TextOr(o.correlationId, Undefined)]

-----------------------------------------------------------------------------
(***************************************************************************)
(* Between the nodes                                                       *)
(***************************************************************************)

stampForDistribution(envelope, instanceId, ms) ==
  [envelope EXCEPT !.originInstanceId = instanceId, !.originTimestampMs = ms,
                   !.seq = Undefined]

\* JSON.stringify and JSON.parse: Infinity becomes null.
Wire(envelope) ==
  [f \in DOMAIN envelope \cup {"text"} |->
     CASE f = "text" -> "object"
       [] f = "timestamp" -> IF envelope[f] = "1e999" THEN Other ELSE envelope[f]
       [] OTHER -> envelope[f]]

\* The origin is required, seq is dropped, all else is validateIncoming.
validateDistributed(o) ==
  LET base == validateIncoming(o, IF Truthy(o.senderId) THEN o.senderId ELSE "unknown")
  IN CASE o.text # "object" ->
            [valid |-> FALSE, code |-> "INVALID_DISTRIBUTED_ENVELOPE",
             correlationId |-> Undefined]
       [] o.text = "object" /\ ~Truthy(TrimOr(o.originInstanceId, "")) ->
            [valid |-> FALSE, code |-> "MISSING_ORIGIN_INSTANCE_ID",
             correlationId |-> TextOr(o.correlationId, Undefined)]
       [] OTHER ->
            IF base.valid
              THEN [base EXCEPT !.envelope.originInstanceId = Trim[o.originInstanceId],
                                !.envelope.seq = Undefined]
              ELSE base
=============================================================================

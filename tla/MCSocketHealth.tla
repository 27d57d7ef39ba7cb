---------------------------- MODULE MCSocketHealth ----------------------------
(***************************************************************************)
(* Instances for one connection, one message on its way into the fleet,    *)
(* and the id generator.                                                   *)
(***************************************************************************)
EXTENDS SocketHealth, Ingress, Uuidv7

Message ==
  [text |-> "object", type |-> "ROOM_MESSAGE", eventId |-> "x", timestamp |-> "1",
   seq |-> Undefined, target |-> [roomId |-> Undefined, recipientId |-> Undefined],
   payload |-> [roomId |-> Undefined, recipientId |-> Undefined, content |-> "y",
                rooms |-> <<>>],
   correlationId |-> "x", ackRequired |-> FALSE,
   originInstanceId |-> Undefined, originTimestampMs |-> Undefined]

\* Messages in every spelling of their addressee, id, time and origin.
Messages ==
  {[Message EXCEPT !.type = t, !.eventId = id, !.timestamp = ms, !.seq = n,
                   !.target.roomId = r1, !.payload.roomId = r2,
                   !.target.recipientId = u1, !.payload.recipientId = u2,
                   !.payload.content = c, !.originInstanceId = o] :
     t \in {"ROOM_MESSAGE", "DIRECT_MESSAGE"}, id \in {Undefined, "", " "},
     ms \in {Other, "1", "1e999"}, n \in {Undefined, "1", "0"},
     r1 \in {Other, " ", " x "}, r2 \in {Undefined, " x ", ""},
     u1 \in {Undefined, " x "}, u2 \in {Undefined, " x "},
     c \in {Undefined, "y"}, o \in {Undefined, " x ", " "}}

\* Frames of the other types, and frames that are refused.
OtherFrames ==
  {[Message EXCEPT !.type = t] : t \in VALID_EVENT_TYPES \cup {Undefined, "HELLO"}}
  \cup {[Message EXCEPT !.type = "ROOM_BATCH_JOIN", !.payload.rooms = rooms] :
          rooms \in {<<"x">>, <<"x", " ">>, <<"x", "y", "x">>}}
  \cup {[Message EXCEPT !.text = "garbage"], [Message EXCEPT !.text = "array"],
        [Message EXCEPT !.originTimestampMs = "1e999"]}

MCFrames == Messages \cup OtherFrames

Site(scheme, host, port, spelling) ==
  [scheme |-> scheme, host |-> host, port |-> port, spelling |-> spelling]

Sites ==
  {Site(s, h, p, w) : s \in {"http", "https"}, p \in {"", "80", "443"}, w \in {"plain", "shouted"},
                      h \in {<<"d">>, <<"a", "d">>, <<"*", "d">>}}
Home == Site("https", <<"d">>, "", "plain")
Lists ==
  {{}, {AnyOrigin}} \cup {{a} : a \in Sites} \cup {{Home, b} : b \in Sites}

\* A request from a site, or without an Origin header, that carries one token.
Carrying(token, place, site) ==
  [given |-> site # AnyOrigin, origin |-> site,
   query |-> IF place = "query" THEN token ELSE NoToken,
   bearer |-> place = "bearer",
   authorization |-> IF place = "bearer" THEN token ELSE NoToken,
   protocol |-> IF place = "protocol" THEN token ELSE NoToken]

Good == generateToken("u", 1, 1)
Tokens ==
  {generateToken("u", iat, ttl) : iat \in 0..2, ttl \in 0..2}
  \cup {NoToken, generateToken("", 1, 1), [Good EXCEPT !.signed = FALSE],
        [Good EXCEPT !.parts = 3], [Good EXCEPT !.decodes = FALSE]}

\* Up to three tokens in one request: none, valid, expired or forged in each place.
Several ==
  {[given |-> TRUE, origin |-> Home, query |-> t1, bearer |-> b, authorization |-> t2,
    protocol |-> t3] :
     t1, t2, t3 \in {NoToken, Good, generateToken("u", 0, 1), [Good EXCEPT !.signed = FALSE]},
     b \in BOOLEAN}

\* Every origin against every list, every token in every place at every time, and
\* every combination of tokens.
MCUpgrades ==
  {[request |-> Carrying(Good, "bearer", h), allowedOrigins |-> l, now |-> 2] :
     h \in Sites \cup {AnyOrigin}, l \in Lists}
  \cup {[request |-> Carrying(t, place, Home), allowedOrigins |-> {Home}, now |-> ms] :
          t \in Tokens, place \in {"query", "bearer", "protocol"}, ms \in 0..5}
  \cup {[request |-> q, allowedOrigins |-> {Home}, now |-> 2] :
          q \in {q \in Several : ~q.bearer => q.authorization = NoToken}}

MCClock == 0..3
=============================================================================

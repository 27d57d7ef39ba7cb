------------------------------- MODULE Handshake -------------------------------
(***************************************************************************)
(* What an upgrade request must pass: OriginMatcher on its Origin header   *)
(* and Authenticator on its token.                                         *)
(*                                                                         *)
(* An origin is a record of scheme, host and port, the host a sequence of  *)
(* labels; `spelling` stands for the letter case and the slashes at the    *)
(* end.  A token is a record of what verifyToken finds in it.              *)
(***************************************************************************)
EXTENDS Integers, Sequences

-----------------------------------------------------------------------------
(***************************************************************************)
(* OriginMatcher                                                           *)
(***************************************************************************)

\* The entry `*`.
AnyOrigin == [scheme |-> "*", host |-> <<>>, port |-> "", spelling |-> "plain"]

DefaultPort(scheme) ==
  CASE scheme = "http" -> "80" [] scheme = "https" -> "443" [] OTHER -> ""

normalizeOrigin(o) ==
  [o EXCEPT !.spelling = "plain",
            !.port = IF @ = DefaultPort(o.scheme) THEN "" ELSE @]

EndsWith(host, domain) ==
  /\ Len(host) > Len(domain)
  /\ SubSeq(host, Len(host) - Len(domain) + 1, Len(host)) = domain

\* Exact, or by a pattern such as https://*.example.com.  The header's port is
\* cut off before the comparison and the pattern's is not, so a pattern with a
\* port matches nothing but itself.
OriginMatches(header, allowed) ==
  \/ header = allowed
  \/ /\ allowed.host # <<>> /\ Head(allowed.host) = "*"
     /\ header.scheme = allowed.scheme /\ allowed.port = ""
     /\ EndsWith(header.host, Tail(allowed.host))

\* `given` is false for a client that sends no Origin.
isAllowed(given, header, allowedOrigins) ==
  \/ AnyOrigin \in allowedOrigins
  \/ ~given
  \/ \E a \in allowedOrigins : OriginMatches(normalizeOrigin(header), normalizeOrigin(a))

-----------------------------------------------------------------------------
(***************************************************************************)
(* Authenticator                                                           *)
(***************************************************************************)

NoToken == [parts |-> 0, signed |-> FALSE, decodes |-> FALSE, userId |-> "", exp |-> 0]

generateToken(userId, iat, expiresInMs) ==
  [parts |-> 2, signed |-> TRUE, decodes |-> TRUE, userId |-> userId,
   exp |-> iat + expiresInMs]

\* Mutant: the Authorization header is looked at first.
extractTokenHeaderFirst(req) ==
  CASE req.bearer -> req.authorization
    [] ~req.bearer /\ req.query # NoToken -> req.query
    [] OTHER -> req.protocol

\* Query parameter, Authorization header, Sec-WebSocket-Protocol.  An empty query
\* parameter is passed over; a Bearer header decides even when it is empty.
extractToken(req) ==
  CASE req.query # NoToken -> req.query
    [] req.query = NoToken /\ req.bearer -> req.authorization
    [] OTHER -> req.protocol

verifyToken(token, now) ==
  /\ token.parts = 2       \* also: not missing
  /\ token.signed
  /\ token.decodes         \* base64url and JSON
  /\ token.userId # ""
  /\ ~(now > token.exp)

authenticateRequest(req, now) == verifyToken(extractToken(req), now)

\* The upgrade handler's verdict.
Admits(req, allowedOrigins, now) ==
  /\ isAllowed(req.given, req.origin, allowedOrigins)
  /\ authenticateRequest(req, now)
=============================================================================

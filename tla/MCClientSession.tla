--------------------------- MODULE MCClientSession ---------------------------
(***************************************************************************)
(* One room, one or two nodes behind the server URL, and applications that *)
(* use the room, call disconnect() at any point of that, or connect anew.  *)
(***************************************************************************)
EXTENDS ClientSession

MCRooms == {"r1"}
OneNode == {"n1"}
TwoNodes == {"n1", "n2"}

Script(calls) == [i \in DOMAIN calls |-> <<calls[i], "r1">>]
Chat == {Script(<<"connect", "join", "message">>)}
Uses == {Script(<<"connect", "join", "message">>),
         Script(<<"connect", "join", "disconnect", "connect">>),
         Script(<<"join", "connect", "unacked">>),
         Script(<<"connect", "leave">>)}
=============================================================================

------------------------ MODULE MCChannelSubscriptions ------------------------
(***************************************************************************)
(* Two channels and two connections that may hold each of them.            *)
(***************************************************************************)
EXTENDS ChannelSubscriptions

MCChannels == {"room1", "user1"}
MCConns == {"c1", "c2"}
=============================================================================

-------------------------- MODULE MCServerLifecycle --------------------------
(***************************************************************************)
(* Two sockets compete for one slot while the server starts, loses Redis,  *)
(* drains and stops.                                                       *)
(***************************************************************************)
EXTENDS ServerLifecycle

CONSTANTS s1, s2

MCSockets == {s1, s2}
MCConfigurations == [gateway : BOOLEAN, redis : BOOLEAN]
=============================================================================

------------------------------ MODULE MCPresence ------------------------------
(***************************************************************************)
(* A user with a connection on each of two nodes.                          *)
(***************************************************************************)
EXTENDS Presence

MCNodes == {"n1", "n2"}
MCUsers == {"ann"}
MCConns == {"c1", "c2"}
MCNodeOf == [c \in MCConns |-> IF c = "c1" THEN "n1" ELSE "n2"]
MCUserOf == [c \in MCConns |-> "ann"]
=============================================================================

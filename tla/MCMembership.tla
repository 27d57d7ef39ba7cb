---------------------------- MODULE MCMembership ----------------------------
(***************************************************************************)
(* A node with two sockets of one user (two devices), three rooms and one  *)
(* room id that fails the checks.                                          *)
(***************************************************************************)
EXTENDS Membership

MCConns == {"c1", "c2"}
MCUsers == {"ann", "bob"}
MCUserOf == [c \in MCConns |-> "ann"]
MCRooms == {"r1", "r2", "r3"}
MCBadRooms == {"bad"}
MCBatches == {<<"r1", "bad", "r2">>, <<"r2", "r2">>}
=============================================================================

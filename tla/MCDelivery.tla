------------------------------ MODULE MCDelivery ------------------------------
(***************************************************************************)
(* Ann has a socket on each of two nodes, bob one on the second.  Ann      *)
(* sends one message to a room and one to bob.                             *)
(***************************************************************************)
EXTENDS Delivery

MCNodes == {"n1", "n2"}
MCConns == {"a1", "a2", "b2"}
MCUsers == {"bob", "ann"}
MCRooms == {"room"}
MCMembers == [r \in MCRooms |-> {"a1", "b2"}]
MCEvents == {"m", "d"}
MCNodeOf == [c \in MCConns |-> IF c = "a1" THEN "n1" ELSE "n2"]
MCUserOf == [c \in MCConns |-> IF c = "b2" THEN "bob" ELSE "ann"]
MCMaxInFlight == [n \in MCNodes |-> IF n = "n1" THEN 2 ELSE 1]
MCSenderOf == [e \in MCEvents |-> "ann"]
MCChannelOf == [e \in MCEvents |-> IF e = "m" THEN "room" ELSE "bob"]
=============================================================================

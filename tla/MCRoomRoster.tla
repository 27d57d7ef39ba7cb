----------------------------- MODULE MCRoomRoster -----------------------------
(***************************************************************************)
(* A user with two connections on one node and a third on another, where a *)
(* second user listens; one room, which a batch may name twice.            *)
(***************************************************************************)
EXTENDS RoomRoster, TLC

CONSTANTS a1, a2, a3, b3, n1, n2, r1

MCNodes == {n1, n2}
MCUsers == {"ann", "bob"}
MCConns == {a1, a2, a3, b3}
MCRooms == {r1}
MCNodeOf == [c \in MCConns |-> IF c \in {a1, a2} THEN n1 ELSE n2]
MCUserOf == [c \in MCConns |-> IF c = b3 THEN "bob" ELSE "ann"]
MCEstablished == {a1, a2, b3}
MCBatches == {<<r1, r1>>}
MCSymmetry == Permutations({a1, a2})
=============================================================================

---------------------------- MODULE MCIdempotency ----------------------------
(***************************************************************************)
(* Three events on a cache for two, and payloads with and without a nested *)
(* object.                                                                 *)
(***************************************************************************)
EXTENDS Idempotency

MCEventIds == {"e1", "e2", "e3"}

Flat(v) == (<<"text">> :> v)
Nested(v) == Flat("a") @@ (<<"meta", "k">> :> v)

MCPayloads == {Flat("a"), Flat("b"), Nested("x"), Nested("y")}
=============================================================================

---------------------------- MODULE EffectivelyOnce ----------------------------
(***************************************************************************)
(* What Pulse promises about a message: a connection receives only events  *)
(* that some node accepted, and each of them at most once, however often   *)
(* the sender repeats it and whichever nodes it repeats it to.             *)
(***************************************************************************)
EXTENDS Sequences

CONSTANTS Events, Conns

VARIABLES
  accepted,   \* events some node has executed
  received    \* what each connection was sent, in order

vars == <<accepted, received>>

Has(c, e) == \E i \in DOMAIN received[c] : received[c][i] = e

Init == accepted = {} /\ received = [c \in Conns |-> <<>>]

\* Send e to a set of connections none of which has it.
DeliverTo(e, cs) ==
  /\ \A c \in cs : ~Has(c, e)
  /\ received' = [c \in Conns |-> IF c \in cs THEN Append(received[c], e)
                                              ELSE received[c]]

\* A node accepts the event and sends it to connections of its own.
Accept(e, cs) == accepted' = accepted \cup {e} /\ DeliverTo(e, cs)

\* An accepted event reaches connections of another node.
Forward(e, cs) == e \in accepted /\ DeliverTo(e, cs) /\ UNCHANGED accepted

Next == \E e \in Events, cs \in SUBSET Conns : Accept(e, cs) \/ Forward(e, cs)

Spec == Init /\ [][Next]_vars
=============================================================================

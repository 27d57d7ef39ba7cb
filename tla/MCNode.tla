-------------------------------- MODULE MCNode --------------------------------
(***************************************************************************)
(* The parts of a node that share no state: its tables, its idempotency    *)
(* cache, the health of a connection, the checks of what comes in and its  *)
(* id generator.  Each is explored while the others are in their initial   *)
(* states.                                                                 *)
(***************************************************************************)
EXTENDS MCMembership, MCIdempotency, MCSocketHealth

NodeInit == Init /\ CacheInit /\ HealthInit /\ IngressInit /\ IdInit

\* One part takes a step and the others are in their initial states.
Tables ==
  /\ CacheInit /\ HealthInit /\ IngressInit /\ IdInit
  /\ Next /\ UNCHANGED <<cacheVars, healthVars, ingressVars, idVars>>

Cache ==
  /\ Init /\ HealthInit /\ IngressInit /\ IdInit
  /\ CacheNext /\ UNCHANGED <<vars, healthVars, ingressVars, idVars>>

Health ==
  /\ Init /\ CacheInit /\ IngressInit /\ IdInit
  /\ HealthNext /\ UNCHANGED <<vars, cacheVars, ingressVars, idVars>>

Incoming ==
  /\ Init /\ CacheInit /\ HealthInit /\ IdInit
  /\ IngressNext /\ UNCHANGED <<vars, cacheVars, healthVars, idVars>>

Ids ==
  /\ Init /\ CacheInit /\ HealthInit /\ IngressInit
  /\ IdNext /\ UNCHANGED <<vars, cacheVars, healthVars, ingressVars>>

NodeNext == Tables \/ Cache \/ Health \/ Incoming \/ Ids

NodeSpec == NodeInit /\ [][NodeNext]_<<vars, cacheVars, healthVars, ingressVars, idVars>>
=============================================================================

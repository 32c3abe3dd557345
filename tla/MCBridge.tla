------------------------------- MODULE MCBridge -------------------------------
(* Instances of Bridge for TLC: promotions from one source tenant, wanting *)
(* the same skill name, so that tasks collide on it.                       *)
EXTENDS BridgeProperties, TLC

CONSTANTS b1, s1

MCSourceOf == [p \in Promotions |-> s1]
MCNameOf   == [p \in Promotions |-> b1]

(* Requests are interchangeable, and so are tenants.  No liveness property *)
(* is checked with this symmetry, and every safety and action property     *)
(* that is, is itself symmetric in both.                                   *)
ModelSymmetry == Permutations(Requests) \cup Permutations(Tenants)
=============================================================================

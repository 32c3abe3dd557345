------------------------------- MODULE MCRuntime -------------------------------
(* An instance of AgentRuntime for TLC. *)
EXTENDS RuntimeProperties, TLC

(* Tenants, agents, threads and requests are interchangeable, and so they  *)
(* are in the safety properties checked with this symmetry.                *)
RuntimeSymmetry == Permutations(Tenants) \cup Permutations(Threads) \cup Permutations(Requests)
=============================================================================

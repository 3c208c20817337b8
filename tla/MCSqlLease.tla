----------------------------- MODULE MCSqlLease ------------------------------
(* Instances of SqlLease for TLC. *)
EXTENDS SqlLease, TLC

(* Calls and leases are interchangeable. *)
Symmetry == Permutations(Calls) \cup Permutations(Leases)
==============================================================================

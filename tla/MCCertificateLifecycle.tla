----------------------- MODULE MCCertificateLifecycle ------------------------
(* Instances of CertificateLifecycle for TLC. *)
EXTENDS CertificateLifecycle, TLC

(* Calls and records are interchangeable. *)
Symmetry == Permutations(Calls) \cup Permutations(Ids)
==============================================================================

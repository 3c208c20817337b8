---------------------------- MODULE MCAuthClient -----------------------------
(* Instances of AuthClient for TLC, for liveness: neither symmetry nor a    *)
(* view.  MCAuthHistory has those for safety.                               *)
EXTENDS AuthClient
==============================================================================

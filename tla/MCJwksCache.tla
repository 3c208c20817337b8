---------------------------- MODULE MCJwksCache ------------------------------
(* The instance of JwksCache for TLC.  Requests and keys are told apart:   *)
(* its run checks liveness too, for which symmetry would not be sound.     *)
EXTENDS JwksCache
==============================================================================

---------------------------- MODULE MCFilePlane ------------------------------
(* The instance of FilePlane for TLC.  Names and requests are told apart:  *)
(* its run checks liveness too, for which symmetry would not be sound.     *)
EXTENDS FilePlane
==============================================================================

---------------------------- MODULE MCTraversal -----------------------------
(* The instance of Traversal for TLC. *)
EXTENDS Traversal
=============================================================================

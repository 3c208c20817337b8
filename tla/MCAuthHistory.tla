---------------------------- MODULE MCAuthHistory ----------------------------
(* Instances of AuthHistory for TLC. *)
EXTENDS AuthHistory, TLC

(* Callers and flights are interchangeable. *)
Symmetry == Permutations(Callers) \cup Permutations(Flights)

(* States that differ only in what is left of a flight nobody refers to    *)
(* have the same future: Launch overwrites all of it.                      *)
WithoutDebris ==
    LET Live == {f \in Flights : ~Unreferenced(f)}
    IN  <<cache, life, inFlight, cooldown, holder, pc, op, ref, sent, refused,
          penalty, rejected \cap Live,
          [f \in Live |-> <<flight[f], outcome[f]>>]>>
==============================================================================

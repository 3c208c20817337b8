----------------------------- MODULE MCToolCall -----------------------------
(* Instances of ToolCall for TLC. *)
EXTENDS ToolCall, TLC

Op(tier, material, upload) == [tier |-> tier, material |-> material, upload |-> upload]

(* A reveal and a change with an uploaded value: what competes for the      *)
(* places of the plane.                                                    *)
KindsMixed == {Op("readAudited", TRUE, FALSE), Op("write", FALSE, TRUE)}

(* An issuance and a read: enough to fill the plane. *)
KindsTwo == {Op("write", TRUE, FALSE), Op("read", FALSE, FALSE)}

(* Calls and names are interchangeable; used for safety only. *)
Symmetry == Permutations(Calls) \cup Permutations(Names)
==============================================================================

------------------------------ MODULE LoginGate ------------------------------
(***************************************************************************)
(* What the Infisical client promises the authentication endpoint, with    *)
(* nothing of how it keeps the promise: logins pass a gate one at a time,  *)
(* and a failed login closes the gate until its cooldown has run out.      *)
(* AuthClient implements this module (AuthClient!GateSpec).                *)
(***************************************************************************)
VARIABLE gate

GateStates == {"open", "running", "cooling"}

GateInit == gate = "open"

(* A login may be started only through an open gate. *)
Start == gate = "open" /\ gate' = "running"

(* The running login ends: with a token, or with a failure to cool off. *)
Succeed == gate = "running" /\ gate' = "open"
Fail == gate = "running" /\ gate' = "cooling"

(* The cooldown runs out. *)
Reopen == gate = "cooling" /\ gate' = "open"

GateNext == Start \/ Succeed \/ Fail \/ Reopen

GateSpec == GateInit /\ [][GateNext]_gate
==============================================================================

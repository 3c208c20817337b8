----------------------------- MODULE HonestCall ------------------------------
(***************************************************************************)
(* What a caller of an operation of infisical-api may rely on, whatever    *)
(* its requests and checks are: the operation takes effect at most once,   *)
(* its result is final, success means that it has taken effect, a refusal  *)
(* that it has not and never will.  Only of an unknown outcome nothing     *)
(* follows: the effect may still come after the caller has been told.      *)
(***************************************************************************)
EXTENDS Integers

CONSTANT Calls

VARIABLES
    applied,    \* how often the operation of each call has taken effect
    said        \* what each caller has been told

vars == <<applied, said>>

Answers == {"nothing", "done", "refused", "unknown"}

Init ==
    /\ applied = [c \in Calls |-> 0]
    /\ said = [c \in Calls |-> "nothing"]

Apply(c) ==
    /\ applied[c] = 0 /\ said[c] \in {"nothing", "unknown"}
    /\ applied' = [applied EXCEPT ![c] = 1]
    /\ UNCHANGED said

Tell(c, answer) ==
    /\ said[c] = "nothing"
    /\ answer = "done" => applied[c] = 1
    /\ answer = "refused" => applied[c] = 0
    /\ said' = [said EXCEPT ![c] = answer]
    /\ UNCHANGED applied

Next ==
    \E c \in Calls :
        Apply(c) \/ \E answer \in Answers \ {"nothing"} : Tell(c, answer)

Spec == Init /\ [][Next]_vars
==============================================================================

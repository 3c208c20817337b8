------------------------------ MODULE ValueLife ------------------------------
(***************************************************************************)
(* What the file plane promises about each value that passes through it:   *)
(* its life only goes forward.  A value is staged, or promised by an       *)
(* uploader and received; it is handed to one receiver, or lost by expiry  *)
(* or a broken upload; and what is handed over or lost never comes back.   *)
(* Values may be lost together, all other steps concern one of them.       *)
(***************************************************************************)
CONSTANT Names

VARIABLE life

Stages == {"unborn", "promised", "claimed", "kept", "handed", "lost"}
Moves == {<<"unborn", "kept">>, <<"unborn", "promised">>, <<"promised", "claimed">>,
          <<"claimed", "kept">>, <<"kept", "handed">>}
Losses == {<<"promised", "lost">>, <<"claimed", "lost">>, <<"kept", "lost">>}

Init == life = [n \in Names |-> "unborn"]

(* Some values are lost, and at most the value m moves on. *)
StepOf(m) ==
    /\ life' \in [Names -> Stages]
    /\ \A n \in Names :
          \/ life'[n] = life[n]
          \/ <<life[n], life'[n]>> \in Losses
          \/ n = m /\ <<life[n], life'[n]>> \in Moves

Next == \E m \in Names : StepOf(m)

Spec == Init /\ [][Next]_life
==============================================================================

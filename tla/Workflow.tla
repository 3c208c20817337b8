------------------------------ MODULE Workflow ------------------------------
(***************************************************************************)
(* One call of an operation, step by step, while Infisical refuses, loses, *)
(* delays or answers wrongly and other clients change what has been read.  *)
(* The operations are data: Steps[o] is what the async function of o does, *)
(* in its order.  Promised[o] is what the input of the tool promises to    *)
(* refuse, Tier[o] the tier of its catalogue entry.  Trusted[o] is what is  *)
(* handed on although it could be compared with the call.                  *)
(***************************************************************************)
EXTENDS ErrorFacts

CONSTANTS Catalogue, Steps, Promised, Tier, Trusted

ASSUME StepsAssumption ==
    \A o \in Catalogue :
      Len(Steps[o]) \in Nat /\ DOMAIN Steps[o] = 1 .. Len(Steps[o])

VARIABLES
    op,         \* the operation called
    flaw,       \* the argument that breaks a condition, or "none"
    bad,        \* what is not, at this moment, as the caller believes
    at,         \* the step the call has reached
    got,        \* the objects fetched so far in this step
    seen,       \* what was fetched or answered and is not as the caller asked
    flying,     \* acts that are sent and may still be performed
    performed,  \* acts that Infisical has performed
    touched,    \* the strongest trace left: "nothing", "read", "audited"
    reply       \* "none", "ok", "cancelled" or an error

vars == <<op, flaw, bad, at, got, seen, flying, performed, touched, reply>>

Here == Steps[op][at]
Doing(do) == reply = "none" /\ at <= Len(Steps[op]) /\ Here.do = do
Next1 == at' = at + 1

(* What can be wrong with the objects an operation reads or addresses, and *)
(* with an answer it gets.  An object does not move to another scope.      *)
StepFacts(s) == IF s.do = "act" THEN s.asks \cup s.of ELSE s.asks
AllFacts(o) == UNION {StepFacts(Steps[o][i]) : i \in DOMAIN Steps[o]}
Deviations(o) == {f \in AllFacts(o) : f[1] = "answer"}
Facts(o) == AllFacts(o) \ Deviations(o)
Scopes(o) == UNION {Steps[o][i].of : i \in {j \in DOMAIN Steps[o] : Steps[o][j].do = "act"}}
Changeable(o) == {f \in Facts(o) \ Scopes(o) : f[2] # "project"}

(* Nothing is required of what no earlier step shows. *)
RequiresWhatIsShown(o) ==
    \A i \in DOMAIN Steps[o] : Steps[o][i].do = "require" =>
      \A f \in Steps[o][i].asks : \E j \in 1 .. i - 1 : f \in Steps[o][j].shows
Required(o) == UNION {Steps[o][i].asks : i \in {j \in DOMAIN Steps[o] : Steps[o][j].do = "require"}}
(* Nothing is listed as trusted that is looked at.                          *)
ExemptsWhatIsSkipped(o) == Trusted[o] \subseteq AllFacts(o) \ Required(o)

(* The reads that follow an act and hand on a refusal as it is.            *)
ReadsBack(o) ==
    {i \in DOMAIN Steps[o] :
        /\ Steps[o][i].do = "fetch" /\ Rejections \subseteq Steps[o][i].errors
        /\ \E j \in 1 .. i - 1 : Steps[o][j].do = "act"}

(* The arguments that can be wrong: those that the tool declares, and those *)
(* that the operation checks.                                              *)
Checked(o) == UNION {Steps[o][i].of : i \in {j \in DOMAIN Steps[o] : Steps[o][j].do = "check"}}
Flaws(o) == {"none"} \cup Promised[o] \cup Checked(o)

AtMostOne(S) == {{}} \cup {{x} : x \in S}

Init == /\ op \in Catalogue
        /\ flaw \in Flaws(op)
        /\ bad \in AtMostOne(Facts(op))
        /\ flaw # "none" => bad = {}
        /\ at = 1 /\ got = {} /\ seen = {}
        /\ flying = {} /\ performed = {}
        /\ touched = "nothing" /\ reply = "none"

Trace(class) == IF class \in {"observe", "reveal"} THEN "audited"
                ELSE IF touched = "nothing" THEN "read" ELSE touched

(* A condition on the arguments holds, or ends the call. *)
CheckArguments ==
    /\ Doing("check")
    /\ IF flaw \in Here.of
         THEN reply' \in Here.errors /\ UNCHANGED at
         ELSE Next1 /\ UNCHANGED reply
    /\ UNCHANGED <<op, flaw, bad, got, seen, flying, performed, touched>>

(* One object of the step arrives, as it is now. *)
FetchOne ==
    /\ Doing("fetch")
    /\ \E o \in Here.of \ got :
         /\ seen' = seen \cup {f \in bad \cap Here.shows : f[1] = o}
         /\ IF got \cup {o} = Here.of
              THEN Next1 /\ got' = {}
              ELSE got' = got \cup {o} /\ UNCHANGED at
    /\ touched' = Trace(Here.class)
    /\ UNCHANGED <<op, flaw, bad, flying, performed, reply>>

FetchFails ==
    /\ Doing("fetch")
    /\ reply' \in Here.errors
    /\ touched' = IF reply' \in Unsent THEN touched ELSE Trace(Here.class)
    /\ UNCHANGED <<op, flaw, bad, at, got, seen, flying, performed>>

(* A condition on what has been fetched or answered. *)
RequireFetched ==
    /\ Doing("require")
    /\ IF Here.asks \cap seen # {}
         THEN reply' \in Here.errors /\ UNCHANGED at
         ELSE Next1 /\ UNCHANGED reply
    /\ UNCHANGED <<op, flaw, bad, got, seen, flying, performed, touched>>

Sent == flying \cup performed

(* Mutant of SendAct: a mutation is repeated the way a read is. *)
SendAgain ==
    /\ Doing("act") /\ at \notin flying
    /\ flying' = flying \cup {at}
    /\ touched' = IF Here.class = "reveal" THEN "audited" ELSE touched
    /\ UNCHANGED <<op, flaw, bad, at, got, seen, performed, reply>>

SendAct ==
    /\ Doing("act") /\ at \notin Sent
    /\ flying' = flying \cup {at}
    /\ touched' = IF Here.class = "reveal" THEN "audited" ELSE touched
    /\ UNCHANGED <<op, flaw, bad, at, got, seen, performed, reply>>

(* Infisical takes its time: the call may be over when it acts. *)
PerformAct ==
    /\ \E a \in flying : flying' = flying \ {a} /\ performed' = performed \cup {a}
    /\ UNCHANGED <<op, flaw, bad, at, got, seen, touched, reply>>

(* The answer arrives.  It may be that of another request. *)
AnswerAct ==
    /\ Doing("act") /\ at \in performed
    /\ \E d \in AtMostOne(Deviations(op)) : seen' = seen \cup d
    /\ Next1
    /\ UNCHANGED <<op, flaw, bad, got, flying, performed, touched, reply>>

(* No endpoint, no budget or no token: a login fails in as many ways as a  *)
(* request.                                                                *)
NotSent ==
    /\ Doing("act") /\ at \notin Sent
    /\ reply' \in Here.errors \cup {"InvalidResponse"}
    /\ UNCHANGED <<op, flaw, bad, at, got, seen, flying, performed, touched>>

Refused ==
    /\ Doing("act") /\ at \in flying
    /\ flying' = flying \ {at}
    /\ reply' \in Here.errors \cap RefusedAct
    /\ UNCHANGED <<op, flaw, bad, at, got, seen, performed, touched>>

(* No answer, or one that cannot be read: the request stays on its way. *)
AnswerLost ==
    /\ Doing("act") /\ at \in Sent
    /\ reply' \in Here.errors \ (RefusedAct \cup Unsent)
    /\ UNCHANGED <<op, flaw, bad, at, got, seen, flying, performed, touched>>

(* The file plane has a free place, or the call ends here. *)
ReserveFile ==
    /\ Doing("reserve")
    /\ \/ Next1 /\ UNCHANGED reply
       \/ reply' \in Here.errors /\ UNCHANGED at
    /\ UNCHANGED <<op, flaw, bad, got, seen, flying, performed, touched>>

(* Material that cannot be written to its file is lost to the caller.      *)
DeliverResult ==
    /\ Doing("deliver")
    /\ \/ Next1 /\ UNCHANGED reply
       \/ reply' \in Here.errors /\ UNCHANGED at
    /\ UNCHANGED <<op, flaw, bad, got, seen, flying, performed, touched>>

Complete ==
    /\ reply = "none" /\ at > Len(Steps[op])
    /\ reply' = "ok"
    /\ UNCHANGED <<op, flaw, bad, at, got, seen, flying, performed, touched>>

Cancel ==
    /\ reply = "none" /\ at <= Len(Steps[op])
    /\ reply' = "cancelled"
    /\ UNCHANGED <<op, flaw, bad, at, got, seen, flying, performed, touched>>

(* Other clients change what the call has read or will read, one thing at  *)
(* a time.                                                                 *)
Others ==
    /\ reply = "none" /\ at <= Len(Steps[op])
    /\ bad \subseteq Changeable(op)
    /\ bad' \in AtMostOne(Changeable(op)) \ {bad}
    /\ UNCHANGED <<op, flaw, at, got, seen, flying, performed, touched, reply>>

Next == \/ CheckArguments \/ FetchOne \/ FetchFails \/ RequireFetched
        \/ SendAct \/ PerformAct \/ AnswerAct \/ NotSent \/ Refused \/ AnswerLost
        \/ ReserveFile \/ DeliverResult \/ Complete \/ Cancel \/ Others

Spec == Init /\ [][Next]_vars
-----------------------------------------------------------------------------
Class(a) == Steps[op][a].class

TypeOK ==
    /\ op \in Catalogue
    /\ flaw \in Flaws(op)
    /\ bad \subseteq Facts(op)
    /\ at \in 1 .. Len(Steps[op]) + 1
    /\ got = {} \/ got \subseteq Here.of
    /\ seen \subseteq Facts(op) \cup Deviations(op)
    /\ Sent \subseteq {a \in 1 .. at : a <= Len(Steps[op]) /\ Steps[op][a].do = "act"}
    /\ flying \cap performed = {}
    /\ touched \in {"nothing", "read", "audited"}
    /\ reply \in {"none", "ok", "cancelled"} \cup Errors

(* An argument that the input of the tool promises to refuse, a missing    *)
(* confirmation among them, never lets an act leave the process: the       *)
(* checks are spread over the handler, the constructors and the async      *)
(* function, and none of them may come after the act.  A missing           *)
(* confirmation is found before anything is asked of Infisical.            *)
Confirmations ==
    {"confirm", "confirmReveal", "confirmDelete", "confirmReplaceAllRoles",
     "confirmReplacePermissions", "confirmDenyPermissions", "confirmCredentialReplacement",
     "confirmInitialOverwrite", "confirmUpdate", "confirmRemoteRemoval",
     "confirmCreateCredentialsAndSecrets", "confirmUpdateEffects", "confirmMappedSecrets",
     "confirmGeneratedCredentials", "confirmMove", "confirmOverwriteDestination"}
FlawsStayLocal ==
    /\ flaw # "none" => Sent = {} /\ reply # "ok"
    /\ flaw \in Confirmations => touched = "nothing"

(* `effect: notStarted` is only said when no act was sent, whatever part   *)
(* of the operation the error came from.                                   *)
NotStartedIsTrue == reply \in NotStarted => Sent = {}

(* A caller told to correct its request and send it again has not already  *)
(* changed something, unless a scope or state error says that an answer    *)
(* names another object, or the operation reads the object back and that   *)
(* read is refused.                                                        *)
CorrectableIsUnchanged ==
    reply \in Errors \ StateErrors /\ Recovery(reply) = "correctRequest" =>
      Sent = {} \/ at \in ReadsBack(op)

(* What docs/tool-surface.md says of `effect: unknown`: that it requires    *)
(* reconciliation, an invalid response among its causes.                   *)
UnknownMeansReconcile ==
    reply \in Errors /\ Effect(reply) = "unknown" /\ performed # {} =>
      Recovery(reply) = "reconcile"

(* `preflightObservationsPossible: false` is only said when Infisical has  *)
(* no audit record of the call.                                            *)
ObservationsAdmitted ==
    reply \in Errors /\ Observations(reply) = "none" => touched = "nothing"

(* What an error says of the effect, of what to do next and of the audit   *)
(* log is so, or leaves the matter open.                                   *)
AdviceIsTrue == NotStartedIsTrue /\ CorrectableIsUnchanged /\ ObservationsAdmitted

(* An act that names its object by a bare identifier is only sent when the *)
(* object lies in the project that the caller named: others' interference  *)
(* cannot change that between the look and the act.                        *)
ScopeIsProved == \A a \in Sent : Steps[op][a].of \cap bad = {}

(* A result is only returned when every act of the operation has been      *)
(* performed, and when nothing that was read or answered contradicts the   *)
(* call, but for what is known to be taken as it comes.                     *)
Acts(o) == {i \in DOMAIN Steps[o] : Steps[o][i].do = "act"}
ResultsFit == reply = "ok" => Acts(op) \subseteq performed /\ seen \subseteq Trusted[op]

(* What a tier promises to the profiles that admit it: read leaves no      *)
(* audit record, and only write and destroy change anything.               *)
TierIsTrue ==
    /\ touched = "audited" => Tier[op] # "read"
    /\ \A a \in Sent : Class(a) = "mutate" => Tier[op] \in {"write", "destroy"}
-----------------------------------------------------------------------------
(* The discipline that the operations follow, as conditions on their steps *)
(* alone.                                                                  *)
Is(o, i, do) == Steps[o][i].do = do
Untouched(o, last, do) == \A j \in 1 .. last : ~Is(o, j, do)

(* Every argument is checked before the first act, a confirmation before   *)
(* the first request of any kind.                                          *)
FlawsAreChecked(o) ==
    \A f \in Flaws(o) \ {"none"} : \E k \in DOMAIN Steps[o] :
      /\ Is(o, k, "check") /\ f \in Steps[o][k].of
      /\ Untouched(o, k - 1, "act")
      /\ f \in Confirmations => Untouched(o, k - 1, "fetch")

(* No error says more than is known where it comes from.                   *)
StepErrors(s) == IF s.do = "act" THEN s.errors \cup {"InvalidResponse"} ELSE s.errors
ErrorsAreHonest(o) ==
    \A i \in DOMAIN Steps[o] : \A e \in StepErrors(Steps[o][i]) :
      /\ e \in Errors
      /\ e \in NotStarted => Untouched(o, i, "act")
      /\ Observations(e) = "none" => Untouched(o, i, "act") /\ Untouched(o, i, "fetch")
      /\ e \notin StateErrors /\ Recovery(e) = "correctRequest" /\ i \notin ReadsBack(o) =>
           /\ Untouched(o, i - 1, "act")
           /\ Is(o, i, "act") => e \in RefusedAct \cup Unsent

(* What an act addresses has been fetched and found where it should be.    *)
ActsAreScoped(o) ==
    \A i \in DOMAIN Steps[o] : Is(o, i, "act") =>
      \A f \in Steps[o][i].of : \E k \in 1 .. i - 1 : \E j \in 1 .. k - 1 :
        /\ Is(o, j, "fetch") /\ f[1] \in Steps[o][j].of /\ f \in Steps[o][j].shows
        /\ Is(o, k, "require") /\ f \in Steps[o][k].asks

(* What a fetch or an answer shows is compared later, or known to be       *)
(* trusted.                                                                *)
Shown(o, i) == CASE Is(o, i, "fetch") -> Facts(o) \cap Steps[o][i].shows
                 [] Is(o, i, "act") -> Deviations(o)
                 [] OTHER -> {}
ShownIsRequired(o) ==
    \A i \in DOMAIN Steps[o] : \A f \in Shown(o, i) \ Trusted[o] :
      \E k \in i + 1 .. Len(Steps[o]) : Is(o, k, "require") /\ f \in Steps[o][k].asks

LeavesARecord(s) == \/ s.do = "fetch" /\ s.class \in {"observe", "reveal"}
                    \/ s.do = "act" /\ s.class = "reveal"
TierFits(o) ==
    \A i \in DOMAIN Steps[o] :
      /\ LeavesARecord(Steps[o][i]) => Tier[o] # "read"
      /\ Is(o, i, "act") /\ Steps[o][i].class = "mutate" => Tier[o] \in {"write", "destroy"}

Disciplined(o) ==
    /\ FlawsAreChecked(o) /\ ErrorsAreHonest(o) /\ ActsAreScoped(o)
    /\ ShownIsRequired(o) /\ TierFits(o)

(* Every operation that is called is disciplined: what TypeOK and the      *)
(* properties above need of a table of operations, of this or any other.   *)
CallsAreDisciplined == at = 1 => Disciplined(op)
=============================================================================

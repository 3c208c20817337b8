--------------------------- MODULE WorkflowSteps ---------------------------
(***************************************************************************)
(* The vocabulary in which the operations of infisical-api are written     *)
(* down: an operation is a sequence of steps, in the order of its async    *)
(* function.  A function that calls another is the concatenation.          *)
(*                                                                         *)
(*   check    conditions on the arguments alone                            *)
(*   fetch    reads before or after the final action, all of one join      *)
(*   require  conditions on what has been fetched or answered              *)
(*   act      a request that changes something or releases a secret        *)
(*   reserve  a place for the result is taken in the file plane            *)
(*   deliver  the result becomes a file                                    *)
(*                                                                         *)
(* A wire operation (an impl of ReadOperation, ObservableReadOperation or  *)
(* MutationOperation) is a Wire record: the object it addresses; the facts *)
(* that put the objects it names by bare identifiers into the scope that   *)
(* the caller names (none if the request itself carries the scope); the    *)
(* facets of the object that the caller has fixed, and those that the      *)
(* answer shows.  A fact is a pair of an object and a facet.               *)
(***************************************************************************)
EXTENDS Naturals, Sequences, FiniteSets

Wire(object, scope, asks, answers) ==
    [object |-> object, scope |-> scope, asks |-> asks, answers |-> answers]
ById(object) == {<<object, "project">>}
InScope == {}

(* The facets in which an answer can contradict the call. *)
Bound(wire) == wire.asks \cap wire.answers

(* of: the conditions, the objects or the scope; asks, shows: facts.        *)
Step(do, class, of, asks, shows, errors) ==
    [do |-> do, class |-> class, of |-> of, asks |-> asks, shows |-> shows, errors |-> errors]

(* ClientError of client.rs: Infisical refused the request; it was never   *)
(* sent; nobody knows what has become of it.                               *)
Rejections == {"Api.InvalidRequest", "Api.Authentication", "Api.PermissionDenied",
               "Api.NotFound", "Api.Conflict", "Api.RateLimited"}
(* A refusal that the operation gives a name of its own. *)
RefusedAct == Rejections \cup {"CertificatePolicyInUse"}
Unsent == {"WorkBudgetExhausted", "RefreshInterrupted", "AuthenticationCooldown",
           "InvalidEndpoint"}
Lost == {"Transport", "ResponseTooLarge", "InvalidResponse",
         "InvalidMutationResponse", "Api.Server"}
ClientErrors == Rejections \cup Unsent \cup Lost

Check(conditions, error) == <<Step("check", "none", conditions, {}, {}, {error})>>
Consent(condition) == Check({condition}, "NotConfirmed")

(* Reads of one join come in any order; the first failure ends them all.   *)
Together(class, wires, errors) ==
    <<Step("fetch", class, {w.object : w \in wires},
           UNION {{w.object} \X Bound(w) : w \in wires},
           UNION {{w.object} \X w.answers : w \in wires}, errors)>>
ReadErrors == ClientErrors \ {"InvalidMutationResponse"}
Fetch(class, wire) == Together(class, {wire}, ReadErrors)
Read(wire) == Fetch("read", wire)
(* A read that leaves an audit record. *)
Observe(wire) == Fetch("observe", wire)

Require(object, facets, error) ==
    <<Step("require", "none", {object}, {object} \X facets, {}, {error})>>

Act(class, wire, errors) ==
    <<Step("act", class, wire.scope,
           {"answer"} \X Bound(wire), {"answer"} \X wire.answers, errors)>>
MutationErrors == ClientErrors \ {"InvalidResponse"}
Mutate(wire) == Act("mutate", wire, MutationErrors)
(* An observable read of secret material, sent when everything is checked. *)
Reveal(wire) == Act("reveal", wire, ReadErrors)
(* A mutation whose unclear answers are reported under a name of their own. *)
MutateUnsure(wire, unclear, unknown) ==
    Act("mutate", wire, (MutationErrors \ unclear) \cup {unknown})
MutateUnless(wire, refusal, name) == MutateUnsure(wire, {refusal}, name)

(* Conditions on the answer of the latest act. *)
Verify(facets, error) == Require("answer", facets, error)

(* The handler reserves a file before anything else, and writes revealed   *)
(* material into it in the end.                                            *)
Reserve == <<Step("reserve", "none", {}, {}, {}, {"CapacityBeforeExecution"})>>
Deliver == <<Step("deliver", "none", {}, {}, {}, {"Internal"})>>

(* Another way through an operation. *)
Way(operation, steps) == [of |-> operation, steps |-> steps]
============================================================================

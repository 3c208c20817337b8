------------------------ MODULE CertificateLifecycle -------------------------
(***************************************************************************)
(* The operations of infisical-api/src/pki_certificates.rs that change the *)
(* inventory of a project: import, renewal, revocation, deletion and the   *)
(* renewal configuration of certificates.  Each reads the inventory, sends *)
(* one request and checks the answer; an import and a renewal then look    *)
(* for their record in the inventory.                                      *)
(*                                                                         *)
(* Other clients work on the same inventory between any two steps, and a   *)
(* request whose caller has given up may still reach Infisical.            *)
(***************************************************************************)
EXTENDS Integers, FiniteSets

CONSTANTS
    Calls,      \* lifecycle operations
    Ids,        \* bound: identities of certificate records
    Offered,    \* the operations in use
    Serials,    \* serial numbers of the certificates that are imported
    Issued,     \* stands for the fresh serial numbers of issued certificates
    None        \* no record

Operations == {"import", "renew", "revoke", "configure", "delete"}

ASSUME OfferedAssumption == Offered \subseteq Operations
ASSUME IdsAssumption == IsFiniteSet(Ids)
ASSUME NoneAssumption == None \notin Ids
ASSUME IssuedAssumption == Issued \notin Serials

VARIABLES
    inventory,  \* the records of the project, a set of identities
    record,     \* what each record says, or said before it was deleted
    at,         \* how far a call has got
    args,       \* its operation, target and imported serial number
    seen,       \* what it remembers of its first read
    flying,     \* the calls whose request may still take effect
    own,        \* the record the request of a call has made or changed
    result      \* [said, of]: what its caller is told, and of which record

calls == <<at, args, seen, result>>
upstream == <<inventory, record>>
vars == <<inventory, record, at, args, seen, flying, own, result>>

Phases == {"idle", "sent", "answered", "done"}
Statuses == {"unused", "active", "revoked"}

(* "managed": issued for an API profile, with a key kept by Infisical;     *)
(* "imported": any other end entity; "authority": a CA certificate.        *)
Kinds == {"managed", "imported", "authority"}

Records == [status : Statuses, kind : Kinds, serial : Serials \cup {Issued}]
Record(status, kind, serial) == [status |-> status, kind |-> kind, serial |-> serial]
Unused == Record("unused", "imported", Issued)
Arguments ==
    [op : Offered \cap {"import"}, target : {None}, serial : Serials]
    \cup [op : Offered \ {"import"}, target : Ids, serial : {Issued}]

(* What is kept of the first read: the ids with the serial number of an    *)
(* import, or the status of the target.                                    *)
NothingSeen == [ids |-> {}, status |-> "unused"]

Says(said, of) == [said |-> said, of |-> of]
NoResult == Says("nothing", None)

Active(i) == i \in inventory /\ record[i].status = "active"
Op(c) == args[c].op
Target(c) == args[c].target

Init ==
    /\ record \in [Ids -> {Unused} \cup {Record("active", k, Issued) : k \in Kinds}]
    /\ inventory = {i \in Ids : record[i] # Unused}
    /\ at = [c \in Calls |-> "idle"]
    /\ args \in [Calls -> Arguments]
    /\ seen = [c \in Calls |-> NothingSeen]
    /\ flying = {}
    /\ own = [c \in Calls |-> None]
    /\ result = [c \in Calls |-> NoResult]

------------------------------------------------------------------------------
Goes(c, from, to) == at[c] = from /\ at' = [at EXCEPT ![c] = to]
Ends(c, from, answer) ==
    Goes(c, from, "done") /\ result' = [result EXCEPT ![c] = answer]

(* certificates_by_serial *)
WithSerial(s) == {i \in inventory : record[i].serial = s}

(* certificate_supports_managed_renewal, certificate_is_end_entity and the *)
(* other conditions on the record that get_certificate returns.            *)
Eligible(c) ==
    LET r == record[Target(c)]
    IN  /\ Target(c) \in inventory /\ r.kind # "authority"
        /\ Op(c) # "delete" => Active(Target(c))
        /\ Op(c) \in {"renew", "configure"} => r.kind = "managed"

Sends(c, remembered) ==
    /\ Goes(c, "idle", "sent")
    /\ seen' = [seen EXCEPT ![c] = remembered]
    /\ flying' = flying \cup {c}

(* import_certificate, to its request *)
LookBefore(c) ==
    /\ Op(c) = "import"
    /\ Sends(c, [ids |-> WithSerial(args[c].serial), status |-> "unused"])
    /\ UNCHANGED <<upstream, args, own, result>>

(* The other operations, to their request. *)
ReadTarget(c) ==
    /\ Op(c) # "import" /\ Eligible(c)
    /\ Sends(c, [ids |-> {}, status |-> record[Target(c)].status])
    /\ UNCHANGED <<upstream, args, own, result>>

(* No confirmation, a failed read, a target that is absent or not eligible. *)
Refuse(c) ==
    /\ Ends(c, "idle", Says("refused", None))
    /\ UNCHANGED <<upstream, args, seen, flying, own>>

------------------------------------------------------------------------------
(* What happens to the inventory.  A deleted record keeps its last words,  *)
(* so that its identity is not used again.                                 *)
Adds(i, r) ==
    /\ record[i].status = "unused"
    /\ inventory' = inventory \cup {i}
    /\ record' = [record EXCEPT ![i] = r]

Revokes(i) ==
    /\ Active(i)
    /\ record' = [record EXCEPT ![i] = Record("revoked", @.kind, @.serial)]
    /\ UNCHANGED inventory

Removes(i) ==
    /\ i \in inventory
    /\ inventory' = inventory \ {i}
    /\ UNCHANGED record

(* Infisical performs the request of c, also after c has given up. *)
Takes(c, i) ==
    /\ c \in flying
    /\ flying' = flying \ {c}
    /\ own' = [own EXCEPT ![c] = i]
    /\ at' = [at EXCEPT ![c] = IF @ = "sent" THEN "answered" ELSE @]
    /\ UNCHANGED <<args, seen, result>>

ActImport(c, i) ==
    /\ Op(c) = "import"
    /\ Takes(c, i)
    /\ Adds(i, Record("active", "imported", args[c].serial))

ActRenew(c, i) ==
    /\ Op(c) = "renew" /\ Active(Target(c))
    /\ Takes(c, i)
    /\ Adds(i, Record("active", "managed", Issued))

ActRevoke(c) ==
    /\ Op(c) = "revoke"
    /\ Takes(c, Target(c))
    /\ Revokes(Target(c))

ActConfigure(c) ==
    /\ Op(c) = "configure" /\ Active(Target(c))
    /\ Takes(c, Target(c))
    /\ UNCHANGED upstream

ActDelete(c) ==
    /\ Op(c) = "delete"
    /\ Takes(c, Target(c))
    /\ Removes(Target(c))

(* The request is refused with a 4xx, or not sent for lack of a token or a *)
(* permit: the error keeps its meaning.                                    *)
Reject(c) ==
    /\ c \in flying
    /\ Ends(c, "sent", Says("refused", None))
    /\ flying' = flying \ {c}
    /\ UNCHANGED <<upstream, args, seen, own>>

(* Mutant of Lose: a 5xx answer keeps its meaning too. *)
LoseAsRefusal(c) ==
    /\ \/ Ends(c, "sent", Says("refused", None))
       \/ Ends(c, "answered", Says("unknown", None))
    /\ UNCHANGED <<upstream, args, seen, flying, own>>

(* Mutant of Lose: the request is repeated when its answer is lost. *)
LoseAndResend(c) ==
    /\ \/ Goes(c, "answered", "sent") /\ flying' = flying \cup {c} /\ UNCHANGED result
       \/ Ends(c, "sent", Says("unknown", None)) /\ UNCHANGED flying
    /\ UNCHANGED <<upstream, args, seen, own>>

(* lifecycle_unknown: a transport error, a 5xx, an answer that cannot be   *)
(* read or does not fit the request; for an import and a renewal also a    *)
(* failed second read.                                                     *)
Lose(c) ==
    /\ \E p \in {"sent", "answered"} : Ends(c, p, Says("unknown", None))
    /\ UNCHANGED <<upstream, args, seen, flying, own>>

(* The caller goes away during an await. *)
Cancel(c) ==
    /\ \E p \in {"idle", "sent", "answered"} : Ends(c, p, Says("unknown", None))
    /\ UNCHANGED <<upstream, args, seen, flying, own>>

------------------------------------------------------------------------------
(* The records an import has not seen before and that fit its request. *)
NewRecords(c) ==
    {i \in WithSerial(args[c].serial) \ seen[c].ids :
        Active(i) /\ record[i].kind = "imported"}

(* Mutant of FindImport: the number of new records is not checked. *)
FindSomeImport(c) ==
    /\ Op(c) = "import"
    /\ IF NewRecords(c) # {}
         THEN \E i \in NewRecords(c) : Ends(c, "answered", Says("done", i))
         ELSE Ends(c, "answered", Says("unknown", None))
    /\ UNCHANGED <<upstream, args, seen, flying, own>>

(* Mutant of FindImport: records that were there before count as well. *)
FindAnyImport(c) ==
    /\ Op(c) = "import"
    /\ LET found == {i \in WithSerial(args[c].serial) : Active(i)}
       IN  IF Cardinality(found) = 1
             THEN \E i \in found : Ends(c, "answered", Says("done", i))
             ELSE Ends(c, "answered", Says("unknown", None))
    /\ UNCHANGED <<upstream, args, seen, flying, own>>

(* import_certificate, after a valid answer: exactly one new record. *)
FindImport(c) ==
    /\ Op(c) = "import"
    /\ IF Cardinality(NewRecords(c)) = 1
         THEN \E i \in NewRecords(c) : Ends(c, "answered", Says("done", i))
         ELSE Ends(c, "answered", Says("unknown", None))
    /\ UNCHANGED <<upstream, args, seen, flying, own>>

(* renew_certificate, after a valid answer: the inventory has the record   *)
(* it names, and the new private key is handed over.                       *)
FindRenewal(c) ==
    /\ Op(c) = "renew"
    /\ Ends(c, "answered", IF Active(own[c])
                             THEN Says("done", own[c]) ELSE Says("unknown", None))
    /\ UNCHANGED <<upstream, args, seen, flying, own>>

(* A valid answer to a revocation or a configuration change. *)
Confirm(c) ==
    /\ Op(c) \in {"revoke", "configure"}
    /\ Ends(c, "answered", Says("done", Target(c)))
    /\ UNCHANGED <<upstream, args, seen, flying, own>>

(* The answer to a deletion shows the record as it was deleted, in the     *)
(* status the first read has seen or, if it was revoked since, another.    *)
ConfirmDeletion(c) ==
    /\ Op(c) = "delete"
    /\ Ends(c, "answered", IF record[Target(c)].status = seen[c].status
                             THEN Says("done", Target(c)) ELSE Says("unknown", None))
    /\ UNCHANGED <<upstream, args, seen, flying, own>>

------------------------------------------------------------------------------
(* Other clients. *)
OtherImport(i, s) ==
    /\ Adds(i, Record("active", "imported", s))
    /\ UNCHANGED <<calls, flying, own>>

OtherRevoke(i) ==
    /\ Revokes(i)
    /\ UNCHANGED <<calls, flying, own>>

OtherDelete(i) ==
    /\ Removes(i)
    /\ UNCHANGED <<calls, flying, own>>

Caller(c) ==
    \/ LookBefore(c) \/ ReadTarget(c) \/ Refuse(c)
    \/ Lose(c) \/ Cancel(c)
    \/ FindImport(c) \/ FindRenewal(c) \/ Confirm(c) \/ ConfirmDeletion(c)

Infisical(c) ==
    \/ \E i \in Ids : ActImport(c, i) \/ ActRenew(c, i)
    \/ ActRevoke(c) \/ ActConfigure(c) \/ ActDelete(c) \/ Reject(c)

Others ==
    \E i \in Ids : OtherRevoke(i) \/ OtherDelete(i) \/ \E s \in Serials : OtherImport(i, s)

Next == Others \/ \E c \in Calls : Caller(c) \/ Infisical(c)

Spec == Init /\ [][Next]_vars

------------------------------------------------------------------------------
(* Types; a request in flight has not taken effect yet. *)
TypeOK ==
    /\ record \in [Ids -> Records]
    /\ inventory \subseteq {i \in Ids : record[i].status # "unused"}
    /\ at \in [Calls -> Phases]
    /\ args \in [Calls -> Arguments]
    /\ seen \in [Calls -> [ids : SUBSET Ids, status : Statuses]]
    /\ flying \subseteq {c \in Calls : own[c] = None}
    /\ own \in [Calls -> Ids \cup {None}]
    /\ result \in [Calls -> [said : {"nothing", "done", "refused", "unknown"},
                             of : Ids \cup {None}]]

(* Every operation is honest: it takes effect at most once, success is     *)
(* reported only of what has happened and a refusal only of what has not   *)
(* happened and will not, although a request may outlive its caller.       *)
Honest == INSTANCE HonestCall WITH
    applied <- [c \in Calls |-> IF own[c] = None THEN 0 ELSE 1],
    said <- [c \in Calls |-> result[c].said]
HonestSpec == Honest!Spec

(* The record that an import reports is the one it has made; it can be     *)
(* another client's import of the same certificate only when its own has   *)
(* been revoked or deleted in the meantime.                                *)
ImportsAreNotConfused ==
    \A c \in Calls : Op(c) = "import" /\ result[c].said = "done" =>
        result[c].of = own[c] \/ ~Active(own[c])

(* An import that has been made and answered stays unrecognised only when  *)
(* somebody has imported the same certificate since, or its own record is  *)
(* gone: older imports of the certificate are no obstacle.                 *)
ImportsAreRecognised ==
    [][\A c \in Calls : FindImport(c) =>
          \/ result'[c] = Says("done", own[c])
          \/ ~Active(own[c])
          \/ \E i \in NewRecords(c) : i # own[c]]_vars
==============================================================================

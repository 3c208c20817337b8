------------------------------ MODULE SqlLease ------------------------------
(***************************************************************************)
(* create_sql_dynamic_secret_lease of infisical-api/src/                   *)
(* dynamic_secret_sql.rs: a call reads the configuration that has the      *)
(* requested name, asks for one lease of it, checks the answer and revokes *)
(* a lease whose answer it cannot use.                                     *)
(*                                                                         *)
(* Between any two steps other clients replace the configuration under the *)
(* name and leases end by themselves.  An answer tells the truth about the *)
(* lease that was made, except for the parts that cannot be read, or it is *)
(* about a lease that was made for another name.                           *)
(***************************************************************************)
EXTENDS FiniteSets

CONSTANTS
    Calls,      \* calls that create a lease under the requested name
    Leases,     \* bound: identities of leases
    Configs,    \* identities that configurations under the name can have
    Sql,        \* those whose provider is sql-database
    Elsewhere,  \* configurations under other names
    None        \* no lease, no configuration, or a part that cannot be read

ASSUME SqlAssumption == Sql \subseteq Configs
ASSUME NoneAssumption ==
    None \notin Leases /\ None \notin Configs /\ None \notin Elsewhere
ASSUME NamesAssumption == Configs \cap Elsewhere = {}

VARIABLES
    named,      \* the configuration that has the name now, or None
    owner,      \* the configuration each lease was made for, or None
    live,       \* the leases whose credentials work
    at,         \* how far a call has got
    expected,   \* expected_dynamic_secret_id of a call
    answer,     \* what it was told of its lease
    made,       \* the lease its request has made
    outcome     \* what it returns

upstream == <<named, owner, live>>
vars == <<named, owner, live, at, expected, answer, made, outcome>>

Phases == {"idle", "sent", "made", "answered", "revoking", "revoked", "done"}

(* A response: lease.id, lease.dynamicSecretId, dynamicSecret.id, whether  *)
(* dynamicSecret has the requested name and the type sql-database, and     *)
(* whether all the rest, credentials included, is as it should be.         *)
Responses == [lease : Leases \cup {None}, of : Configs \cup Elsewhere \cup {None},
              config : Configs \cup Elsewhere \cup {None},
              asRequested : BOOLEAN, rest : BOOLEAN]
NoResponse == [lease |-> None, of |-> None, config |-> None,
               asRequested |-> FALSE, rest |-> FALSE]

(* "contract": InvalidDynamicSecretLeaseResponse, the answer was refused.  *)
(* "client": the last request failed.  "refused": the configuration is not *)
(* of the right kind.                                                      *)
Outcomes == {"none", "credentials", "contract", "client", "refused", "cancelled"}

Init ==
    /\ named \in Configs
    /\ owner \in [Leases -> Elsewhere \cup {None}]
    /\ live = {l \in Leases : owner[l] # None}
    /\ at = [c \in Calls |-> "idle"]
    /\ expected = [c \in Calls |-> None]
    /\ answer = [c \in Calls |-> NoResponse]
    /\ made = [c \in Calls |-> None]
    /\ outcome = [c \in Calls |-> "none"]

------------------------------------------------------------------------------
Goes(c, from, to) == at[c] = from /\ at' = [at EXCEPT ![c] = to]
Ends(c, from, result) == Goes(c, from, "done") /\ outcome' = [outcome EXCEPT ![c] = result]

(* Mutant of Read: the provider is not compared. *)
ReadAnyProvider(c) ==
    /\ named \in Configs
    /\ Goes(c, "idle", "sent")
    /\ expected' = [expected EXCEPT ![c] = named]
    /\ UNCHANGED <<upstream, answer, made, outcome>>

(* get_dynamic_secret: the configuration exists and is an SQL database;    *)
(* the request for the lease follows.                                      *)
Read(c) ==
    /\ named \in Sql
    /\ Goes(c, "idle", "sent")
    /\ expected' = [expected EXCEPT ![c] = named]
    /\ UNCHANGED <<upstream, answer, made, outcome>>

RefuseProvider(c) ==
    /\ named \in Configs \ Sql
    /\ Ends(c, "idle", "refused")
    /\ UNCHANGED <<upstream, expected, answer, made>>

(* Infisical makes a lease of whatever has the name by now. *)
Make(c, l) ==
    /\ named # None /\ owner[l] = None
    /\ Goes(c, "sent", "made")
    /\ owner' = [owner EXCEPT ![l] = named]
    /\ live' = live \cup {l}
    /\ made' = [made EXCEPT ![c] = l]
    /\ UNCHANGED <<named, expected, answer, outcome>>

(* What Infisical can have answered to the call. *)
Truth(l) ==
    [lease : {l, None}, of : {owner[l], None}, config : {owner[l], None},
     asRequested : {b \in BOOLEAN : b => owner[l] \in Sql}, rest : BOOLEAN]
Crossed ==
    {r \in [lease : {l \in Leases : owner[l] \in Elsewhere}, of : Elsewhere,
            config : Elsewhere, asRequested : {FALSE}, rest : BOOLEAN] :
        r.of = owner[r.lease] /\ r.config = r.of}

Hear(c, response) ==
    /\ Goes(c, "made", "answered")
    /\ answer' = [answer EXCEPT ![c] = response]
    /\ UNCHANGED <<upstream, expected, made, outcome>>

(* Mutant of CleanupTarget: whatever lease the answer names. *)
NamedLease(c) == answer[c].lease

(* owned_sql_lease_cleanup_target: the lease of the configuration that was *)
(* read, or of one that has taken over its name and type.                  *)
CleanupTarget(c) ==
    LET a == answer[c]
    IN  IF \/ a.of # None /\ a.of = expected[c]
           \/ a.of # None /\ a.config = a.of /\ a.asRequested
          THEN a.lease ELSE None

(* Mutant of Usable: the owner of the lease is not compared. *)
UsableUnbound(c) ==
    LET a == answer[c]
    IN  a.lease # None /\ a.of # None /\ a.config = a.of /\ a.asRequested /\ a.rest

(* Every check between the response and the credentials. *)
Usable(c) ==
    LET a == answer[c]
    IN  /\ a.lease # None /\ a.of = expected[c]
        /\ a.config = expected[c] /\ a.asRequested /\ a.rest

Deliver(c) ==
    /\ Usable(c)
    /\ Ends(c, "answered", "credentials")
    /\ UNCHANGED <<upstream, expected, answer, made>>

(* The lease is not known, or not known to be one of this name. *)
RefuseAnswer(c) ==
    /\ ~Usable(c) /\ CleanupTarget(c) = None
    /\ Ends(c, "answered", "contract")
    /\ UNCHANGED <<upstream, expected, answer, made>>

AskRevocation(c) ==
    /\ ~Usable(c) /\ CleanupTarget(c) # None
    /\ Goes(c, "answered", "revoking")
    /\ UNCHANGED <<upstream, expected, answer, made, outcome>>

(* Infisical revokes the lease; one that is gone it does not find. *)
Revoke(c) ==
    /\ CleanupTarget(c) \in live
    /\ Goes(c, "revoking", "revoked")
    /\ live' = live \ {CleanupTarget(c)}
    /\ UNCHANGED <<named, owner, expected, answer, made, outcome>>

(* The answer to the revocation is read, valid or not. *)
AfterRevocation(c) ==
    /\ Ends(c, "revoked", "contract")
    /\ UNCHANGED <<upstream, expected, answer, made>>

(* Mutant of Fail: a failed revocation does not change the result. *)
FailQuietly(c) ==
    /\ \/ \E from \in {"idle", "sent", "made"} : Ends(c, from, "client")
       \/ \E from \in {"revoking", "revoked"} : Ends(c, from, "contract")
    /\ UNCHANGED <<upstream, expected, answer, made>>

(* A request fails, before or after it has had its effect, or while it is  *)
(* still on its way.                                                       *)
Fail(c) ==
    /\ \E from \in {"idle", "sent", "made", "revoking", "revoked"} :
          Ends(c, from, "client")
    /\ UNCHANGED <<upstream, expected, answer, made>>

(* The future is dropped at one of its awaits. *)
Cancel(c) ==
    /\ \E from \in {"idle", "sent", "made", "revoking", "revoked"} :
          Ends(c, from, "cancelled")
    /\ UNCHANGED <<upstream, expected, answer, made>>

------------------------------------------------------------------------------
(* The last request of a call that failed or was cancelled is performed    *)
(* after all: the lease is made of what has the name by then, or the lease *)
(* that the call wanted to revoke is revoked.                              *)
GivenUp(c) == at[c] = "done" /\ outcome[c] \in {"client", "cancelled"}

MakeLate(c, l) ==
    /\ GivenUp(c) /\ expected[c] # None /\ made[c] = None
    /\ named # None /\ owner[l] = None
    /\ owner' = [owner EXCEPT ![l] = named]
    /\ live' = live \cup {l}
    /\ made' = [made EXCEPT ![c] = l]
    /\ UNCHANGED <<named, at, expected, answer, outcome>>

RevokeLate(c) ==
    /\ GivenUp(c) /\ ~Usable(c) /\ CleanupTarget(c) \in live
    /\ live' = live \ {CleanupTarget(c)}
    /\ UNCHANGED <<named, owner, at, expected, answer, made, outcome>>

------------------------------------------------------------------------------
(* Other clients delete the configuration or give its name to another one. *)
Rename(f) ==
    /\ named' = f
    /\ UNCHANGED <<owner, live, at, expected, answer, made, outcome>>

(* A lease expires, or somebody else revokes it. *)
Expire(l) ==
    /\ live' = live \ {l}
    /\ UNCHANGED <<named, owner, at, expected, answer, made, outcome>>

Step(c) ==
    \/ Read(c) \/ RefuseProvider(c) \/ \E l \in Leases : Make(c, l)
    \/ made[c] # None /\ \E response \in Truth(made[c]) \cup Crossed : Hear(c, response)
    \/ Deliver(c) \/ RefuseAnswer(c) \/ AskRevocation(c) \/ Revoke(c)
    \/ AfterRevocation(c) \/ Fail(c) \/ Cancel(c)
    \/ RevokeLate(c) \/ \E l \in Leases : MakeLate(c, l)

Next ==
    \/ \E c \in Calls : Step(c)
    \/ \E f \in Configs \cup {None} : Rename(f)
    \/ \E l \in Leases : Expire(l)

Spec == Init /\ [][Next]_vars

------------------------------------------------------------------------------
(* Types; a call past its read has read an SQL database. *)
TypeOK ==
    /\ named \in Configs \cup {None}
    /\ owner \in [Leases -> Configs \cup Elsewhere \cup {None}]
    /\ live \subseteq Leases
    /\ at \in [Calls -> Phases]
    /\ expected \in [Calls -> Sql \cup {None}]
    /\ answer \in [Calls -> Responses]
    /\ made \in [Calls -> Leases \cup {None}]
    /\ outcome \in [Calls -> Outcomes]

(* Credentials are handed out only for the lease that this call, and no    *)
(* other, has made, of the very configuration it has read and found to be  *)
(* an SQL database, also when the name has changed hands in between.       *)
CredentialsAreOfTheReadConfig ==
    \A c \in Calls : outcome[c] = "credentials" =>
        /\ answer[c].lease = made[c]
        /\ owner[made[c]] = expected[c] /\ expected[c] \in Sql
        /\ \A d \in Calls \ {c} : made[d] # made[c]

(* "A malformed result owned by that configuration is revoked before the   *)
(* contract error is returned": a call that reports a refused answer has   *)
(* left no working lease of the configuration it has read, unless it could *)
(* not tell which lease it was or whose.                                   *)
RefusedLeaseIsRevoked ==
    \A c \in Calls :
        /\ outcome[c] = "contract"
        /\ answer[c].lease = made[c] /\ answer[c].of = owner[made[c]]
        /\ owner[made[c]] = expected[c]
        => made[c] \notin live

(* "An unrelated returned lease is never touched": a call revokes no lease *)
(* but the one that its own request has made, be it on time or late.       *)
OthersAreNotTouched ==
    [][\A c \in Calls, l \in live \ live' : Revoke(c) \/ RevokeLate(c) => l = made[c]]_vars
==============================================================================

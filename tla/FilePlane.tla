------------------------------ MODULE FilePlane ------------------------------
(***************************************************************************)
(* The secret file plane of infisical-mcp/src/files.rs with its byte       *)
(* budget (files/budget.rs) and the HTTP handlers that drive it            *)
(* (infisical-server/src/server.rs): values staged for one download,       *)
(* values uploaded for one tool call, and the two shared limits, a number  *)
(* of outstanding items and a number of bytes.                             *)
(*                                                                         *)
(* A name is the random token of one value and is never minted twice.      *)
(* Every operation under the state lock is one action, its opening sweep   *)
(* included.  An operation that the plane refuses (unknown reference, bad  *)
(* credential, no capacity) has swept and changed nothing else, which is   *)
(* the action Sweep.                                                       *)
(***************************************************************************)
EXTENDS Integers, FiniteSets, FiniteSetsExt

CONSTANTS
    Names,          \* random tokens that name values
    Requests,       \* tool calls and HTTP requests served concurrently
    NoName,         \* the name of a request that concerns no value
    MaxStaged,      \* FileConfig.max_staged
    MaxBytes,       \* FileConfig.max_staged_bytes
    Envelope,       \* MAX_ENVELOPE_BYTES, what a slot promises
    EnvelopeSizes,  \* sizes of serialized envelopes
    UploadSizes,    \* promised sizes of uploads, at most MAX_UPLOAD_BYTES
    Ttl,            \* FileConfig.ttl, in ticks
    MaxTickets      \* bound: download authorizations per value

ASSUME NamesAssumption ==
    IsFiniteSet(Names) /\ IsFiniteSet(Requests) /\ NoName \notin Names
ASSUME LimitsAssumption ==
    /\ MaxStaged \in Nat /\ MaxBytes \in Nat /\ Envelope \in Nat
    /\ Ttl \in Nat /\ MaxTickets \in Nat
    /\ EnvelopeSizes \subseteq 0..Envelope
    /\ UploadSizes \subseteq Nat

VARIABLES
    entry,      \* the maps of PlaneState: where each name is, its
                \*   reservation, age and current download ticket
    reserved,   \* PlaneState.reserved
    used,       \* ByteBudget.used
    req,        \* what each request holds
    minted,     \* names already used
    issued,     \* history: download tickets issued for each name
    redeemed    \* history: how often each name's bytes were handed out

vars == <<entry, reserved, used, req, minted, issued, redeemed>>

(* The map a name is in: staged, uploads, received or none. *)
Places == {"absent", "staged", "ticket", "received"}
Absent == [at |-> "absent", bytes |-> 0, age |-> 0, ticket |-> 0]

(* A request may own a StageSlot, an UploadClaim, the TransferBytes of a   *)
(* response body, or a reservation whose slot or claim was just released.  *)
Holdings == {"nothing", "slot", "claim", "body", "unwinding"}
Nothing == [holds |-> "nothing", name |-> NoName, bytes |-> 0, ticket |-> 0]

------------------------------------------------------------------------------
(* sweep_locked: what every operation finds once the sweep has run. *)

(* Mutant of Expired: only staged values are swept. *)
ExpiredIfStaged(n) == entry[n].at = "staged" /\ entry[n].age > Ttl

Expired(n) == entry[n].at # "absent" /\ entry[n].age > Ttl

(* Mutant of SweptEntry: operations rely on the periodic sweeper. *)
UnsweptEntry == entry

SweptEntry == [n \in Names |-> IF Expired(n) THEN Absent ELSE entry[n]]

(* Dropping a swept entry returns its reservation to the budget. *)
SweptUsed == used - MapThenSumSet(LAMBDA n : entry[n].bytes,
                                  {n \in Names : Expired(n)})

(* Mutant of Outstanding: slots that are only promised are not counted. *)
OutstandingInMaps == Cardinality({n \in Names : SweptEntry[n].at # "absent"})

(* outstanding, as an operation sees it after its sweep. *)
Outstanding ==
    Cardinality({n \in Names : SweptEntry[n].at # "absent"}) + reserved

HasRoom == Outstanding < MaxStaged

(* Mutant of Fits: the limit is tested before the addition. *)
FitsBefore(bytes) == SweptUsed < MaxBytes

(* ByteBudget::reserve *)
Fits(bytes) == SweptUsed + bytes <= MaxBytes

(* usize::saturating_sub(1) *)
OneLess(n) == IF n > 0 THEN n - 1 ELSE 0

Holding(what, n, bytes, t) ==
    [holds |-> what, name |-> n, bytes |-> bytes, ticket |-> t]

HeldAs(what, r) == req[r].holds = what

------------------------------------------------------------------------------
Init ==
    /\ entry = [n \in Names |-> Absent]
    /\ reserved = 0
    /\ used = 0
    /\ req = [r \in Requests |-> Nothing]
    /\ minted = {}
    /\ issued = [n \in Names |-> 0]
    /\ redeemed = [n \in Names |-> 0]

(* run_sweeper, and any operation that is refused after its sweep. *)
Sweep ==
    /\ entry' = SweptEntry
    /\ used' = SweptUsed
    /\ UNCHANGED <<reserved, req, minted, issued, redeemed>>

(* reserve: a tool call promises itself a place before it acts upstream. *)
Reserve(r) ==
    /\ HeldAs("nothing", r)
    /\ HasRoom
    /\ Fits(Envelope)
    /\ entry' = SweptEntry
    /\ used' = SweptUsed + Envelope
    /\ reserved' = reserved + 1
    /\ req' = [req EXCEPT ![r] = Holding("slot", NoName, Envelope, 0)]
    /\ UNCHANGED <<minted, issued, redeemed>>

(* Mutant of Stage: the unused part of the promise is not returned. *)
StageKeepsPromise(r, n, size) ==
    /\ HeldAs("slot", r)
    /\ n \notin minted
    /\ entry' = [entry EXCEPT ![n] =
                   [at |-> "staged", bytes |-> size, age |-> 0, ticket |-> 0]]
    /\ reserved' = OneLess(reserved)
    /\ req' = [req EXCEPT ![r] = Nothing]
    /\ minted' = minted \cup {n}
    /\ UNCHANGED <<used, issued, redeemed>>

(* stage: the slot becomes an entry of the size that is really needed.     *)
(* There is no sweep here, and nothing to refuse.                          *)
Stage(r, n, size) ==
    /\ HeldAs("slot", r)
    /\ n \notin minted
    /\ entry' = [entry EXCEPT ![n] =
                   [at |-> "staged", bytes |-> size, age |-> 0, ticket |-> 0]]
    /\ reserved' = OneLess(reserved)
    /\ used' = used - (req[r].bytes - size)
    /\ req' = [req EXCEPT ![r] = Nothing]
    /\ minted' = minted \cup {n}
    /\ UNCHANGED <<issued, redeemed>>

(* Mutant of Release: the bytes are returned here and again afterwards. *)
ReleaseReturnsBytes(r) ==
    /\ HeldAs("slot", r) \/ HeldAs("claim", r)
    /\ reserved' = OneLess(reserved)
    /\ used' = used - req[r].bytes
    /\ req' = [req EXCEPT ![r] = Holding("unwinding", NoName, req[r].bytes, 0)]
    /\ UNCHANGED <<entry, minted, issued, redeemed>>

(* Drop of an unused slot, or of a claim whose body was cut short, was too *)
(* long or did not match its size or digest: first the count is released   *)
(* under the lock, then the reservation returns its bytes.                 *)
Release(r) ==
    /\ HeldAs("slot", r) \/ HeldAs("claim", r)
    /\ reserved' = OneLess(reserved)
    /\ req' = [req EXCEPT ![r] = Holding("unwinding", NoName, req[r].bytes, 0)]
    /\ UNCHANGED <<entry, used, minted, issued, redeemed>>

(* The reservation of a released request, or of a response body that the   *)
(* transport has dropped, is returned.                                     *)
ReturnBytes(r) ==
    /\ HeldAs("unwinding", r) \/ HeldAs("body", r)
    /\ used' = used - req[r].bytes
    /\ req' = [req EXCEPT ![r] = Nothing]
    /\ UNCHANGED <<entry, reserved, minted, issued, redeemed>>

(* Mutant of AuthorizeDownload: an existing ticket is kept. *)
FirstTicketStays(n) ==
    /\ SweptEntry[n].at = "staged"
    /\ issued[n] < MaxTickets
    /\ entry' = [SweptEntry EXCEPT ![n].ticket = IF @ = 0 THEN issued[n] + 1 ELSE @]
    /\ issued' = [issued EXCEPT ![n] = @ + 1]
    /\ used' = SweptUsed
    /\ UNCHANGED <<reserved, req, minted, redeemed>>

(* authorize_download: a new ticket takes the place of the old one. *)
AuthorizeDownload(n) ==
    /\ SweptEntry[n].at = "staged"
    /\ issued[n] < MaxTickets
    /\ entry' = [SweptEntry EXCEPT ![n].ticket = issued[n] + 1]
    /\ issued' = [issued EXCEPT ![n] = @ + 1]
    /\ used' = SweptUsed
    /\ UNCHANGED <<reserved, req, minted, redeemed>>

(* Mutant of Serve: the envelope is copied out and stays staged. *)
ServeACopy(r, n, t) ==
    /\ HeldAs("nothing", r)
    /\ SweptEntry[n].at = "staged"
    /\ SweptEntry[n].ticket = t
    /\ entry' = SweptEntry
    /\ used' = SweptUsed + entry[n].bytes
    /\ req' = [req EXCEPT ![r] = Holding("body", n, entry[n].bytes, t)]
    /\ redeemed' = [redeemed EXCEPT ![n] = @ + 1]
    /\ UNCHANGED <<reserved, minted, issued>>

(* serve: a GET presents ticket t, current or not; the right one takes the *)
(* envelope out, and its bytes stay charged while the body is sent.        *)
Serve(r, n, t) ==
    /\ HeldAs("nothing", r)
    /\ SweptEntry[n].at = "staged"
    /\ SweptEntry[n].ticket = t
    /\ entry' = [SweptEntry EXCEPT ![n] = Absent]
    /\ used' = SweptUsed
    /\ req' = [req EXCEPT ![r] = Holding("body", n, entry[n].bytes, t)]
    /\ redeemed' = [redeemed EXCEPT ![n] = @ + 1]
    /\ UNCHANGED <<reserved, minted, issued>>

(* authorize_upload: the promised size, or the ceiling when none is given. *)
AuthorizeUpload(n, promised) ==
    /\ n \notin minted
    /\ HasRoom
    /\ Fits(promised)
    /\ entry' = [SweptEntry EXCEPT ![n] =
                   [at |-> "ticket", bytes |-> promised, age |-> 0, ticket |-> 0]]
    /\ used' = SweptUsed + promised
    /\ minted' = minted \cup {n}
    /\ UNCHANGED <<reserved, req, issued, redeemed>>

(* Mutant of Claim: the ticket's place is not kept while the body arrives. *)
ClaimUncounted(r, n) ==
    /\ HeldAs("nothing", r)
    /\ SweptEntry[n].at = "ticket"
    /\ entry' = [SweptEntry EXCEPT ![n] = Absent]
    /\ used' = SweptUsed
    /\ req' = [req EXCEPT ![r] = Holding("claim", n, entry[n].bytes, 0)]
    /\ UNCHANGED <<reserved, minted, issued, redeemed>>

(* claim_upload: the authorization is spent before any byte is read. *)
Claim(r, n) ==
    /\ HeldAs("nothing", r)
    /\ SweptEntry[n].at = "ticket"
    /\ entry' = [SweptEntry EXCEPT ![n] = Absent]
    /\ used' = SweptUsed
    /\ reserved' = reserved + 1
    /\ req' = [req EXCEPT ![r] = Holding("claim", n, entry[n].bytes, 0)]
    /\ UNCHANGED <<minted, issued, redeemed>>

(* complete: receive_upload's buffer has the promised capacity, so nothing *)
(* of the reservation is returned yet.                                     *)
Complete(r) ==
    /\ HeldAs("claim", r)
    /\ entry' = [entry EXCEPT ![req[r].name] =
                   [at |-> "received", bytes |-> req[r].bytes, age |-> 0, ticket |-> 0]]
    /\ reserved' = OneLess(reserved)
    /\ req' = [req EXCEPT ![r] = Nothing]
    /\ UNCHANGED <<used, minted, issued, redeemed>>

(* take_received: a tool call redeems an upload; it is no longer charged. *)
TakeReceived(n) ==
    /\ SweptEntry[n].at = "received"
    /\ entry' = [SweptEntry EXCEPT ![n] = Absent]
    /\ used' = SweptUsed - entry[n].bytes
    /\ redeemed' = [redeemed EXCEPT ![n] = @ + 1]
    /\ UNCHANGED <<reserved, req, minted, issued>>

Tick ==
    /\ entry' = [n \in Names |->
                   IF entry[n].at # "absent" /\ entry[n].age <= Ttl
                     THEN [entry[n] EXCEPT !.age = @ + 1] ELSE entry[n]]
    /\ UNCHANGED <<reserved, used, req, minted, issued, redeemed>>

Next ==
    \/ Sweep
    \/ Tick
    \/ \E n \in Names : \/ AuthorizeDownload(n) \/ TakeReceived(n)
                        \/ \E size \in UploadSizes : AuthorizeUpload(n, size)
    \/ \E r \in Requests :
          \/ Reserve(r) \/ Release(r) \/ ReturnBytes(r) \/ Complete(r)
          \/ \E n \in Names :
                \/ Claim(r, n)
                \/ \E size \in EnvelopeSizes : Stage(r, n, size)
                \/ \E t \in 1..MaxTickets : Serve(r, n, t)

Spec == Init /\ [][Next]_vars

(* Time passes, the sweeper's interval fires, a request ends one way or    *)
(* another (the request timeout layer) and drops what it holds.            *)
Fairness ==
    /\ WF_vars(Tick)
    /\ WF_vars(Sweep)
    /\ \A r \in Requests : WF_vars(Release(r)) /\ WF_vars(ReturnBytes(r))

FairSpec == Spec /\ Fairness

------------------------------------------------------------------------------
TypeOK ==
    /\ entry \in [Names -> [at : Places, bytes : Nat, age : 0..(Ttl + 1),
                            ticket : 0..MaxTickets]]
    /\ reserved \in Nat
    /\ used \in Nat
    /\ req \in [Requests -> [holds : Holdings, name : Names \cup {NoName},
                             bytes : Nat, ticket : 0..MaxTickets]]
    /\ minted \subseteq Names
    /\ issued \in [Names -> 0..MaxTickets]
    /\ redeemed \in [Names -> Nat]

Promised == {r \in Requests : req[r].holds \in {"slot", "claim"}}
Present == {n \in Names : entry[n].at # "absent"}

(* The reserved count, kept by increments, saturating decrements and drop  *)
(* flags, is exactly the number of live slots and claims: none is released *)
(* twice and none leaks.                                                   *)
ReservedIsExact == reserved = Cardinality(Promised)

(* Slots, claims, tickets, staged and received values together never       *)
(* exceed the ceiling, whatever is converted into what: a stage or an      *)
(* upload that was promised a place never has to be refused.               *)
CeilingHolds == Cardinality(Present) + Cardinality(Promised) <= MaxStaged

(* The plane never promises a place that it does not have, and never loses *)
(* one: what stage and claim rely on without looking again.                *)
PlacesAreAccounted == ReservedIsExact /\ CeilingHolds

(* The budget is charged exactly what entries, promises, bodies still      *)
(* being sent and reservations not yet dropped account for.                *)
BudgetIsExact ==
    used = MapThenSumSet(LAMBDA n : entry[n].bytes, Names)
             + MapThenSumSet(LAMBDA r : req[r].bytes, Requests)

(* The memory the plane answers for stays within the configured bytes.     *)
BudgetHolds == used <= MaxBytes

(* The bytes that are charged are those that are kept, and fit the limit.  *)
BytesAreAccounted == BudgetIsExact /\ BudgetHolds

(* The bytes of one name are handed out at most once: to one download, or, *)
(* for an upload, to one tool call.                                        *)
RedeemedAtMostOnce == \A n \in Names : redeemed[n] <= 1

(* A download in progress was authorized by the newest ticket: a new       *)
(* authorization ends the authority of every earlier descriptor.           *)
OnlyNewestTicketServes ==
    \A r \in Requests : req[r].holds = "body" =>
        req[r].ticket = issued[req[r].name]

(* One name is redeemed once, and only by whoever was authorized last.     *)
TicketsServeOnce == RedeemedAtMostOnce /\ OnlyNewestTicketServes

(* Nothing older than the TTL is handed out or accepted, however late the  *)
(* sweeper runs.                                                           *)
NothingStaleIsUsed ==
    [][\A n \in Names :
          /\ redeemed'[n] > redeemed[n] => entry[n].age <= Ttl
          /\ issued'[n] > issued[n] => entry[n].age <= Ttl
          /\ (\E r \in Requests : req[r].holds # "claim" /\ req'[r].holds = "claim"
                                     /\ req'[r].name = n) => entry[n].age <= Ttl]_vars

(* What is never fetched, named or completed is eventually given up: the   *)
(* plane cannot fill up for good.                                          *)
EveryEntryGoes ==
    \A n \in Names : entry[n].at # "absent" ~> entry[n].at = "absent"
==============================================================================

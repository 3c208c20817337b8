------------------------------ MODULE ToolCall ------------------------------
(***************************************************************************)
(* One executor call of infisical-mcp/src/tools.rs from its arguments to   *)
(* its reply, over the file plane: the slots it reserves before it acts,   *)
(* the upload it spends, the one upstream action, the values it stages,    *)
(* the size limit on its result and the error facts of                     *)
(* infisical-mcp/src/execution_error.rs.                                   *)
(*                                                                         *)
(* The resource operations of infisical-api are one step here: preflight   *)
(* reads, one action upstream, verification of the answer.  A call waits   *)
(* (and can be cancelled) only in those steps; everything before and after *)
(* them runs without an await, interleaved with other threads.             *)
(***************************************************************************)
EXTENDS Integers, FiniteSets

CONSTANTS
    Calls,          \* executor calls
    Transfers,      \* GET and POST requests on the file routes
    Operations,     \* [tier, material, upload]: what an operation is declared
                    \*   as, whether it can return secret material, whether
                    \*   it spends an uploaded value
    Names,          \* bound: tokens that name values
    NoName,
    MaxStaged, MaxBytes, Envelope, EnvelopeSizes, UploadSizes, Ttl, MaxTickets

Tiers == {"read", "readAudited", "write", "destroy"}

(* No handler both redeems an upload and returns secret material. *)
ASSUME OperationsAssumption ==
    /\ Operations \subseteq [tier : Tiers, material : BOOLEAN, upload : BOOLEAN]
    /\ \A op \in Operations : ~(op.material /\ op.upload)

VARIABLES
    entry, reserved, used, req, minted, issued, redeemed,  \* FilePlane
    at,      \* the await or the line a call has reached
    args,    \* its operation and its two delivery choices
    mark,    \* what its final action left upstream: a change made or an
             \*   access recorded (observations of preflight reads, which
             \*   error facts report separately, are not counted)
    spent,   \* the upload it consumed
    secret,  \* the value its secret material was staged as
    reply    \* what its caller is told

planeVars == <<entry, reserved, used, req, minted, issued, redeemed>>
callVars == <<at, args, mark, spent, secret, reply>>
vars == <<planeVars, callVars>>

(* The stack slots of a call: result_slot of dispatch_executor and the     *)
(* disposition of the operation's own handler.                             *)
Slots == Calls \X {"result", "secret"}
Result(c) == <<c, "result">>
Secret(c) == <<c, "secret">>

Holders == Slots \cup Transfers
Plane == INSTANCE FilePlane WITH Requests <- Holders

ASSUME HoldersAssumption == Slots \cap Transfers = {}
ASSUME PlaneAssumption ==
    /\ IsFiniteSet(Names) /\ IsFiniteSet(Holders) /\ NoName \notin Names
    /\ MaxStaged \in Nat /\ MaxBytes \in Nat /\ Envelope \in Nat
    /\ Ttl \in Nat /\ MaxTickets \in Nat
    /\ EnvelopeSizes \subseteq 0..Envelope /\ UploadSizes \subseteq Nat

Phases == {"idle", "received", "dispatched", "prepared", "sent", "acted",
           "verified", "built", "closing", "done"}
Kinds == {"none", "ok", "capacity", "refused", "unknown", "oversized", "cancelled"}
Says(kind) == [kind |-> kind, retry |-> FALSE, refs |-> {}]
NoReply == Says("none")
Gives(names) == [kind |-> "ok", retry |-> FALSE, refs |-> names]
Arguments == [op : Operations, file : BOOLEAN, inline : BOOLEAN]

Holds(slot, what) == req[slot].holds = what
NamesLeft == Names \ minted # {}
NewName == CHOOSE n \in Names \ minted : TRUE

Init ==
    /\ Plane!Init
    /\ at = [c \in Calls |-> "idle"]
    /\ args \in [Calls -> Arguments]
    /\ mark = [c \in Calls |-> 0]
    /\ spent = [c \in Calls |-> NoName]
    /\ secret = [c \in Calls |-> NoName]
    /\ reply = [c \in Calls |-> NoReply]

------------------------------------------------------------------------------
Goes(c, from, to) == at[c] = from /\ at' = [at EXCEPT ![c] = to]

(* The call has its reply and only its slots are left to drop. *)
Replies(c, from, answer) ==
    /\ Goes(c, from, "closing")
    /\ reply' = [reply EXCEPT ![c] = answer]

SamePlane == UNCHANGED planeVars

(* dispatch_executor after the checks on name and tier. *)
Receive(c) ==
    /\ Goes(c, "idle", IF args[c].file THEN "received" ELSE "dispatched")
    /\ SamePlane
    /\ UNCHANGED <<args, mark, spent, secret, reply>>

(* An operation of another tier, or one this build does not serve. *)
RefuseTier(c) ==
    /\ Replies(c, "idle", Says("refused"))
    /\ SamePlane
    /\ UNCHANGED <<args, mark, spent, secret>>

(* reserve_result_delivery *)
ReserveResult(c) ==
    /\ Goes(c, "received", "dispatched")
    /\ Plane!Reserve(Result(c))
    /\ UNCHANGED <<args, mark, spent, secret, reply>>

NoCapacity == ~(Plane!HasRoom /\ Plane!Fits(Envelope))

(* Mutant of RefuseResult: the place is looked for once more before the    *)
(* request is sent.                                                        *)
RefuseResultLate(c) ==
    /\ args[c].file
    /\ NoCapacity
    /\ \/ Replies(c, "received", Says("capacity"))
       \/ Replies(c, "prepared", Says("capacity"))
    /\ Plane!Sweep
    /\ UNCHANGED <<args, mark, spent, secret>>

(* capacity_before_execution *)
RefuseResult(c) ==
    /\ NoCapacity
    /\ Replies(c, "received", Says("capacity"))
    /\ Plane!Sweep
    /\ UNCHANGED <<args, mark, spent, secret>>

(* parse_arguments and the checks of the handler's into_parts. *)
RefuseArguments(c) ==
    /\ Replies(c, "dispatched", Says("refused"))
    /\ SamePlane
    /\ UNCHANGED <<args, mark, spent, secret>>

(* Mutant of NeedsSlot: only issuances are promised a place. *)
NeedsSlotForIssuance(c) ==
    /\ args[c].op.material /\ ~args[c].inline
    /\ args[c].op.tier = "write"

NeedsSlot(c) == args[c].op.material /\ ~args[c].inline

(* resolve_delivery, reference *)
ReserveSecret(c) ==
    /\ NeedsSlot(c)
    /\ Goes(c, "dispatched", "prepared")
    /\ Plane!Reserve(Secret(c))
    /\ UNCHANGED <<args, mark, spent, secret, reply>>

(* Mutant of RefuseSecret: the call waits for a place instead. *)
WaitForPlace(c) == FALSE

RefuseSecret(c) ==
    /\ NeedsSlot(c)
    /\ NoCapacity
    /\ Replies(c, "dispatched", Says("capacity"))
    /\ Plane!Sweep
    /\ UNCHANGED <<args, mark, spent, secret>>

(* Nothing to reserve and nothing to redeem. *)
Prepare(c) ==
    /\ ~NeedsSlot(c) /\ ~args[c].op.upload
    /\ Goes(c, "dispatched", "prepared")
    /\ SamePlane
    /\ UNCHANGED <<args, mark, spent, secret, reply>>

(* resolve_secret_value: the uploaded value is moved out of the plane. *)
TakeUpload(c, n) ==
    /\ args[c].op.upload
    /\ Goes(c, "dispatched", "prepared")
    /\ Plane!TakeReceived(n)
    /\ spent' = [spent EXCEPT ![c] = n]
    /\ UNCHANGED <<args, mark, secret, reply>>

(* No value is received under that reference. *)
RefuseUpload(c) ==
    /\ args[c].op.upload
    /\ Replies(c, "dispatched", Says("refused"))
    /\ Plane!Sweep
    /\ UNCHANGED <<args, mark, spent, secret>>

------------------------------------------------------------------------------
(* A missing confirmation, a value refused by the client, or the preflight *)
(* of a bulk operation: the final action is known not to be sent.          *)
RefuseLocally(c) ==
    /\ Replies(c, "prepared", Says("refused"))
    /\ SamePlane
    /\ UNCHANGED <<args, mark, spent, secret>>

(* A preflight read fails or contradicts the request.  The error does not  *)
(* say which step it came from, and so promises nothing.                   *)
PreflightFails(c) ==
    /\ Replies(c, "prepared", Says("unknown"))
    /\ SamePlane
    /\ UNCHANGED <<args, mark, spent, secret>>

Send(c) ==
    /\ Goes(c, "prepared", "sent")
    /\ SamePlane
    /\ UNCHANGED <<args, mark, spent, secret, reply>>

(* Infisical acts: it changes a resource or records the access. *)
Act(c) ==
    /\ Goes(c, "sent", "acted")
    /\ mark' = [mark EXCEPT ![c] = IF args[c].op.tier = "read" THEN @ ELSE @ + 1]
    /\ SamePlane
    /\ UNCHANGED <<args, spent, secret, reply>>

(* Infisical refuses, or the request is lost. *)
Reject(c) ==
    /\ Replies(c, "sent", Says("unknown"))
    /\ SamePlane
    /\ UNCHANGED <<args, mark, spent, secret>>

(* Mutant of LoseAnswer: the request is sent again. *)
SendAgain(c) ==
    /\ Goes(c, "acted", "prepared")
    /\ SamePlane
    /\ UNCHANGED <<args, mark, spent, secret, reply>>

(* The answer is lost, too large, or does not match the request. *)
LoseAnswer(c) ==
    /\ Replies(c, "acted", Says("unknown"))
    /\ SamePlane
    /\ UNCHANGED <<args, mark, spent, secret>>

Verify(c) ==
    /\ Goes(c, "acted", "verified")
    /\ SamePlane
    /\ UNCHANGED <<args, mark, spent, secret, reply>>

(* The caller goes away or the request timeout passes during an await. *)
Cancel(c) ==
    /\ \E p \in {"prepared", "sent", "acted"} : Replies(c, p, Says("cancelled"))
    /\ SamePlane
    /\ UNCHANGED <<args, mark, spent, secret>>

------------------------------------------------------------------------------
(* Mutant of StageSecret: the value is added without giving up the slot. *)
StageWithoutSlot(c, size) ==
    /\ Holds(Secret(c), "slot") /\ NamesLeft
    /\ Goes(c, "verified", "built")
    /\ entry' = [entry EXCEPT ![NewName] =
                   [at |-> "staged", bytes |-> size, age |-> 0, ticket |-> 0]]
    /\ minted' = minted \cup {NewName}
    /\ secret' = [secret EXCEPT ![c] = NewName]
    /\ UNCHANGED <<reserved, used, req, issued, redeemed, args, mark, spent, reply>>

(* SecretDisposition::stage *)
StageSecret(c, size) ==
    /\ Holds(Secret(c), "slot") /\ NamesLeft
    /\ Goes(c, "verified", "built")
    /\ Plane!Stage(Secret(c), NewName, size)
    /\ secret' = [secret EXCEPT ![c] = NewName]
    /\ UNCHANGED <<args, mark, spent, reply>>

(* Inline delivery, or an answer without secret material. *)
Build(c) ==
    /\ Goes(c, "verified", "built")
    /\ SamePlane
    /\ UNCHANGED <<args, mark, spent, secret, reply>>

(* Mutant of FailToBuild: an envelope is smaller than what one response of *)
(* Infisical can hold.                                                     *)
FailWithMaterial(c) ==
    /\ \/ Replies(c, "verified", Says("unknown"))
       \/ args[c].file /\ Replies(c, "built", Says("unknown"))
    /\ SamePlane
    /\ UNCHANGED <<args, mark, spent, secret>>

(* secret_envelope or the serialization of a result fails, after the       *)
(* action: the handler's before its material is staged, the executor's on  *)
(* a whole result above the ceiling of an envelope.  Material comes from   *)
(* one response of Infisical, and such a result fits (the assertion on     *)
(* MAX_ENVELOPE_BYTES); a collection can outgrow it.                       *)
FailToBuild(c) ==
    /\ \/ Replies(c, "verified", Says("unknown"))
       \/ args[c].file /\ ~args[c].op.material /\ Replies(c, "built", Says("unknown"))
    /\ SamePlane
    /\ UNCHANGED <<args, mark, spent, secret>>

(* surviving_secret_references *)
References(c) == {secret[c]} \ {NoName}

(* deliver_result_as_file: the caller gets the wrapper with the reference  *)
(* of the result, in which the secretFile references are found.  With two  *)
(* identifiers of 128 bytes at most, a wrapper is never oversized.         *)
WrapResult(c, size) ==
    /\ args[c].file /\ Holds(Secret(c), "nothing") /\ NamesLeft
    /\ Plane!Stage(Result(c), NewName, size)
    /\ Replies(c, "built", Gives({NewName}))
    /\ UNCHANGED <<args, mark, spent, secret>>

(* enforce_result_budget, below the limit *)
ReturnInline(c) ==
    /\ ~args[c].file /\ Holds(Secret(c), "nothing")
    /\ Replies(c, "built", Gives(References(c)))
    /\ SamePlane
    /\ UNCHANGED <<args, mark, spent, secret>>

(* Mutant of MayRetry: every operation that changes nothing may be retried. *)
MayRetryReads(c) == args[c].op.tier \in {"read", "readAudited"}

(* oversized_result_advice *)
MayRetry(c) == args[c].op.tier = "read"

(* Mutant of ReturnOversized: the error takes the place of the result. *)
ReturnOnlyError(c) ==
    /\ ~args[c].file /\ Holds(Secret(c), "nothing")
    /\ Replies(c, "built", [kind |-> "oversized", retry |-> MayRetry(c), refs |-> {}])
    /\ SamePlane
    /\ UNCHANGED <<args, mark, spent, secret>>

(* enforce_result_budget, above the limit *)
ReturnOversized(c) ==
    /\ ~args[c].file /\ Holds(Secret(c), "nothing")
    /\ Replies(c, "built", [kind |-> "oversized", retry |-> MayRetry(c),
                            refs |-> References(c)])
    /\ SamePlane
    /\ UNCHANGED <<args, mark, spent, secret>>

(* Unused slots are dropped: the handler's when the handler returns, the   *)
(* executor's with the rest of the call.                                   *)
DropSlot(slot) ==
    /\ at[slot[1]] \in (IF slot[2] = "secret" THEN {"built", "closing"} ELSE {"closing"})
    /\ Plane!Release(slot) \/ Plane!ReturnBytes(slot)
    /\ UNCHANGED callVars

(* Mutant of Answer: only the handler's slot is dropped. *)
AnswerHoldingSlot(c) ==
    /\ Goes(c, "closing", "done")
    /\ Holds(Secret(c), "nothing")
    /\ SamePlane
    /\ UNCHANGED <<args, mark, spent, secret, reply>>

Answer(c) ==
    /\ Goes(c, "closing", "done")
    /\ Holds(Secret(c), "nothing") /\ Holds(Result(c), "nothing")
    /\ SamePlane
    /\ UNCHANGED <<args, mark, spent, secret, reply>>

------------------------------------------------------------------------------
(* The plane's other users: downloads, uploads, the sweeper and the clock. *)
Transfer(r) ==
    /\ \/ Plane!Release(r) \/ Plane!ReturnBytes(r) \/ Plane!Complete(r)
       \/ \E n \in Names : \/ Plane!Claim(r, n)
                           \/ \E t \in 1..MaxTickets : Plane!Serve(r, n, t)
    /\ UNCHANGED callVars

Authorize ==
    /\ \/ \E n \in Names : Plane!AuthorizeDownload(n)
       \/ NamesLeft /\ \E size \in UploadSizes : Plane!AuthorizeUpload(NewName, size)
    /\ UNCHANGED callVars

Tick == Plane!Tick /\ UNCHANGED callVars

Sweep == Plane!Sweep /\ UNCHANGED callVars

(* What a call with valid arguments does before its request. *)
Proceed(c) ==
    \/ ReserveResult(c) \/ RefuseResult(c)
    \/ ReserveSecret(c) \/ RefuseSecret(c) \/ Prepare(c)
    \/ RefuseUpload(c) \/ \E n \in Names : TakeUpload(c, n)

Before(c) == RefuseArguments(c) \/ Proceed(c)

Upstream(c) ==
    \/ RefuseLocally(c) \/ PreflightFails(c) \/ Send(c) \/ Act(c) \/ Reject(c)
    \/ LoseAnswer(c) \/ Verify(c) \/ Cancel(c)

After(c) ==
    \/ Build(c) \/ FailToBuild(c) \/ ReturnInline(c) \/ ReturnOversized(c) \/ Answer(c)
    \/ \E size \in EnvelopeSizes : StageSecret(c, size) \/ WrapResult(c, size)
    \/ DropSlot(Secret(c)) \/ DropSlot(Result(c))

Next ==
    \/ \E c \in Calls : Receive(c) \/ RefuseTier(c) \/ Before(c) \/ Upstream(c) \/ After(c)
    \/ \E r \in Transfers : Transfer(r)
    \/ Authorize \/ Tick \/ Sweep

Spec == Init /\ [][Next]_vars

(* A call that was received runs; its upstream request ends at the latest  *)
(* with the client's timeout.  Nobody has to upload, download or wait, and  *)
(* no arguments have to be wrong.                                          *)
Fairness == \A c \in Calls : WF_vars(Proceed(c)) /\ WF_vars(Upstream(c)) /\ WF_vars(After(c))

FairSpec == Spec /\ Fairness

------------------------------------------------------------------------------
(* Every variable has its type, and no call leaves more than one mark      *)
(* upstream: nothing is sent twice.                                        *)
TypeOK ==
    /\ Plane!TypeOK
    /\ at \in [Calls -> Phases]
    /\ args \in [Calls -> Arguments]
    /\ mark \in [Calls -> 0..1]
    /\ spent \in [Calls -> Names \cup {NoName}]
    /\ secret \in [Calls -> Names \cup {NoName}]
    /\ reply \in [Calls -> [kind : Kinds, retry : BOOLEAN, refs : SUBSET Names]]

(* A caller who is told that the action was not started, or that the call  *)
(* may be retried, has a final action that left nothing upstream: advice   *)
(* never leads to a change or a recorded access being repeated.            *)
NothingInvitesReplay ==
    \A c \in Calls :
        reply[c].kind \in {"capacity", "refused"} \/ reply[c].retry => mark[c] = 0

(* A call refused for lack of a place has also kept its upload: the same   *)
(* request can be made again when a place is free.                         *)
CapacityCostsNothing ==
    \A c \in Calls : reply[c].kind = "capacity" => mark[c] = 0 /\ spent[c] = NoName

(* What a reply says of the effect of the call, and of the cost of trying  *)
(* again, is so.                                                           *)
RepliesAreTrue == NothingInvitesReplay /\ CapacityCostsNothing

(* From the moment the request can reach Infisical until its material is   *)
(* staged, a call owns the places it will need.                            *)
PlacesAreKept ==
    \A c \in Calls : at[c] \in {"sent", "acted", "verified"} =>
        /\ args[c].op.material /\ ~args[c].inline => Holds(Secret(c), "slot")
        /\ args[c].file => Holds(Result(c), "slot")

(* What was staged for a caller is named in its reply, whether the result  *)
(* went inline, into a file, or was too large to return.                   *)
StagedIsNamed ==
    \A c \in Calls : at[c] \in {"closing", "done"} /\ secret[c] # NoName =>
        IF args[c].file THEN reply[c].refs \ {secret[c]} # {}
                        ELSE secret[c] \in reply[c].refs

(* A finished call holds no place, however it ended. *)
SlotsEndWithCall ==
    \A c \in Calls : at[c] \in {"idle", "done"} =>
        Holds(Secret(c), "nothing") /\ Holds(Result(c), "nothing")

(* The places of a call are there when it needs them, and free after it.   *)
SlotsFollowTheCall == PlacesAreKept /\ SlotsEndWithCall

(* Calls use the plane only as FilePlane allows. *)
PlaneSpec == Plane!Spec

(* A call that has been received is answered: it never waits for a place   *)
(* that another call holds.                                                *)
EveryCallEnds == \A c \in Calls : at[c] \in {"received", "dispatched"} ~> at[c] = "done"
==============================================================================

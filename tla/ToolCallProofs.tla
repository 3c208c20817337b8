--------------------------- MODULE ToolCallProofs ---------------------------
(***************************************************************************)
(* Proofs about ToolCall: no advice repeats an effect, the places of a     *)
(* call are its own until it ends, calls use the plane as FilePlane        *)
(* allows, and a call that was let in never waits for a place.             *)
(***************************************************************************)
EXTENDS ToolCall, TLAPS

(* What a call left upstream, by how far it has come. *)
CallTypes ==
    /\ at \in [Calls -> Phases]
    /\ args \in [Calls -> Arguments]
    /\ mark \in [Calls -> 0..1]
    /\ spent \in [Calls -> Names \cup {NoName}]
    /\ reply \in [Calls -> [kind : Kinds, retry : BOOLEAN, refs : SUBSET Names]]
    /\ secret \in [Calls -> Names \cup {NoName}]

NothingBefore ==
    \A c \in Calls :
        /\ at[c] \in {"idle", "received", "dispatched", "prepared", "sent"} => mark[c] = 0
        /\ args[c].op.tier = "read" => mark[c] = 0

UnspentBefore ==
    \A c \in Calls : at[c] \in {"idle", "received", "dispatched"} => spent[c] = NoName

NoReplyBefore ==
    \A c \in Calls : at[c] \notin {"closing", "done"} => reply[c] = NoReply

CallInv ==
    /\ CallTypes /\ NothingBefore /\ UnspentBefore /\ NoReplyBefore
    /\ NothingInvitesReplay /\ CapacityCostsNothing

LEMMA InitCallInv == Init => CallInv
BY OperationsAssumption
   DEF Init, CallInv, CallTypes, NothingBefore, UnspentBefore, NoReplyBefore,
       NothingInvitesReplay, CapacityCostsNothing, Phases, Kinds, NoReply, Says

(* One step of a call, seen without the plane. *)
LEMMA NextCallInv == CallInv /\ [Next]_vars => CallInv'
<1> SUFFICES ASSUME CallInv, [Next]_vars PROVE CallInv'
    OBVIOUS
<1> USE OperationsAssumption
    DEF CallInv, CallTypes, NothingBefore, UnspentBefore, NoReplyBefore,
        NothingInvitesReplay, CapacityCostsNothing, Phases, Kinds, NoReply, Says, Gives,
        Goes, Replies, Arguments
<1>1. ASSUME NEW c \in Calls, Receive(c) PROVE CallInv'
    BY <1>1 DEF Receive
<1>2. ASSUME NEW c \in Calls, RefuseTier(c) PROVE CallInv'
    BY <1>2 DEF RefuseTier
<1>3. ASSUME NEW c \in Calls, Before(c) PROVE CallInv'
    <2>1. CASE ReserveResult(c)
        BY <2>1 DEF ReserveResult
    <2>2. CASE RefuseResult(c)
        BY <2>2 DEF RefuseResult
    <2>3. CASE RefuseArguments(c)
        BY <2>3 DEF RefuseArguments
    <2>4. CASE ReserveSecret(c)
        BY <2>4 DEF ReserveSecret
    <2>5. CASE RefuseSecret(c)
        BY <2>5 DEF RefuseSecret
    <2>6. CASE Prepare(c)
        BY <2>6 DEF Prepare
    <2>7. CASE RefuseUpload(c)
        BY <2>7 DEF RefuseUpload
    <2>8. ASSUME NEW n \in Names, TakeUpload(c, n) PROVE CallInv'
        <3>1. CallTypes'
            BY <2>8 DEF TakeUpload
        <3>2. NothingBefore' /\ UnspentBefore' /\ NoReplyBefore'
            BY <2>8 DEF TakeUpload
        <3>3. reply[c] = NoReply /\ reply' = reply /\ mark' = mark
            BY <2>8 DEF TakeUpload
        <3>4. NothingInvitesReplay'
            BY <3>3
        <3>5. CapacityCostsNothing'
            BY <2>8, <3>3 DEF TakeUpload
        <3> QED
            BY <3>1, <3>2, <3>4, <3>5
    <2> QED
        BY <1>3, <2>1, <2>2, <2>3, <2>4, <2>5, <2>6, <2>7, <2>8 DEF Before, Proceed
<1>4. ASSUME NEW c \in Calls, Upstream(c) PROVE CallInv'
    <2>1. CASE RefuseLocally(c)
        BY <2>1 DEF RefuseLocally
    <2>2. CASE PreflightFails(c)
        BY <2>2 DEF PreflightFails
    <2>3. CASE Send(c)
        BY <2>3 DEF Send
    <2>4. CASE Act(c)
        BY <2>4 DEF Act
    <2>5. CASE Reject(c)
        BY <2>5 DEF Reject
    <2>6. CASE LoseAnswer(c)
        BY <2>6 DEF LoseAnswer
    <2>7. CASE Verify(c)
        BY <2>7 DEF Verify
    <2>8. CASE Cancel(c)
        <3>1. PICK p \in {"prepared", "sent", "acted"} : Replies(c, p, Says("cancelled"))
            BY <2>8 DEF Cancel
        <3> QED
            BY <2>8, <3>1 DEF Cancel
    <2> QED
        BY <1>4, <2>1, <2>2, <2>3, <2>4, <2>5, <2>6, <2>7, <2>8 DEF Upstream
<1>5. ASSUME NEW c \in Calls, After(c) PROVE CallInv'
    <2>1. CASE Build(c)
        BY <2>1 DEF Build
    <2>2. CASE ReturnInline(c)
        <3>1. References(c) \in SUBSET Names
            BY DEF References
        <3> DEFINE answer == Gives(References(c))
        <3>2. /\ answer \in [kind : Kinds, retry : BOOLEAN, refs : SUBSET Names]
              /\ answer.kind = "ok" /\ answer.retry = FALSE
            BY <3>1
        <3>3. /\ at[c] = "built" /\ at' = [at EXCEPT ![c] = "closing"]
              /\ reply' = [reply EXCEPT ![c] = answer]
              /\ UNCHANGED <<args, mark, spent, secret>>
            BY <2>2 DEF ReturnInline
        <3> HIDE DEF answer
        <3>4. CallTypes'
            BY <3>2, <3>3
        <3>5. NothingBefore' /\ UnspentBefore' /\ NoReplyBefore'
            BY <3>3
        <3>6. /\ reply'[c].kind = "ok" /\ reply'[c].retry = FALSE
              /\ \A d \in Calls \ {c} : reply'[d] = reply[d]
            BY <3>2, <3>3
        <3>7. NothingInvitesReplay' /\ CapacityCostsNothing'
            BY <3>3, <3>6
        <3> QED
            BY <3>4, <3>5, <3>7
    <2>3. CASE ReturnOversized(c)
        <3>1. /\ MayRetry(c) \in BOOLEAN
              /\ MayRetry(c) => mark[c] = 0
            BY DEF MayRetry
        <3>2. References(c) \in SUBSET Names
            BY DEF References
        <3> DEFINE answer == [kind |-> "oversized", retry |-> MayRetry(c), refs |-> References(c)]
        <3>3. /\ answer \in [kind : Kinds, retry : BOOLEAN, refs : SUBSET Names]
              /\ answer.kind = "oversized" /\ answer.retry = MayRetry(c)
            BY <3>1, <3>2
        <3>4. /\ at[c] = "built" /\ at' = [at EXCEPT ![c] = "closing"]
              /\ reply' = [reply EXCEPT ![c] = answer]
              /\ UNCHANGED <<args, mark, spent, secret>>
            BY <2>3 DEF ReturnOversized
        <3> HIDE DEF answer
        <3>5. CallTypes'
            BY <3>3, <3>4
        <3>6. NothingBefore' /\ UnspentBefore' /\ NoReplyBefore'
            BY <3>4
        <3>7. /\ reply'[c].kind = "oversized" /\ reply'[c].retry = MayRetry(c)
              /\ \A d \in Calls \ {c} : reply'[d] = reply[d]
            BY <3>3, <3>4
        <3>8. NothingInvitesReplay' /\ CapacityCostsNothing'
            BY <3>1, <3>4, <3>7
        <3> QED
            BY <3>5, <3>6, <3>8
    <2>4. CASE Answer(c)
        BY <2>4 DEF Answer
    <2>5. ASSUME NEW size \in EnvelopeSizes, StageSecret(c, size) PROVE CallInv'
        <3>1. NewName \in Names
            BY <2>5 DEF StageSecret, NewName, NamesLeft
        <3> QED
            BY <2>5, <3>1 DEF StageSecret
    <2>6. ASSUME NEW size \in EnvelopeSizes, WrapResult(c, size) PROVE CallInv'
        <3>1. NewName \in Names
            BY <2>6 DEF WrapResult, NewName, NamesLeft
        <3> QED
            BY <2>6, <3>1 DEF WrapResult
    <2>7. ASSUME NEW s \in Slots, DropSlot(s) PROVE CallInv'
        BY <2>7 DEF DropSlot, callVars
    <2>8. Secret(c) \in Slots /\ Result(c) \in Slots
        BY DEF Secret, Result, Slots
    <2>9. CASE FailToBuild(c)
        <3>1. PICK p \in {"verified", "built"} : Replies(c, p, Says("unknown"))
            BY <2>9 DEF FailToBuild
        <3> QED
            BY <2>9, <3>1 DEF FailToBuild
    <2> QED
        BY <1>5, <2>1, <2>2, <2>3, <2>4, <2>5, <2>6, <2>7, <2>8, <2>9 DEF After
<1>6. ASSUME UNCHANGED callVars PROVE CallInv'
    BY <1>6 DEF callVars
<1>7. CASE UNCHANGED vars
    BY <1>7, <1>6 DEF vars
<1>8. ASSUME NEW r \in Transfers, Transfer(r) PROVE CallInv'
    BY <1>8, <1>6 DEF Transfer
<1>9. CASE Authorize \/ Tick \/ Sweep
    BY <1>9, <1>6 DEF Authorize, Tick, Sweep
<1> QED
    BY <1>1, <1>2, <1>3, <1>4, <1>5, <1>7, <1>8, <1>9 DEF Next

THEOREM CallInvariance == Spec => []CallInv
<1>1. Init => CallInv
    BY InitCallInv
<1>2. CallInv /\ [Next]_vars => CallInv'
    BY NextCallInv
<1> QED
    BY <1>1, <1>2, PTL DEF Spec

(* Following an error's advice never repeats a change or a recorded access *)
(* (Effect::NotStarted, OversizedResultAdvice).                            *)
THEOREM NoReplay == Spec => []NothingInvitesReplay
<1>1. CallInv => NothingInvitesReplay
    BY DEF CallInv
<1> QED
    BY <1>1, CallInvariance, PTL

(* A refusal for lack of a place leaves the upload unspent                 *)
(* (capacity_before_execution).                                            *)
THEOREM CapacityIsFree == Spec => []CapacityCostsNothing
<1>1. CallInv => CapacityCostsNothing
    BY DEF CallInv
<1> QED
    BY <1>1, CallInvariance, PTL

------------------------------------------------------------------------------
(* Every step of a call, a transfer, the sweeper or the clock is a step of *)
(* the plane or leaves it alone.                                           *)
LEMMA NextIsPlaneNext == [Next]_vars => [Plane!Next]_(Plane!vars)
<1> SUFFICES ASSUME [Next]_vars PROVE Plane!Next \/ UNCHANGED planeVars
    BY DEF planeVars, Plane!vars
<1> USE DEF Plane!Next, SamePlane
<1>1. ASSUME NEW c \in Calls, Receive(c) \/ RefuseTier(c) PROVE UNCHANGED planeVars
    BY <1>1 DEF Receive, RefuseTier
<1>2. \A c \in Calls : Result(c) \in Holders /\ Secret(c) \in Holders
    BY DEF Result, Secret, Holders, Slots
<1>3. ASSUME NEW c \in Calls, Before(c) PROVE Plane!Next \/ UNCHANGED planeVars
    BY <1>2, <1>3 DEF Before, Proceed, ReserveResult, RefuseResult, RefuseArguments,
       ReserveSecret, RefuseSecret, Prepare, RefuseUpload, TakeUpload
<1>4. ASSUME NEW c \in Calls, Upstream(c) PROVE UNCHANGED planeVars
    BY <1>4 DEF Upstream, RefuseLocally, PreflightFails, Send, Act, Reject,
       LoseAnswer, Verify, Cancel
<1>5. ASSUME NEW c \in Calls, After(c) PROVE Plane!Next \/ UNCHANGED planeVars
    <2>1. NamesLeft => NewName \in Names
        BY DEF NamesLeft, NewName
    <2> QED
        BY <1>2, <1>5, <2>1 DEF After, Build, FailToBuild, ReturnInline, ReturnOversized,
           Answer, StageSecret, WrapResult, DropSlot
<1>6. ASSUME NEW r \in Transfers, Transfer(r) PROVE Plane!Next
    BY <1>6 DEF Transfer, Holders
<1>7. ASSUME Authorize PROVE Plane!Next
    <2>1. NamesLeft => NewName \in Names
        BY DEF NamesLeft, NewName
    <2> QED
        BY <1>7, <2>1 DEF Authorize
<1>8. ASSUME Tick \/ Sweep PROVE Plane!Next
    BY <1>8 DEF Tick, Sweep
<1>9. CASE UNCHANGED vars
    BY <1>9 DEF vars, planeVars
<1> QED
    BY <1>1, <1>3, <1>4, <1>5, <1>6, <1>7, <1>8, <1>9 DEF Next

(* The composition of calls and transfers implements FilePlane. *)
THEOREM ImplementsPlane == Spec => PlaneSpec
<1>1. Init => Plane!Init
    BY DEF Init
<1> QED
    BY <1>1, NextIsPlaneNext, PTL DEF Spec, PlaneSpec, Plane!Spec

------------------------------------------------------------------------------
(* Which places a call owns at each point: PlacesAreKept and               *)
(* SlotsEndWithCall are two of the rows.                                   *)
OwnsNothing(c) == Holds(Secret(c), "nothing") /\ Holds(Result(c), "nothing")
OwnsResult(c) == IF args[c].file THEN Holds(Result(c), "slot")
                                 ELSE Holds(Result(c), "nothing")
OwnsSecret(c) == IF NeedsSlot(c) THEN Holds(Secret(c), "slot")
                                 ELSE Holds(Secret(c), "nothing")

PlacesInv ==
    /\ req = [h \in Holders |-> req[h]]
    /\ at = [c \in Calls |-> at[c]]
    /\ args \in [Calls -> Arguments]
    /\ \A c \in Calls :
        /\ at[c] \in {"idle", "received", "done"} => OwnsNothing(c)
        /\ at[c] \in {"dispatched", "prepared", "sent", "acted", "verified", "built"} => OwnsResult(c)
        /\ at[c] = "received" => args[c].file
        /\ at[c] = "dispatched" => Holds(Secret(c), "nothing")
        /\ at[c] \in {"prepared", "sent", "acted", "verified"} => OwnsSecret(c)

(* No two slots are the same, and none is a transfer. *)
LEMMA SlotsAreApart ==
    /\ \A c \in Calls : /\ Result(c) \in Holders /\ Secret(c) \in Holders
                        /\ Result(c) \notin Transfers /\ Secret(c) \notin Transfers
    /\ \A c, d \in Calls : /\ Result(c) # Secret(d)
                           /\ c # d => Result(c) # Result(d) /\ Secret(c) # Secret(d)
BY HoldersAssumption DEF Result, Secret, Holders, Slots

(* A step that leaves the requests alone and moves one call. *)
LEMMA CallMoves ==
    ASSUME PlacesInv, req' = req, args' = args, NEW c \in Calls, NEW to,
           at' = [at EXCEPT ![c] = to],
           \/ to = "closing"
           \/ to = "done" /\ OwnsNothing(c)
           \/ at[c] = "idle" /\ to = "received" /\ args[c].file
           \/ at[c] = "idle" /\ to = "dispatched" /\ ~args[c].file
           \/ at[c] = "dispatched" /\ to = "prepared" /\ ~NeedsSlot(c)
           \/ at[c] = "prepared" /\ to = "sent"
           \/ at[c] = "sent" /\ to = "acted"
           \/ at[c] = "acted" /\ to = "verified"
           \/ at[c] = "verified" /\ to = "built"
    PROVE  PlacesInv'
BY DEF PlacesInv, OwnsNothing, OwnsResult, OwnsSecret, NeedsSlot, Holds, Result, Secret

LEMMA NextPlacesInv == PlacesInv /\ [Next]_vars => PlacesInv'
<1> SUFFICES ASSUME PlacesInv, [Next]_vars PROVE PlacesInv'
    OBVIOUS
<1> USE DEF Goes, Replies, SamePlane
<1>1. ASSUME NEW c \in Calls, Receive(c) \/ RefuseTier(c) PROVE PlacesInv'
    BY <1>1, CallMoves DEF Receive, RefuseTier, planeVars
<1>2. ASSUME NEW c \in Calls, ReserveResult(c) PROVE PlacesInv'
    <2>1. req' = [req EXCEPT ![Result(c)] = Plane!Holding("slot", NoName, Envelope, 0)]
        BY <1>2 DEF ReserveResult, Plane!Reserve
    <2>2. at[c] = "received" /\ at' = [at EXCEPT ![c] = "dispatched"] /\ args' = args
        BY <1>2 DEF ReserveResult
    <2> QED
        BY <2>1, <2>2, SlotsAreApart
        DEF PlacesInv, OwnsNothing, OwnsResult, OwnsSecret, NeedsSlot, Holds, Plane!Holding
<1>3. ASSUME NEW c \in Calls, ReserveSecret(c) PROVE PlacesInv'
    <2>1. req' = [req EXCEPT ![Secret(c)] = Plane!Holding("slot", NoName, Envelope, 0)]
        BY <1>3 DEF ReserveSecret, Plane!Reserve
    <2>2. at[c] = "dispatched" /\ at' = [at EXCEPT ![c] = "prepared"] /\ args' = args /\ NeedsSlot(c)
        BY <1>3 DEF ReserveSecret
    <2> QED
        BY <2>1, <2>2, SlotsAreApart
        DEF PlacesInv, OwnsNothing, OwnsResult, OwnsSecret, NeedsSlot, Holds, Plane!Holding
<1>4. ASSUME NEW c \in Calls,
             \/ RefuseResult(c) \/ RefuseArguments(c) \/ RefuseSecret(c) \/ RefuseUpload(c)
             \/ Prepare(c) \/ \E n \in Names : TakeUpload(c, n)
      PROVE PlacesInv'
    <2>1. CASE RefuseResult(c) \/ RefuseSecret(c) \/ RefuseUpload(c)
        <3>1. /\ req' = req /\ args' = args
              /\ at' = [at EXCEPT ![c] = "closing"]
            BY <2>1 DEF RefuseResult, RefuseSecret, RefuseUpload, Plane!Sweep
        <3> QED
            BY <3>1, CallMoves
    <2>2. CASE RefuseArguments(c) \/ Prepare(c)
        <3>1. req' = req /\ args' = args
            BY <2>2 DEF RefuseArguments, Prepare, planeVars
        <3>2. \/ at' = [at EXCEPT ![c] = "closing"]
              \/ /\ at[c] = "dispatched" /\ ~NeedsSlot(c)
                 /\ at' = [at EXCEPT ![c] = "prepared"]
            BY <2>2 DEF RefuseArguments, Prepare
        <3> QED
            BY <3>1, <3>2, CallMoves
    <2>3. ASSUME NEW n \in Names, TakeUpload(c, n) PROVE PlacesInv'
        <3>1. req' = req /\ args' = args
            BY <2>3 DEF TakeUpload, Plane!TakeReceived
        <3> QED
            BY <2>3, <3>1, CallMoves, OperationsAssumption
            DEF TakeUpload, NeedsSlot, PlacesInv, Arguments
    <2> QED
        BY <1>4, <2>1, <2>2, <2>3
<1>5. ASSUME NEW c \in Calls, Upstream(c) PROVE PlacesInv'
    BY <1>5, CallMoves DEF Upstream, RefuseLocally, PreflightFails, Send, Act, Reject,
       LoseAnswer, Verify, Cancel, planeVars
<1>6. ASSUME NEW c \in Calls,
             \/ Build(c) \/ FailToBuild(c) \/ ReturnInline(c) \/ ReturnOversized(c)
             \/ Answer(c)
      PROVE PlacesInv'
    BY <1>6, CallMoves DEF Build, FailToBuild, ReturnInline, ReturnOversized, Answer,
       OwnsNothing, planeVars
<1>7. ASSUME NEW c \in Calls, NEW size \in EnvelopeSizes, StageSecret(c, size) PROVE PlacesInv'
    <2>1. req' = [req EXCEPT ![Secret(c)] = Plane!Nothing]
        BY <1>7 DEF StageSecret, Plane!Stage
    <2>2. at[c] = "verified" /\ at' = [at EXCEPT ![c] = "built"] /\ args' = args
        BY <1>7 DEF StageSecret
    <2> QED
        BY <2>1, <2>2, SlotsAreApart
        DEF PlacesInv, OwnsNothing, OwnsResult, OwnsSecret, NeedsSlot, Holds, Plane!Nothing
<1>8. ASSUME NEW c \in Calls, NEW size \in EnvelopeSizes, WrapResult(c, size) PROVE PlacesInv'
    <2>1. req' = [req EXCEPT ![Result(c)] = Plane!Nothing]
        BY <1>8 DEF WrapResult, Plane!Stage
    <2>2. at[c] = "built" /\ at' = [at EXCEPT ![c] = "closing"] /\ args' = args
        BY <1>8 DEF WrapResult
    <2> QED
        BY <2>1, <2>2, SlotsAreApart
        DEF PlacesInv, OwnsNothing, OwnsResult, OwnsSecret, NeedsSlot, Holds, Plane!Nothing
<1>9. ASSUME NEW c \in Calls, DropSlot(Secret(c)) \/ DropSlot(Result(c)) PROVE PlacesInv'
    <2>1. /\ at' = at /\ args' = args
          /\ at[c] \in {"built", "closing"}
          /\ DropSlot(Result(c)) => at[c] = "closing"
        BY <1>9 DEF DropSlot, callVars, Secret, Result
    <2>2. PICK slot \in {Secret(c), Result(c)} : DropSlot(slot)
        BY <1>9
    <2>3. \A h \in Holders : h # slot => req'[h] = req[h]
        BY <2>2, SlotsAreApart DEF DropSlot, Plane!Release, Plane!ReturnBytes, PlacesInv
    <2>4. req' = [h \in Holders |-> req'[h]]
        BY <2>2, SlotsAreApart DEF DropSlot, Plane!Release, Plane!ReturnBytes, PlacesInv
    <2>5. slot = Result(c) => at[c] = "closing"
        BY <2>1, <2>2
    <2> QED
        BY <2>1, <2>3, <2>4, <2>5, SlotsAreApart
        DEF PlacesInv, OwnsNothing, OwnsResult, OwnsSecret, NeedsSlot, Holds
<1>10. ASSUME NEW r \in Transfers, Transfer(r) PROVE PlacesInv'
    <2>1. at' = at /\ args' = args
        BY <1>10 DEF Transfer, callVars
    <2>2. /\ req' = [h \in Holders |-> req'[h]]
          /\ \A h \in Holders : h # r => req'[h] = req[h]
        BY <1>10 DEF Transfer, Holders, PlacesInv, Plane!Release, Plane!ReturnBytes,
           Plane!Complete, Plane!Claim, Plane!Serve
    <2> QED
        BY <2>1, <2>2, SlotsAreApart, SMTT(30)
        DEF PlacesInv, OwnsNothing, OwnsResult, OwnsSecret, NeedsSlot, Holds
<1>11. ASSUME req' = req, at' = at, args' = args PROVE PlacesInv'
    BY <1>11 DEF PlacesInv, OwnsNothing, OwnsResult, OwnsSecret, NeedsSlot, Holds
<1>12. CASE Authorize \/ Tick \/ Sweep \/ UNCHANGED vars
    BY <1>11, <1>12 DEF Authorize, Tick, Sweep, callVars, vars, planeVars,
       Plane!AuthorizeDownload, Plane!AuthorizeUpload, Plane!Tick, Plane!Sweep
<1>13. ASSUME NEW c \in Calls, Before(c) PROVE PlacesInv'
    BY <1>2, <1>3, <1>4, <1>13 DEF Before, Proceed
<1>14. ASSUME NEW c \in Calls, After(c) PROVE PlacesInv'
    BY <1>6, <1>7, <1>8, <1>9, <1>14 DEF After
<1> QED
    BY <1>1, <1>5, <1>10, <1>12, <1>13, <1>14 DEF Next

THEOREM PlacesInvariance == Spec => []PlacesInv
<1>1. Init => PlacesInv
    BY DEF Init, PlacesInv, OwnsNothing, OwnsResult, OwnsSecret, Holds, Result, Secret,
       Holders, Slots, Plane!Init, Plane!Nothing
<1> QED
    BY <1>1, NextPlacesInv, PTL DEF Spec

(* A call that has been sent owns the places it will need                  *)
(* (resolve_delivery, reserve_result_delivery).                            *)
THEOREM PlacesReserved == Spec => []PlacesAreKept
<1>1. PlacesInv => PlacesAreKept
    BY DEF PlacesInv, PlacesAreKept, OwnsResult, OwnsSecret, NeedsSlot
<1> QED
    BY <1>1, PlacesInvariance, PTL

(* No place outlives its call (StageSlot::drop). *)
THEOREM PlacesReturned == Spec => []SlotsEndWithCall
<1>1. PlacesInv => SlotsEndWithCall
    BY DEF PlacesInv, SlotsEndWithCall, OwnsNothing
<1> QED
    BY <1>1, PlacesInvariance, PTL
(* What a reply says of effect and retry is so. *)
THEOREM TrueReplies == Spec => []RepliesAreTrue
BY NoReplay, CapacityIsFree, PTL DEF RepliesAreTrue

(* Places are there when needed and free afterwards. *)
THEOREM PlacesFollow == Spec => []SlotsFollowTheCall
BY PlacesReserved, PlacesReturned, PTL DEF SlotsFollowTheCall

------------------------------------------------------------------------------
(* A name that a call has staged was minted, and only a call with material *)
(* that has come that far has one; the name of a wrapper is minted later   *)
(* and another.                                                            *)
NamedInv ==
    /\ \A c \in Calls : secret[c] # NoName =>
           /\ at[c] \in {"built", "closing", "done"}
           /\ secret[c] \in minted /\ args[c].op.material
    /\ StagedIsNamed

LEMMA MintedStays == [Next]_vars => minted \subseteq minted'
<1> SUFFICES ASSUME [Next]_vars PROVE minted \subseteq minted'
    OBVIOUS
<1>1. Plane!Next \/ UNCHANGED planeVars
    BY NextIsPlaneNext DEF planeVars, Plane!vars
<1>2. CASE UNCHANGED planeVars
    BY <1>2 DEF planeVars
<1>3. ASSUME NEW r \in Holders,
             \/ Plane!Reserve(r) \/ Plane!Release(r) \/ Plane!ReturnBytes(r)
             \/ Plane!Complete(r)
      PROVE  minted' = minted
    BY <1>3 DEF Plane!Reserve, Plane!Release, Plane!ReturnBytes, Plane!Complete
<1>4. ASSUME NEW r \in Holders, NEW n \in Names, NEW size, NEW t,
             Plane!Claim(r, n) \/ Plane!Stage(r, n, size) \/ Plane!Serve(r, n, t)
      PROVE  minted \subseteq minted'
    BY <1>4 DEF Plane!Claim, Plane!Stage, Plane!Serve
<1>5. ASSUME NEW n \in Names, NEW size,
             \/ Plane!AuthorizeDownload(n) \/ Plane!TakeReceived(n)
             \/ Plane!AuthorizeUpload(n, size)
      PROVE  minted \subseteq minted'
    BY <1>5 DEF Plane!AuthorizeDownload, Plane!TakeReceived, Plane!AuthorizeUpload
<1>6. CASE Plane!Sweep \/ Plane!Tick
    BY <1>6 DEF Plane!Sweep, Plane!Tick
<1> QED
    BY <1>1, <1>2, <1>3, <1>4, <1>5, <1>6 DEF Plane!Next

(* Steps of a call that has staged nothing. *)
LEMMA NamedMoves ==
    ASSUME CallInv, NamedInv, minted \subseteq minted', secret' = secret, args' = args,
           NEW c \in Calls, NEW to,
           at' = [at EXCEPT ![c] = to],
           \/ secret[c] = NoName
           \/ at[c] = "closing" /\ to = "done" /\ reply' = reply,
           \A d \in Calls \ {c} : reply'[d] = reply[d]
    PROVE  NamedInv'
BY DEF CallInv, CallTypes, NamedInv, StagedIsNamed

LEMMA NextNamedInv == CallInv /\ PlacesInv /\ NamedInv /\ [Next]_vars => NamedInv'
<1> SUFFICES ASSUME CallInv, PlacesInv, NamedInv, [Next]_vars PROVE NamedInv'
    OBVIOUS
<1>0. minted \subseteq minted'
    BY MintedStays
<1>1. ASSUME UNCHANGED callVars PROVE NamedInv'
    BY <1>0, <1>1 DEF callVars, NamedInv, StagedIsNamed
<1>2. ASSUME NEW c \in Calls, Receive(c) \/ RefuseTier(c) \/ Before(c) PROVE NamedInv'
    <2>1. at[c] \in {"idle", "received", "dispatched"}
        BY <1>2 DEF Receive, RefuseTier, Before, Proceed, ReserveResult, RefuseResult,
           RefuseArguments, ReserveSecret, RefuseSecret, Prepare, RefuseUpload, TakeUpload,
           Goes, Replies
    <2>2. secret[c] = NoName
        BY <2>1 DEF NamedInv
    <2>3. /\ secret' = secret /\ args' = args
          /\ \E to \in Phases : at' = [at EXCEPT ![c] = to]
          /\ \A d \in Calls \ {c} : reply'[d] = reply[d]
        BY <1>2 DEF Receive, RefuseTier, Before, Proceed, ReserveResult, RefuseResult,
           RefuseArguments, ReserveSecret, RefuseSecret, Prepare, RefuseUpload, TakeUpload,
           Goes, Replies, CallInv, CallTypes, Phases
    <2> QED
        BY <1>0, <2>2, <2>3, NamedMoves
<1>3. ASSUME NEW c \in Calls, Upstream(c) PROVE NamedInv'
    <2> USE DEF Upstream, RefuseLocally, PreflightFails, Send, Act, Reject, LoseAnswer,
                Verify, Cancel, Goes, Replies
    <2>1. at[c] \in {"prepared", "sent", "acted"}
        BY <1>3
    <2>2. secret[c] = NoName
        BY <2>1 DEF NamedInv
    <2>3. /\ secret' = secret /\ args' = args
          /\ \E to \in Phases : at' = [at EXCEPT ![c] = to]
          /\ \A d \in Calls \ {c} : reply'[d] = reply[d]
        BY <1>3 DEF CallInv, CallTypes, Phases
    <2> QED
        BY <1>0, <2>2, <2>3, NamedMoves
<1>4. ASSUME NEW c \in Calls, After(c) PROVE NamedInv'
    <2> USE DEF CallInv, CallTypes, NamedInv, StagedIsNamed, Goes, Replies
    <2>1. CASE Build(c)
        <3>1. secret[c] = NoName
            BY <2>1 DEF Build
        <3> QED
            BY <1>0, <2>1, <3>1, NamedMoves DEF Build
    <2>2. CASE Answer(c)
        BY <1>0, <2>2, NamedMoves DEF Answer
    <2>3. CASE ReturnInline(c)
        <3>1. reply'[c].refs = References(c) /\ ~args[c].file
            BY <2>3 DEF ReturnInline, Gives
        <3>2. secret[c] # NoName => secret[c] \in reply'[c].refs
            BY <3>1 DEF References
        <3>3. at[c] = "built" /\ at' = [at EXCEPT ![c] = "closing"]
              /\ secret' = secret /\ args' = args
              /\ \A d \in Calls \ {c} : reply'[d] = reply[d]
            BY <2>3 DEF ReturnInline
        <3> QED
            BY <1>0, <3>1, <3>2, <3>3
    <2>4. CASE ReturnOversized(c)
        <3>1. reply'[c].refs = References(c) /\ ~args[c].file
            BY <2>4 DEF ReturnOversized
        <3>2. secret[c] # NoName => secret[c] \in reply'[c].refs
            BY <3>1 DEF References
        <3>3. at[c] = "built" /\ at' = [at EXCEPT ![c] = "closing"]
              /\ secret' = secret /\ args' = args
              /\ \A d \in Calls \ {c} : reply'[d] = reply[d]
            BY <2>4 DEF ReturnOversized
        <3> QED
            BY <1>0, <3>1, <3>2, <3>3
    <2>5. ASSUME NEW size \in EnvelopeSizes, StageSecret(c, size) PROVE NamedInv'
        <3>1. NewName \in minted'
            BY <2>5 DEF StageSecret, Plane!Stage
        <3>2. at[c] = "verified" /\ at' = [at EXCEPT ![c] = "built"]
              /\ secret' = [secret EXCEPT ![c] = NewName]
              /\ args' = args /\ reply' = reply
            BY <2>5 DEF StageSecret
        <3>3. args[c].op.material
            BY <2>5, <3>2 DEF StageSecret, PlacesInv, OwnsSecret, NeedsSlot, Holds
        <3> QED
            BY <1>0, <3>1, <3>2, <3>3
    <2>6. ASSUME NEW size \in EnvelopeSizes, WrapResult(c, size) PROVE NamedInv'
        <3>1. NewName \notin minted
            BY <2>6 DEF WrapResult, Plane!Stage
        <3>2. reply'[c].refs = {NewName}
            BY <2>6 DEF WrapResult, Gives
        <3>3. at[c] = "built" /\ at' = [at EXCEPT ![c] = "closing"] /\ args[c].file
              /\ secret' = secret /\ args' = args
              /\ \A d \in Calls \ {c} : reply'[d] = reply[d]
            BY <2>6 DEF WrapResult
        <3>4. secret[c] # NoName => secret[c] # NewName
            BY <3>1
        <3>5. reply'[c].refs \ {secret[c]} # {} \/ secret[c] = NoName
            BY <3>2, <3>4
        <3> QED
            BY <1>0, <3>3, <3>5
    <2>7. ASSUME NEW s \in Slots, DropSlot(s) PROVE NamedInv'
        BY <1>1, <2>7 DEF DropSlot
    <2>8. Secret(c) \in Slots /\ Result(c) \in Slots
        BY DEF Secret, Result, Slots
    <2>9. CASE FailToBuild(c)
        <3>1. secret[c] = NoName
            BY <2>9 DEF FailToBuild
        <3> QED
            BY <1>0, <2>9, <3>1, NamedMoves DEF FailToBuild
    <2> QED
        BY <1>4, <2>1, <2>2, <2>3, <2>4, <2>5, <2>6, <2>7, <2>8, <2>9 DEF After
<1>5. ASSUME NEW r \in Transfers, Transfer(r) PROVE NamedInv'
    BY <1>1, <1>5 DEF Transfer
<1>6. CASE Authorize \/ Tick \/ Sweep
    BY <1>1, <1>6 DEF Authorize, Tick, Sweep
<1>7. CASE UNCHANGED vars
    BY <1>1, <1>7 DEF vars
<1> QED
    BY <1>2, <1>3, <1>4, <1>5, <1>6, <1>7 DEF Next

(* What was staged for a caller is named in its reply                      *)
(* (surviving_secret_references, deliver_result_as_file).                  *)
THEOREM StagedValuesAreNamed == Spec => []StagedIsNamed
<1>1. Init => NamedInv
    BY DEF Init, NamedInv, StagedIsNamed
<1>2. NamedInv => StagedIsNamed
    BY DEF NamedInv
<1> QED
    BY <1>1, <1>2, CallInvariance, PlacesInvariance, NextNamedInv, PTL DEF Spec

------------------------------------------------------------------------------
(* What a reply says of the trace that a call leaves upstream: a result    *)
(* that it is there, a refusal that it is not and never will be.  A tool   *)
(* that only reads leaves none, and its results say nothing of one.        *)
Told(c) ==
    IF reply[c].kind = "none" THEN "nothing"
    ELSE IF reply[c].kind \in {"capacity", "refused"} THEN "refused"
    ELSE IF reply[c].kind \in {"ok", "oversized"} /\ args[c].op.tier # "read" THEN "done"
    ELSE "unknown"

Honest == INSTANCE HonestCall WITH
    applied <- mark,
    said <- [c \in Calls |-> Told(c)]

(* A call that Infisical has performed has left its trace, and only such a *)
(* call has a result.                                                      *)
ResultsAreMarked ==
    \A c \in Calls : args[c].op.tier # "read" =>
        /\ at[c] \in {"acted", "verified", "built"} => mark[c] = 1
        /\ reply[c].kind \in {"ok", "oversized"} => mark[c] = 1

(* How a step of one call moves it: it goes on, it is performed, or it     *)
(* gets its reply.                                                         *)
GoesOn(c) ==
    /\ UNCHANGED <<args, mark, reply>>
    /\ \E p \in Phases : at[c] # "done" /\ at' = [at EXCEPT ![c] = p]
    /\ at'[c] \in {"verified", "built"} => at[c] \in {"acted", "verified", "built"}
    /\ at'[c] # "acted"
Performs(c) ==
    /\ at[c] = "sent" /\ at' = [at EXCEPT ![c] = "acted"]
    /\ mark' = [mark EXCEPT ![c] = IF args[c].op.tier = "read" THEN @ ELSE @ + 1]
    /\ UNCHANGED <<args, reply>>
IsTold(c) ==
    /\ at[c] \notin {"closing", "done"} /\ at' = [at EXCEPT ![c] = "closing"]
    /\ UNCHANGED <<args, mark>>
    /\ \E answer :
          /\ reply' = [reply EXCEPT ![c] = answer] /\ answer.kind \in Kinds \ {"none"}
          /\ answer.kind \in {"capacity", "refused"} =>
                at[c] \in {"idle", "received", "dispatched", "prepared"}
          /\ answer.kind \in {"ok", "oversized"} => at[c] = "built"

LEMMA PlainAnswers == \A kind : Says(kind).kind = kind
BY DEF Says

LEMMA AnswersAreTold ==
    ASSUME NEW c \in Calls, NEW p \in Phases \ {"closing", "done"}, NEW answer,
           Replies(c, p, answer), UNCHANGED <<args, mark>>, answer.kind \in Kinds \ {"none"},
           answer.kind \in {"capacity", "refused"} =>
             p \in {"idle", "received", "dispatched", "prepared"},
           answer.kind \in {"ok", "oversized"} => p = "built"
    PROVE  IsTold(c)
BY DEF Replies, Goes, IsTold

(* The steps of a call before its request. *)
LEMMA BeforeShapes ==
    ASSUME at \in [Calls -> Phases],
           NEW c \in Calls, Receive(c) \/ RefuseTier(c) \/ Before(c)
    PROVE  GoesOn(c) \/ IsTold(c)
<1>1. CASE Receive(c)
    <2>1. PICK p \in {"received", "dispatched"} : Goes(c, "idle", p)
        BY <1>1 DEF Receive
    <2> QED
        BY <1>1, <2>1 DEF Receive, Goes, GoesOn, Phases
<1>2. CASE RefuseTier(c)
    BY <1>2, PlainAnswers, AnswersAreTold DEF RefuseTier, Phases, Kinds
<1>3. CASE RefuseArguments(c)
    BY <1>3, PlainAnswers, AnswersAreTold DEF RefuseArguments, Phases, Kinds
<1>4. CASE ReserveResult(c)
    BY <1>4 DEF ReserveResult, Goes, GoesOn, Phases
<1>5. CASE RefuseResult(c)
    BY <1>5, PlainAnswers, AnswersAreTold DEF RefuseResult, Phases, Kinds
<1>6. CASE ReserveSecret(c)
    BY <1>6 DEF ReserveSecret, Goes, GoesOn, Phases
<1>7. CASE RefuseSecret(c)
    BY <1>7, PlainAnswers, AnswersAreTold DEF RefuseSecret, Phases, Kinds
<1>8. CASE Prepare(c)
    BY <1>8 DEF Prepare, Goes, GoesOn, Phases
<1>9. CASE RefuseUpload(c)
    BY <1>9, PlainAnswers, AnswersAreTold DEF RefuseUpload, Phases, Kinds
<1>10. ASSUME NEW n \in Names, TakeUpload(c, n) PROVE GoesOn(c)
    BY <1>10 DEF TakeUpload, Goes, GoesOn, Phases
<1> QED
    BY <1>1, <1>2, <1>3, <1>4, <1>5, <1>6, <1>7, <1>8, <1>9, <1>10 DEF Before, Proceed

(* The steps of a call around its request. *)
LEMMA UpstreamShapes ==
    ASSUME at \in [Calls -> Phases], NEW c \in Calls, Upstream(c)
    PROVE  GoesOn(c) \/ Performs(c) \/ IsTold(c)
<1>1. CASE RefuseLocally(c)
    BY <1>1, PlainAnswers, AnswersAreTold DEF RefuseLocally, Phases, Kinds
<1>2. CASE PreflightFails(c)
    BY <1>2, PlainAnswers, AnswersAreTold DEF PreflightFails, Phases, Kinds
<1>3. CASE Send(c)
    BY <1>3 DEF Send, Goes, GoesOn, Phases
<1>4. CASE Act(c)
    BY <1>4 DEF Act, Goes, Performs
<1>5. CASE Reject(c)
    BY <1>5, PlainAnswers, AnswersAreTold DEF Reject, Phases, Kinds
<1>6. CASE LoseAnswer(c)
    BY <1>6, PlainAnswers, AnswersAreTold DEF LoseAnswer, Phases, Kinds
<1>7. CASE Verify(c)
    BY <1>7 DEF Verify, Goes, GoesOn, Phases
<1>8. CASE Cancel(c)
    <2>1. PICK p \in {"prepared", "sent", "acted"} : Replies(c, p, Says("cancelled"))
        BY <1>8 DEF Cancel
    <2> QED
        BY <1>8, <2>1, PlainAnswers, AnswersAreTold DEF Cancel, Phases, Kinds
<1> QED
    BY <1>1, <1>2, <1>3, <1>4, <1>5, <1>6, <1>7, <1>8 DEF Upstream

(* The steps of a call after its request. *)
LEMMA AfterShapes ==
    ASSUME at \in [Calls -> Phases], NEW c \in Calls, After(c)
    PROVE  GoesOn(c) \/ IsTold(c) \/ UNCHANGED <<args, at, mark, reply>>
<1>1. CASE Build(c)
    BY <1>1 DEF Build, Goes, GoesOn, Phases
<1>2. CASE Answer(c)
    BY <1>2 DEF Answer, Goes, GoesOn, Phases
<1>3. ASSUME NEW size \in EnvelopeSizes, StageSecret(c, size) PROVE GoesOn(c)
    BY <1>3 DEF StageSecret, Goes, GoesOn, Phases
<1>4. ASSUME NEW size \in EnvelopeSizes, WrapResult(c, size) PROVE IsTold(c)
    <2>1. Gives({NewName}).kind = "ok"
        BY DEF Gives
    <2> QED
        BY <1>4, <2>1, AnswersAreTold DEF WrapResult, Phases, Kinds
<1>5. CASE ReturnInline(c)
    <2>1. Gives(References(c)).kind = "ok"
        BY DEF Gives
    <2> QED
        BY <1>5, <2>1, AnswersAreTold DEF ReturnInline, Phases, Kinds
<1>6. CASE ReturnOversized(c)
    <2> DEFINE answer == [kind |-> "oversized", retry |-> MayRetry(c), refs |-> References(c)]
    <2>1. answer.kind = "oversized"
        OBVIOUS
    <2>2. Replies(c, "built", answer) /\ UNCHANGED <<args, mark>>
        BY <1>6 DEF ReturnOversized
    <2> HIDE DEF answer
    <2> QED
        BY <2>1, <2>2, AnswersAreTold DEF Phases, Kinds
<1>7. ASSUME NEW s, DropSlot(s) PROVE UNCHANGED <<args, at, mark, reply>>
    BY <1>7 DEF DropSlot, callVars
<1>8. CASE FailToBuild(c)
    <2>1. PICK p \in {"verified", "built"} : Replies(c, p, Says("unknown"))
        BY <1>8 DEF FailToBuild
    <2> QED
        BY <1>8, <2>1, PlainAnswers, AnswersAreTold DEF FailToBuild, Phases, Kinds
<1> QED
    BY <1>1, <1>2, <1>3, <1>4, <1>5, <1>6, <1>7, <1>8 DEF After

LEMMA CallShapes ==
    ASSUME at \in [Calls -> Phases], [Next]_vars
    PROVE  \/ UNCHANGED <<args, at, mark, reply>>
           \/ \E c \in Calls : GoesOn(c) \/ Performs(c) \/ IsTold(c)
<1>1. CASE UNCHANGED callVars
    BY <1>1 DEF callVars
<1> QED
    BY <1>1, BeforeShapes, UpstreamShapes, AfterShapes
    DEF Next, Transfer, Authorize, Tick, Sweep, vars

LEMMA NextMarked == CallInv /\ ResultsAreMarked /\ [Next]_vars => ResultsAreMarked'
<1> SUFFICES ASSUME CallInv, ResultsAreMarked, [Next]_vars PROVE ResultsAreMarked'
    OBVIOUS
<1>1. /\ at \in [Calls -> Phases] /\ args \in [Calls -> Arguments]
      /\ mark \in [Calls -> 0..1] /\ DOMAIN reply = Calls
      /\ \A c \in Calls : at[c] \notin {"closing", "done"} => reply[c].kind = "none"
      /\ \A c \in Calls : at[c] = "sent" => mark[c] = 0
    BY DEF CallInv, CallTypes, NothingBefore, NoReplyBefore, NoReply, Says
<1>2. CASE UNCHANGED <<args, at, mark, reply>>
    BY <1>2 DEF ResultsAreMarked
<1>3. ASSUME NEW c \in Calls, GoesOn(c) PROVE ResultsAreMarked'
    BY <1>1, <1>3 DEF GoesOn, ResultsAreMarked
<1>4. ASSUME NEW c \in Calls, Performs(c) PROVE ResultsAreMarked'
    BY <1>1, <1>4 DEF Performs, ResultsAreMarked
<1>5. ASSUME NEW c \in Calls, IsTold(c) PROVE ResultsAreMarked'
    BY <1>1, <1>5 DEF IsTold, ResultsAreMarked
<1> QED
    BY <1>1, <1>2, <1>3, <1>4, <1>5, CallShapes

(* A call leaves at most one trace upstream; its result means that it is   *)
(* there, its refusal that it never will be (execution_error.rs over the   *)
(* dispatcher).                                                            *)
THEOREM CallsAreHonest == Spec => Honest!Spec
<1>1. Init => ResultsAreMarked /\ Honest!Init
    BY DEF Init, ResultsAreMarked, Honest!Init, Told, NoReply, Says
<1>2. CallInv /\ ResultsAreMarked /\ [Next]_vars => [Honest!Next]_(Honest!vars)
    <2> SUFFICES ASSUME CallInv, ResultsAreMarked, [Next]_vars,
                        ~(UNCHANGED <<args, mark, reply>>)
                 PROVE  Honest!Next
        BY DEF Honest!vars, Told
    <2>1. /\ at \in [Calls -> Phases] /\ args \in [Calls -> Arguments]
          /\ mark \in [Calls -> 0..1] /\ DOMAIN reply = Calls
          /\ \A c \in Calls : at[c] \notin {"closing", "done"} => reply[c].kind = "none"
          /\ \A c \in Calls :
                at[c] \in {"idle", "received", "dispatched", "prepared", "sent"} => mark[c] = 0
        BY DEF CallInv, CallTypes, NothingBefore, NoReplyBefore, NoReply, Says
    <2>2. ASSUME NEW c \in Calls, Performs(c), mark' # mark PROVE Honest!Apply(c)
        <3>1. at[c] = "sent" /\ args' = args /\ reply' = reply
            BY <2>2 DEF Performs
        <3>2. mark[c] = 0 /\ reply[c].kind = "none"
            BY <2>1, <3>1
        <3>3. args[c].op.tier # "read"
            BY <2>1, <2>2 DEF Performs
        <3>4. mark' = [mark EXCEPT ![c] = mark[c] + 1]
            BY <2>2, <3>3 DEF Performs
        <3>5. mark' = [mark EXCEPT ![c] = 1]
            BY <3>2, <3>4
        <3> QED
            BY <3>1, <3>2, <3>5 DEF Honest!Apply, Told
    <2>3. ASSUME NEW c \in Calls, IsTold(c) PROVE Honest!Next
        <3>1. PICK answer :
                /\ reply' = [reply EXCEPT ![c] = answer] /\ answer.kind \in Kinds \ {"none"}
                /\ answer.kind \in {"capacity", "refused"} =>
                      at[c] \in {"idle", "received", "dispatched", "prepared"}
                /\ answer.kind \in {"ok", "oversized"} => at[c] = "built"
            BY <2>3 DEF IsTold
        <3> DEFINE said == IF answer.kind \in {"capacity", "refused"} THEN "refused"
                           ELSE IF answer.kind \in {"ok", "oversized"} /\ args[c].op.tier # "read"
                             THEN "done" ELSE "unknown"
        <3>2. args' = args /\ mark' = mark /\ Told(c) = "nothing"
            BY <2>1, <2>3 DEF IsTold, Told
        <3>3. said = "done" => mark[c] = 1
            BY <3>1 DEF ResultsAreMarked
        <3>4. said = "refused" => mark[c] = 0
            BY <2>1, <3>1
        <3>5. \A d \in Calls : Told(d)' = IF d = c THEN said ELSE Told(d)
            BY <2>1, <3>1, <3>2 DEF Told, Kinds
        <3>6. said \in Honest!Answers \ {"nothing"}
            BY DEF Honest!Answers
        <3> HIDE DEF said
        <3>7. [d \in Calls |-> Told(d)]' = [[d \in Calls |-> Told(d)] EXCEPT ![c] = said]
            BY <3>5
        <3>8. Honest!Tell(c, said)
            BY <3>2, <3>3, <3>4, <3>7 DEF Honest!Tell
        <3> QED
            BY <3>6, <3>8 DEF Honest!Next
    <2>4. ASSUME NEW c \in Calls, Performs(c) PROVE mark' # mark
        BY <2>4 DEF Performs
    <2> QED
        BY <2>1, <2>2, <2>3, <2>4, CallShapes DEF GoesOn, Honest!Next
<1> QED
    BY <1>1, <1>2, CallInvariance, NextMarked, PTL DEF Spec, Honest!Spec

------------------------------------------------------------------------------
(* What FilePlaneProofs proves of the plane, for the holders of this       *)
(* module: its definitions are FilePlane's own under another name.         *)
PlaneProofs == INSTANCE FilePlaneProofs WITH Requests <- Holders

(* What the plane's proofs read of the standard modules is what this       *)
(* module reads.                                                           *)
LEMMA SameFiniteSets == \A S : PlaneProofs!IsFiniteSet(S) <=> IsFiniteSet(S)
BY DEF IsFiniteSet, PlaneProofs!IsFiniteSet

(* Counting means the same under both names. *)
LEMMA SameCardinality == \A S : PlaneProofs!Cardinality(S) = Plane!Cardinality(S)
BY DEF PlaneProofs!Cardinality, Plane!Cardinality, PlaneProofs!IsFiniteSet,
       Plane!IsFiniteSet

(* Sweeping means the same under both names. *)
LEMMA SameSweep ==
    /\ PlaneProofs!SweptUsed = Plane!SweptUsed
    /\ PlaneProofs!SweptEntry = Plane!SweptEntry
    /\ PlaneProofs!Outstanding = Plane!Outstanding
<1>1. PlaneProofs!SweptUsed = Plane!SweptUsed
    BY DEF PlaneProofs!SweptUsed, Plane!SweptUsed, PlaneProofs!Expired, Plane!Expired,
           PlaneProofs!MapThenSumSet, PlaneProofs!MapThenFoldSet,
           Plane!MapThenSumSet, Plane!MapThenFoldSet
<1>2. PlaneProofs!SweptEntry = Plane!SweptEntry
    BY DEF PlaneProofs!SweptEntry, Plane!SweptEntry, PlaneProofs!Expired, Plane!Expired,
           PlaneProofs!Absent, Plane!Absent
<1>3. PlaneProofs!Outstanding = Plane!Outstanding
    BY <1>2, SameCardinality DEF PlaneProofs!Outstanding, Plane!Outstanding
<1> QED
    BY <1>1, <1>2, <1>3

(* The plane's steps are the same under both names. *)
LEMMA SameSteps == Plane!Next <=> PlaneProofs!Next
BY SameSweep
DEF Plane!Next, PlaneProofs!Next, Plane!Sweep, PlaneProofs!Sweep,
    Plane!Tick, PlaneProofs!Tick, Plane!Reserve, PlaneProofs!Reserve,
    Plane!HasRoom, PlaneProofs!HasRoom, Plane!Fits, PlaneProofs!Fits,
    Plane!HeldAs, PlaneProofs!HeldAs, Plane!Holding, PlaneProofs!Holding,
    Plane!OneLess, PlaneProofs!OneLess, Plane!Nothing, PlaneProofs!Nothing,
    Plane!Absent, PlaneProofs!Absent, Plane!Stage, PlaneProofs!Stage,
    Plane!Release, PlaneProofs!Release, Plane!ReturnBytes, PlaneProofs!ReturnBytes,
    Plane!AuthorizeDownload, PlaneProofs!AuthorizeDownload,
    Plane!Serve, PlaneProofs!Serve, Plane!AuthorizeUpload, PlaneProofs!AuthorizeUpload,
    Plane!Claim, PlaneProofs!Claim, Plane!Complete, PlaneProofs!Complete,
    Plane!TakeReceived, PlaneProofs!TakeReceived

(* The plane's inductive invariant: values, places and bytes. *)
PlaneInv == PlaneProofs!ValueInv /\ PlaneProofs!CountInv /\ PlaneProofs!ByteInv

(* Whatever calls and transfers do together, the plane's inductive         *)
(* invariant holds.                                                        *)
THEOREM PlaneInvariance == Spec => []PlaneInv
<1>1. Init => PlaneInv
    <2>1. Init => PlaneProofs!Init
        BY DEF Init, Plane!Init, PlaneProofs!Init, Plane!Absent, PlaneProofs!Absent,
               Plane!Nothing, PlaneProofs!Nothing
    <2> QED
        BY <2>1, PlaneAssumption, SameFiniteSets, PlaneProofs!InitValueInv,
           PlaneProofs!InitCountInv, PlaneProofs!InitByteInv DEF PlaneInv
<1>2. PlaneInv /\ [Next]_vars => PlaneInv'
    <2> SUFFICES ASSUME PlaneInv, [Next]_vars PROVE PlaneInv'
        OBVIOUS
    <2>1. [PlaneProofs!Next]_(PlaneProofs!vars)
        BY NextIsPlaneNext, SameSteps DEF Plane!vars, PlaneProofs!vars
    <2> QED
        BY <2>1, PlaneAssumption, SameFiniteSets, PlaneProofs!NextValueInv,
           PlaneProofs!NextCountInv, PlaneProofs!NextByteInv DEF PlaneInv
<1> QED
    BY <1>1, <1>2, PTL DEF Spec

(* What the plane's variables may hold, under both names. *)
LEMMA SameTypes == PlaneProofs!TypeOK <=> Plane!TypeOK
BY DEF PlaneProofs!TypeOK, Plane!TypeOK, PlaneProofs!Places, Plane!Places,
       PlaneProofs!Holdings, Plane!Holdings

(* What the plane promises, under both names. *)
LEMMA SamePromises ==
    /\ PlaneProofs!ReservedIsExact <=> Plane!ReservedIsExact
    /\ PlaneProofs!CeilingHolds <=> Plane!CeilingHolds
    /\ PlaneProofs!BudgetIsExact <=> Plane!BudgetIsExact
    /\ PlaneProofs!BudgetHolds <=> Plane!BudgetHolds
    /\ PlaneProofs!RedeemedAtMostOnce <=> Plane!RedeemedAtMostOnce
    /\ PlaneProofs!OnlyNewestTicketServes <=> Plane!OnlyNewestTicketServes
<1>0. PlaneProofs!Promised = Plane!Promised /\ PlaneProofs!Present = Plane!Present
    BY DEF PlaneProofs!Promised, Plane!Promised, PlaneProofs!Present, Plane!Present
<1>1. PlaneProofs!ReservedIsExact <=> Plane!ReservedIsExact
    BY <1>0, SameCardinality DEF PlaneProofs!ReservedIsExact, Plane!ReservedIsExact
<1>2. PlaneProofs!CeilingHolds <=> Plane!CeilingHolds
    BY <1>0, SameCardinality DEF PlaneProofs!CeilingHolds, Plane!CeilingHolds
<1>3. PlaneProofs!BudgetIsExact <=> Plane!BudgetIsExact
    BY DEF PlaneProofs!BudgetIsExact, Plane!BudgetIsExact,
       PlaneProofs!MapThenSumSet, PlaneProofs!MapThenFoldSet,
       Plane!MapThenSumSet, Plane!MapThenFoldSet
<1>4. PlaneProofs!BudgetHolds <=> Plane!BudgetHolds
    BY DEF PlaneProofs!BudgetHolds, Plane!BudgetHolds
<1>5. PlaneProofs!RedeemedAtMostOnce <=> Plane!RedeemedAtMostOnce
    BY DEF PlaneProofs!RedeemedAtMostOnce, Plane!RedeemedAtMostOnce
<1>6. PlaneProofs!OnlyNewestTicketServes <=> Plane!OnlyNewestTicketServes
    BY DEF PlaneProofs!OnlyNewestTicketServes, Plane!OnlyNewestTicketServes
<1> QED
    BY <1>1, <1>2, <1>3, <1>4, <1>5, <1>6

(* Every variable of the calls and of the plane they share keeps its type. *)
THEOREM TypeCorrect == Spec => []TypeOK
<1>1. CallInv /\ PlaneInv => TypeOK
    <2>1. PlaneInv => PlaneProofs!TypeOK
        BY PlaneAssumption, SameFiniteSets, PlaneProofs!InvariantsGiveTypes DEF PlaneInv
    <2> QED
        BY <2>1, SameTypes DEF TypeOK, CallInv, CallTypes
<1> QED
    BY <1>1, CallInvariance, PlaneInvariance, PTL

------------------------------------------------------------------------------
(* What lets a call go on: these are the guards of its own steps.          *)
CanDrop(slot) == req[slot].holds \in {"slot", "claim", "unwinding", "body"}

CallCanGoOn(c) ==
    \/ at[c] \in {"idle", "prepared", "sent", "acted", "verified"}
    \/ at[c] = "received" /\ (Holds(Result(c), "nothing") \/ NoCapacity)
    \/ at[c] = "dispatched" /\ (Holds(Secret(c), "nothing") \/ NoCapacity \/ ~NeedsSlot(c))
    \/ at[c] = "built" /\ CanDrop(Secret(c))
    \/ at[c] = "built" /\ Holds(Secret(c), "nothing")
          /\ (args[c].file => Holds(Result(c), "slot") /\ NamesLeft)
    \/ at[c] = "closing" /\ (CanDrop(Secret(c)) \/ CanDrop(Result(c)))
    \/ at[c] = "closing" /\ OwnsNothing(c)

(* A call never waits for a place that somebody else holds: wherever it is *)
(* and however full the plane, one of its own steps is possible.  (As long *)
(* as the model has a name left; the program draws random ones.)           *)
NoCallWaits == NamesLeft => \A c \in Calls : at[c] # "done" => CallCanGoOn(c)

(* The safety half of EveryCallEnds for any number of calls and any size   *)
(* of the plane: what a call needs late it was promised early, so a full   *)
(* plane refuses calls at the door and never holds one up inside.          *)
THEOREM CallsNeverWait == Spec => []NoCallWaits
<1>1. PlacesInv /\ TypeOK => NoCallWaits
    <2> SUFFICES ASSUME PlacesInv, TypeOK, NamesLeft, NEW c \in Calls, at[c] # "done"
                 PROVE  CallCanGoOn(c)
        BY DEF NoCallWaits
    <2>1. at[c] \in Phases \ {"done"}
        BY DEF TypeOK
    <2>2. req[Secret(c)].holds \in Plane!Holdings /\ req[Result(c)].holds \in Plane!Holdings
        BY SlotsAreApart DEF TypeOK, Plane!TypeOK
    <2>3. CASE at[c] \in {"idle", "received", "dispatched", "prepared", "sent", "acted", "verified"}
        BY <2>3 DEF PlacesInv, OwnsNothing, CallCanGoOn
    <2>4. CASE at[c] = "built"
        BY <2>2, <2>4
        DEF PlacesInv, OwnsResult, CallCanGoOn, CanDrop, Holds, Plane!Holdings
    <2>5. CASE at[c] = "closing"
        BY <2>2, <2>5 DEF OwnsNothing, CallCanGoOn, CanDrop, Holds, Plane!Holdings
    <2> QED
        BY <2>1, <2>3, <2>4, <2>5 DEF Phases
<1> QED
    BY <1>1, PlacesInvariance, TypeCorrect, PTL

------------------------------------------------------------------------------
(* How many steps a call has still to take: three per phase, of which two  *)
(* are there to drop a slot, and what it is dropping.                      *)
PhasesLeft == [idle |-> 9, received |-> 8, dispatched |-> 7, prepared |-> 6, sent |-> 5,
               acted |-> 4, verified |-> 3, built |-> 2, closing |-> 1, done |-> 0]

DropsLeft(slot) ==
    CASE Holds(slot, "nothing") -> 0
      [] Holds(slot, "slot") \/ Holds(slot, "claim") -> 2
      [] OTHER -> 1

StepsLeft(c) == 3 * PhasesLeft[at[c]] + DropsLeft(Secret(c)) + DropsLeft(Result(c))

(* Every step of a call takes it nearer to its end, and no other call and  *)
(* no transfer takes it back: nothing is tried twice.                      *)
CallsRunOut ==
    [][\A c \in Calls : \/ StepsLeft(c)' < StepsLeft(c)
                        \/ UNCHANGED <<at[c], req[Secret(c)], req[Result(c)]>>]_vars

LEMMA DropsAreFew == \A slot \in Holders : DropsLeft(slot) \in 0..2 /\ DropsLeft(slot)' \in 0..2
BY DEF DropsLeft, Holds

LEMMA PhasesAreFew == \A p \in Phases : PhasesLeft[p] \in 0..9
BY DEF Phases, PhasesLeft

LEMMA CallsAreFew ==
    TypeOK /\ PlacesInv => \A c \in Calls : at[c] # "idle" => StepsLeft(c) \in 0..24
<1> SUFFICES ASSUME TypeOK, PlacesInv, NEW c \in Calls, at[c] # "idle"
             PROVE  StepsLeft(c) \in 0..24
    OBVIOUS
<1>1. DropsLeft(Secret(c)) \in 0..2 /\ DropsLeft(Result(c)) \in 0..2
    BY DropsAreFew, SlotsAreApart
<1>2. at[c] \in Phases \ {"idle"}
    BY DEF TypeOK
<1>3. StepsLeft(c) = 3 * PhasesLeft[at[c]] + DropsLeft(Secret(c)) + DropsLeft(Result(c))
    BY DEF StepsLeft
<1>4. CASE at[c] = "received"
    <2>1. DropsLeft(Secret(c)) = 0 /\ DropsLeft(Result(c)) = 0
        BY <1>4 DEF PlacesInv, OwnsNothing, DropsLeft, Holds
    <2>2. PhasesLeft[at[c]] = 8
        BY <1>4 DEF PhasesLeft
    <2> QED
        BY <1>3, <2>1, <2>2
<1>5. CASE at[c] = "dispatched"
    <2>1. DropsLeft(Secret(c)) = 0
        BY <1>5 DEF PlacesInv, DropsLeft, Holds
    <2>2. PhasesLeft[at[c]] = 7
        BY <1>5 DEF PhasesLeft
    <2> QED
        BY <1>1, <1>3, <2>1, <2>2
<1>6. CASE at[c] \notin {"received", "dispatched"}
    <2>1. PhasesLeft[at[c]] \in 0..6
        BY <1>2, <1>6 DEF PhasesLeft, Phases
    <2> QED
        BY <1>1, <1>3, <2>1
<1> QED
    BY <1>4, <1>5, <1>6

(* A step on to a later phase may fill or empty one slot of its call. *)
LEMMA OnwardStep ==
    ASSUME TypeOK, NEW d \in Calls, NEW to \in Phases, NEW slot \in {Secret(d), Result(d)},
           at' = [at EXCEPT ![d] = to], PhasesLeft[to] < PhasesLeft[at[d]],
           \A h \in Holders \ {slot} : req'[h] = req[h],
           NEW c \in Calls
    PROVE  StepsLeft(c)' < StepsLeft(c) \/ UNCHANGED <<at[c], req[Secret(c)], req[Result(c)]>>
<1>1. CASE c # d
    BY <1>1, SlotsAreApart DEF TypeOK
<1>2. CASE c = d
    <2> DEFINE s == Secret(c)
               r == Result(c)
    <2>1. /\ DropsLeft(s) \in 0..2 /\ DropsLeft(s)' \in 0..2
          /\ DropsLeft(r) \in 0..2 /\ DropsLeft(r)' \in 0..2
        BY DropsAreFew, SlotsAreApart
    <2>2. \/ req'[s] = req[s]
          \/ req'[r] = req[r]
        BY <1>2, SlotsAreApart
    <2>3. DropsLeft(s)' = DropsLeft(s) \/ DropsLeft(r)' = DropsLeft(r)
        BY <2>2 DEF DropsLeft, Holds
    <2>4. /\ PhasesLeft[at[c]] \in 0..9 /\ PhasesLeft[at'[c]] \in 0..9
          /\ PhasesLeft[at'[c]] < PhasesLeft[at[c]]
        BY <1>2, PhasesAreFew DEF TypeOK
    <2>5. StepsLeft(c)' = 3 * PhasesLeft[at'[c]] + DropsLeft(s)' + DropsLeft(r)'
        BY DEF StepsLeft, PhasesLeft, Secret, Result
    <2>6. StepsLeft(c) = 3 * PhasesLeft[at[c]] + DropsLeft(s) + DropsLeft(r)
        BY DEF StepsLeft
    <2> HIDE DEF s, r
    <2> QED
        BY <2>1, <2>3, <2>4, <2>5, <2>6
<1> QED
    BY <1>1, <1>2

(* Dropping a slot takes at most two steps. *)
LEMMA DropStep ==
    ASSUME TypeOK, NEW d \in Calls, NEW slot \in {Secret(d), Result(d)}, DropSlot(slot),
           NEW c \in Calls
    PROVE  StepsLeft(c)' < StepsLeft(c) \/ UNCHANGED <<at[c], req[Secret(c)], req[Result(c)]>>
<1>1. /\ at' = at
      /\ \A h \in Holders \ {slot} : req'[h] = req[h]
      /\ DropsLeft(slot)' < DropsLeft(slot)
    BY SlotsAreApart
    DEF DropSlot, callVars, Plane!Release, Plane!ReturnBytes, Plane!HeldAs, Plane!Holding,
        Plane!Nothing, DropsLeft, Holds, TypeOK, Plane!TypeOK
<1>2. CASE c # d
    BY <1>1, <1>2, SlotsAreApart
<1>3. CASE c = d
    <2> DEFINE s == Secret(c)
               r == Result(c)
    <2>1. /\ DropsLeft(s) \in 0..2 /\ DropsLeft(s)' \in 0..2
          /\ DropsLeft(r) \in 0..2 /\ DropsLeft(r)' \in 0..2
        BY DropsAreFew, SlotsAreApart
    <2>2. \/ req'[s] = req[s] /\ DropsLeft(r)' < DropsLeft(r)
          \/ req'[r] = req[r] /\ DropsLeft(s)' < DropsLeft(s)
        BY <1>1, <1>3, SlotsAreApart
    <2>3. \/ DropsLeft(s)' = DropsLeft(s) /\ DropsLeft(r)' < DropsLeft(r)
          \/ DropsLeft(r)' = DropsLeft(r) /\ DropsLeft(s)' < DropsLeft(s)
        BY <2>2 DEF DropsLeft, Holds
    <2>4. PhasesLeft[at[c]] \in 0..9
        BY PhasesAreFew DEF TypeOK
    <2>5. StepsLeft(c)' = 3 * PhasesLeft[at[c]] + DropsLeft(s)' + DropsLeft(r)'
        BY <1>1 DEF StepsLeft, PhasesLeft, Secret, Result
    <2>6. StepsLeft(c) = 3 * PhasesLeft[at[c]] + DropsLeft(s) + DropsLeft(r)
        BY DEF StepsLeft
    <2> HIDE DEF s, r
    <2> QED
        BY <2>1, <2>3, <2>4, <2>5, <2>6
<1> QED
    BY <1>2, <1>3

LEMMA CallSteps ==
    ASSUME TypeOK, Next, NEW c \in Calls
    PROVE  StepsLeft(c)' < StepsLeft(c) \/ UNCHANGED <<at[c], req[Secret(c)], req[Result(c)]>>
<1> DEFINE Goal == \/ StepsLeft(c)' < StepsLeft(c)
                   \/ UNCHANGED <<at[c], req[Secret(c)], req[Result(c)]>>
<1> HIDE DEF Goal
<1>0. ASSUME NEW d \in Calls, NEW to \in Phases, NEW slot \in {Secret(d), Result(d)},
             at' = [at EXCEPT ![d] = to], PhasesLeft[to] < PhasesLeft[at[d]],
             \A h \in Holders \ {slot} : req'[h] = req[h]
      PROVE  Goal
    BY <1>0, OnwardStep DEF Goal
<1>1. ASSUME NEW d \in Calls, ReserveResult(d) \/ ReserveSecret(d) PROVE Goal
    <2>1. PICK slot \in {Secret(d), Result(d)} : Plane!Reserve(slot)
        BY <1>1 DEF ReserveResult, ReserveSecret
    <2>2. \A h \in Holders \ {slot} : req'[h] = req[h]
        BY <2>1, SlotsAreApart DEF Plane!Reserve, TypeOK, Plane!TypeOK
    <2> QED
        BY <1>0, <1>1, <2>2
        DEF ReserveResult, ReserveSecret, Goes, Phases, PhasesLeft
<1>2. ASSUME NEW d \in Calls, NEW size \in EnvelopeSizes, StageSecret(d, size) \/ WrapResult(d, size)
      PROVE Goal
    <2>1. PICK slot \in {Secret(d), Result(d)} : Plane!Stage(slot, NewName, size)
        BY <1>2 DEF StageSecret, WrapResult
    <2>2. \A h \in Holders \ {slot} : req'[h] = req[h]
        BY <2>1, SlotsAreApart DEF Plane!Stage, TypeOK, Plane!TypeOK
    <2> QED
        BY <1>0, <1>2, <2>2
        DEF StageSecret, WrapResult, Goes, Replies, Phases, PhasesLeft
<1>3. ASSUME NEW d \in Calls, NEW from \in Phases, NEW to \in Phases, Goes(d, from, to),
             PhasesLeft[to] < PhasesLeft[from], req' = req
      PROVE  Goal
    BY <1>0, <1>3 DEF Goes
<1>4. ASSUME NEW d \in Calls, Receive(d) \/ RefuseTier(d) \/ Upstream(d) PROVE Goal
    <2>1. req' = req
        BY <1>4 DEF Receive, RefuseTier, Upstream, RefuseLocally, PreflightFails, Send, Act,
           Reject, LoseAnswer, Verify, Cancel, SamePlane, planeVars
    <2>2. \E from, to \in Phases : Goes(d, from, to) /\ PhasesLeft[to] < PhasesLeft[from]
        BY <1>4 DEF Receive, RefuseTier, Upstream, RefuseLocally, PreflightFails, Send, Act,
           Reject, LoseAnswer, Verify, Cancel, Replies, Phases, PhasesLeft
    <2> QED
        BY <1>3, <2>1, <2>2
<1>5. ASSUME NEW d \in Calls, \/ RefuseResult(d) \/ RefuseArguments(d) \/ RefuseSecret(d)
                              \/ RefuseUpload(d) \/ Prepare(d) \/ \E n \in Names : TakeUpload(d, n)
      PROVE Goal
    <2>1. req' = req
        BY <1>5 DEF RefuseResult, RefuseArguments, RefuseSecret, RefuseUpload, Prepare,
           TakeUpload, SamePlane, planeVars, Plane!Sweep, Plane!TakeReceived
    <2>2. \E from, to \in Phases : Goes(d, from, to) /\ PhasesLeft[to] < PhasesLeft[from]
        BY <1>5 DEF RefuseResult, RefuseArguments, RefuseSecret, RefuseUpload, Prepare,
           TakeUpload, Replies, Phases, PhasesLeft
    <2> QED
        BY <1>3, <2>1, <2>2
<1>6. ASSUME NEW d \in Calls, \/ Build(d) \/ FailToBuild(d) \/ ReturnInline(d)
                              \/ ReturnOversized(d) \/ Answer(d)
      PROVE Goal
    <2>1. req' = req
        BY <1>6 DEF Build, FailToBuild, ReturnInline, ReturnOversized, Answer, SamePlane, planeVars
    <2>2. \E from, to \in Phases : Goes(d, from, to) /\ PhasesLeft[to] < PhasesLeft[from]
        BY <1>6 DEF Build, FailToBuild, ReturnInline, ReturnOversized, Answer, Replies,
           Phases, PhasesLeft
    <2> QED
        BY <1>3, <2>1, <2>2
<1>7. ASSUME NEW d \in Calls, DropSlot(Secret(d)) \/ DropSlot(Result(d)) PROVE Goal
    BY <1>7, DropStep DEF Goal
<1>8. ASSUME at' = at, \A h \in Holders \ Transfers : req'[h] = req[h] PROVE Goal
    BY <1>8, SlotsAreApart DEF Goal
<1>9. ASSUME NEW r \in Transfers, Transfer(r) PROVE Goal
    <2>1. at' = at
        BY <1>9 DEF Transfer, callVars
    <2>2. \A h \in Holders : h # r => req'[h] = req[h]
        BY <1>9 DEF Transfer, Holders, TypeOK, Plane!TypeOK, Plane!Release,
           Plane!ReturnBytes, Plane!Complete, Plane!Claim, Plane!Serve
    <2> QED
        BY <1>8, <2>1, <2>2
<1>10. ASSUME Authorize \/ Tick \/ Sweep PROVE Goal
    BY <1>8, <1>10 DEF Authorize, Tick, Sweep, callVars, Plane!AuthorizeDownload,
       Plane!AuthorizeUpload, Plane!Tick, Plane!Sweep
<1> QED
    BY <1>1, <1>2, <1>4, <1>5, <1>6, <1>7, <1>9, <1>10
    DEF Next, Before, Proceed, After, Goal

(* A call that was received takes at most twenty-four steps, those of its  *)
(* destructors included (dispatch_executor to the drop of its slots): with *)
(* CallsNeverWait, what is left of EveryCallEnds is that steps are taken.  *)
THEOREM CallsAreShort ==
    /\ Spec => [](\A c \in Calls : at[c] # "idle" => StepsLeft(c) \in 0..24)
    /\ Spec => CallsRunOut
<1>1. TypeOK /\ [Next]_vars =>
        [\A c \in Calls : \/ StepsLeft(c)' < StepsLeft(c)
                          \/ UNCHANGED <<at[c], req[Secret(c)], req[Result(c)]>>]_vars
    BY CallSteps
<1>2. Spec => [](\A c \in Calls : at[c] # "idle" => StepsLeft(c) \in 0..24)
    BY CallsAreFew, TypeCorrect, PlacesInvariance, PTL
<1>3. Spec => CallsRunOut
    BY <1>1, TypeCorrect, PTL DEF Spec, CallsRunOut
<1> QED
    BY <1>2, <1>3

------------------------------------------------------------------------------
(* The calls keep what the plane promises, whatever they stage, cancel or  *)
(* refuse: its places and bytes are accounted, and a ticket serves once    *)
(* (SecretReferenceStore under the dispatcher of server.rs).               *)
THEOREM PlaneKept ==
    Spec => [](Plane!PlacesAreAccounted /\ Plane!BytesAreAccounted /\ Plane!TicketsServeOnce)
<1>1. PlaneInv => /\ Plane!PlacesAreAccounted /\ Plane!BytesAreAccounted
                  /\ Plane!TicketsServeOnce
    <2>1. PlaneInv => PlaneProofs!BudgetIsExact /\ PlaneProofs!BudgetHolds
        BY PlaneAssumption, SameFiniteSets, PlaneProofs!InvariantBalances DEF PlaneInv
    <2>2. PlaneInv => PlaneProofs!ReservedIsExact /\ PlaneProofs!CeilingHolds
        BY DEF PlaneInv, PlaneProofs!CountInv
    <2>3. PlaneInv => PlaneProofs!RedeemedAtMostOnce /\ PlaneProofs!OnlyNewestTicketServes
        BY DEF PlaneInv, PlaneProofs!ValueInv
    <2> QED
        BY <2>1, <2>2, <2>3, SamePromises
        DEF Plane!PlacesAreAccounted, Plane!BytesAreAccounted, Plane!TicketsServeOnce
<1> QED
    BY <1>1, PlaneInvariance, PTL

(* Every step of calls and transfers is a step of the plane, by its other  *)
(* name.                                                                   *)
LEMMA NextIsPlaneStep == [Next]_vars => [PlaneProofs!Next]_(PlaneProofs!vars)
BY NextIsPlaneNext, SameSteps DEF Plane!vars, PlaneProofs!vars

(* No call and no transfer is handed, or spends, what has expired.         *)
THEOREM NothingStaleServed == Spec => Plane!NothingStaleIsUsed
<1>1. PlaneInv /\ [Next]_vars =>
        [\A n \in Names :
          /\ redeemed'[n] > redeemed[n] => entry[n].age <= Ttl
          /\ issued'[n] > issued[n] => entry[n].age <= Ttl
          /\ (\E r \in Holders : req[r].holds # "claim" /\ req'[r].holds = "claim"
                                    /\ req'[r].name = n) => entry[n].age <= Ttl]_(Plane!vars)
    BY NextIsPlaneStep, PlaneAssumption, SameFiniteSets, PlaneProofs!FreshSteps
    DEF PlaneInv, Plane!vars, PlaneProofs!vars
<1> QED
    BY <1>1, PlaneInvariance, PTL DEF Spec, Plane!NothingStaleIsUsed

(* Nothing that calls and transfers do gives a value they keep on the      *)
(* plane a longer life, another size or another map (authorize_download    *)
(* and the executors work on the same SecretReferenceStore).               *)
THEOREM NoCallRenewsAValue ==
    Spec => [][\A n \in Names : entry[n].at # "absent" =>
                  \/ entry'[n].at = "absent"
                  \/ /\ entry'[n].at = entry[n].at /\ entry'[n].bytes = entry[n].bytes
                     /\ entry'[n].age >= entry[n].age]_(Plane!vars)
<1>1. PlaneInv /\ [Next]_vars =>
        [\A n \in Names : entry[n].at # "absent" =>
            \/ entry'[n].at = "absent"
            \/ /\ entry'[n].at = entry[n].at /\ entry'[n].bytes = entry[n].bytes
               /\ entry'[n].age >= entry[n].age]_(Plane!vars)
    BY NextIsPlaneStep, PlaneAssumption, SameFiniteSets, PlaneProofs!AgingSteps
    DEF PlaneInv, Plane!vars, PlaneProofs!vars
<1> QED
    BY <1>1, PlaneInvariance, PTL DEF Spec

(* The life of a value on the plane that calls and transfers share.        *)
Lives == INSTANCE ValueLife WITH life <- [n \in Names |-> PlaneProofs!Life(n)]

(* A value that a call has staged, or an uploader was promised, moves only *)
(* forward, whatever other calls, their cancellation and the sweeper do.   *)
THEOREM ValuesGoForward == Spec => Lives!Spec
<1>1. Init => Lives!Init
    <2>1. Init => PlaneProofs!Init
        BY DEF Init, Plane!Init, PlaneProofs!Init, Plane!Absent, PlaneProofs!Absent,
               Plane!Nothing, PlaneProofs!Nothing
    <2> QED
        BY <2>1, PlaneAssumption, SameFiniteSets, PlaneProofs!InitLife
        DEF Lives!Init, PlaneProofs!Lives!Init
<1>2. PlaneInv /\ PlaneInv' /\ [Next]_vars =>
        [Lives!Next]_([n \in Names |-> PlaneProofs!Life(n)])
    <2>1. PlaneProofs!Lives!Next => Lives!Next
        BY DEF Lives!Next, PlaneProofs!Lives!Next, Lives!StepOf, PlaneProofs!Lives!StepOf,
               Lives!Stages, PlaneProofs!Lives!Stages, Lives!Moves, PlaneProofs!Lives!Moves,
               Lives!Losses, PlaneProofs!Lives!Losses
    <2> QED
        BY <2>1, NextIsPlaneStep, PlaneAssumption, SameFiniteSets, PlaneProofs!LifeSteps
        DEF PlaneInv
<1> QED
    BY <1>1, <1>2, PlaneInvariance, PTL DEF Spec, Lives!Spec
==============================================================================

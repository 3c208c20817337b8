--------------------------- MODULE SqlLeaseProofs ----------------------------
(***************************************************************************)
(* Theorems about SqlLease for any number of calls, leases and             *)
(* configurations.                                                         *)
(***************************************************************************)
EXTENDS SqlLease, TLAPS

(* Only leases that were made are live. *)
LiveIsOwned == live \subseteq {l \in Leases : owner[l] # None}

(* A call past its request has read a configuration and made a lease, of a *)
(* configuration that had the name at that time.                           *)
MadeIsNamed ==
    \A c \in Calls :
        /\ at[c] = "sent" => expected[c] # None
        /\ made[c] # None => expected[c] # None /\ owner[made[c]] \in Configs
        /\ at[c] \in {"made", "answered", "revoking", "revoked"} => made[c] # None

(* An answer is the damaged truth about the lease of the call or is about  *)
(* a lease that was made for another name.                                 *)
AnswerIsKnown ==
    \A c \in Calls :
        \/ answer[c] = NoResponse
        \/ /\ made[c] # None
           /\ answer[c].lease \in {made[c], None}
           /\ answer[c].of \in {owner[made[c]], None}
        \/ /\ answer[c].of \in Elsewhere
           /\ ~answer[c].asRequested

(* A call that has an answer: what remains to be done with it. *)
OutcomeIsJustified ==
    \A c \in Calls :
        /\ outcome[c] = "credentials" => Usable(c)
        /\ at[c] \in {"revoking", "revoked"} => CleanupTarget(c) # None
        /\ at[c] = "revoked" => CleanupTarget(c) \notin live
        /\ outcome[c] = "contract" =>
              CleanupTarget(c) = None \/ CleanupTarget(c) \notin live
        /\ outcome[c] # "none" => at[c] = "done"

(* An answer waits for its phase, and for the lease. *)
AnswerInPhase ==
    \A c \in Calls :
        /\ at[c] \in {"idle", "sent", "made"} => answer[c] = NoResponse
        /\ made[c] = None => answer[c] = NoResponse
        /\ at[c] \in {"idle", "sent"} => made[c] = None

(* A lease that was named in an answer has an owner, so it cannot be made  *)
(* once more.                                                              *)
NamedIsOwned ==
    \A c \in Calls : answer[c].lease # None => owner[answer[c].lease] # None

(* A lease is made by one call. *)
MadeOnce == \A c, d \in Calls : made[c] # None /\ made[c] = made[d] => c = d

IInv ==
    /\ TypeOK /\ LiveIsOwned /\ MadeIsNamed /\ AnswerIsKnown
    /\ OutcomeIsJustified /\ AnswerInPhase /\ NamedIsOwned
    /\ MadeOnce

LEMMA InitHolds == Init => IInv
PROOF
<1> SUFFICES ASSUME Init PROVE IInv
  OBVIOUS
<1>1. TypeOK
  BY SqlAssumption, NoneAssumption DEF Init, TypeOK, Phases, Responses, NoResponse, Outcomes
<1>2. LiveIsOwned /\ MadeIsNamed /\ AnswerIsKnown /\ AnswerInPhase
  BY DEF Init, LiveIsOwned, MadeIsNamed, AnswerIsKnown, AnswerInPhase
<1>3. OutcomeIsJustified /\ NamedIsOwned /\ MadeOnce
  BY DEF Init, OutcomeIsJustified, NamedIsOwned, MadeOnce, CleanupTarget, NoResponse
<1> QED
  BY <1>1, <1>2, <1>3 DEF IInv


(* What can be heard of a lease. *)
LEMMA HeardTruth ==
    ASSUME TypeOK, NEW c \in Calls, made[c] # None, NEW response \in Truth(made[c])
    PROVE  /\ response \in Responses
           /\ response.lease \in {made[c], None}
           /\ response.of \in {owner[made[c]], None}
PROOF
<1>1. made[c] \in Leases /\ owner[made[c]] \in Configs \cup Elsewhere \cup {None}
  BY DEF TypeOK
<1> QED
  BY <1>1 DEF Truth, Responses

LEMMA HeardCrossed ==
    ASSUME TypeOK, NEW response \in Crossed
    PROVE  /\ response \in Responses
           /\ response.lease \in Leases /\ owner[response.lease] \in Elsewhere
           /\ response.of \in Elsewhere /\ ~response.asRequested
PROOF
  BY DEF Crossed, Responses

LEMMA TypesKept == TypeOK /\ [Next]_vars => TypeOK'
PROOF
<1> SUFFICES ASSUME TypeOK, [Next]_vars PROVE TypeOK'
  OBVIOUS
<1> USE SqlAssumption, NoneAssumption
<1>1. CASE UNCHANGED vars
  BY <1>1 DEF TypeOK, vars
<1>2. ASSUME NEW c \in Calls, Step(c) PROVE TypeOK'
  <2>1. CASE Read(c)
    BY <2>1 DEF Read, TypeOK, upstream, Goes, Phases, Outcomes
  <2>2. CASE RefuseProvider(c)
    BY <2>2 DEF RefuseProvider, Ends, TypeOK, upstream, Goes, Phases, Outcomes
  <2>3. CASE Deliver(c)
    BY <2>3 DEF Deliver, Ends, TypeOK, upstream, Goes, Phases, Outcomes
  <2>4. CASE RefuseAnswer(c)
    BY <2>4 DEF RefuseAnswer, Ends, TypeOK, upstream, Goes, Phases, Outcomes
  <2>5. CASE AskRevocation(c)
    BY <2>5 DEF AskRevocation, TypeOK, upstream, Goes, Phases, Outcomes
  <2>6. CASE Revoke(c)
    BY <2>6 DEF Revoke, TypeOK, upstream, Goes, Phases, Outcomes
  <2>7. CASE AfterRevocation(c)
    BY <2>7 DEF AfterRevocation, Ends, TypeOK, upstream, Goes, Phases, Outcomes
  <2>8. CASE Fail(c)
    BY <2>8 DEF Fail, Ends, TypeOK, upstream, Goes, Phases, Outcomes
  <2>9. CASE Cancel(c)
    BY <2>9 DEF Cancel, Ends, TypeOK, upstream, Goes, Phases, Outcomes
  <2>10. ASSUME NEW l \in Leases, Make(c, l) PROVE TypeOK'
    BY <2>10 DEF Make, TypeOK, Goes, Phases, Outcomes
  <2>11. ASSUME made[c] # None, NEW response \in Truth(made[c]) \cup Crossed,
                Hear(c, response)
         PROVE TypeOK'
    <3>1. response \in Responses
      BY <2>11, HeardTruth, HeardCrossed
    <3> QED
      BY <2>11, <3>1 DEF Hear, TypeOK, upstream, Goes, Phases
  <2>12. CASE RevokeLate(c)
    BY <2>12 DEF RevokeLate, TypeOK
  <2>13. ASSUME NEW l \in Leases, MakeLate(c, l) PROVE TypeOK'
    BY <2>13 DEF MakeLate, TypeOK
  <2> QED
    BY <1>2, <2>1, <2>2, <2>3, <2>4, <2>5, <2>6, <2>7, <2>8, <2>9, <2>10, <2>11, <2>12,
       <2>13 DEF Step
<1>3. ASSUME NEW f \in Configs \cup {None}, Rename(f) PROVE TypeOK'
  BY <1>3 DEF Rename, TypeOK
<1>4. ASSUME NEW l \in Leases, Expire(l) PROVE TypeOK'
  BY <1>4 DEF Expire, TypeOK
<1> QED
  BY <1>1, <1>2, <1>3, <1>4 DEF Next

(* The rest of the invariant: first what a call knows and has made, then   *)
(* what its outcome says.                                                  *)
Knowledge == LiveIsOwned /\ MadeIsNamed /\ AnswerIsKnown /\ AnswerInPhase /\ NamedIsOwned

LEMMA KnowledgeKept == IInv /\ [Next]_vars => Knowledge'
PROOF
<1> SUFFICES ASSUME IInv, [Next]_vars PROVE Knowledge'
  OBVIOUS
<1> USE NoneAssumption, SqlAssumption, NamesAssumption DEF Knowledge
<1>1. CASE UNCHANGED vars
  BY <1>1 DEF IInv, vars, LiveIsOwned, MadeIsNamed, AnswerIsKnown, AnswerInPhase, NamedIsOwned
<1>2. ASSUME NEW c \in Calls, Step(c) PROVE Knowledge'
  <2> USE DEF IInv, TypeOK, LiveIsOwned, MadeIsNamed, AnswerIsKnown, AnswerInPhase,
              NamedIsOwned, Goes, upstream
  <2>1. CASE Read(c)
    BY <2>1 DEF Read
  <2>2. CASE RefuseProvider(c)
    BY <2>2 DEF RefuseProvider, Ends
  <2>3. CASE Deliver(c)
    BY <2>3 DEF Deliver, Ends
  <2>4. CASE RefuseAnswer(c)
    BY <2>4 DEF RefuseAnswer, Ends
  <2>5. CASE AskRevocation(c)
    BY <2>5 DEF AskRevocation
  <2>6. CASE Revoke(c)
    BY <2>6 DEF Revoke
  <2>7. CASE AfterRevocation(c)
    BY <2>7 DEF AfterRevocation, Ends
  <2>8. CASE Fail(c)
    BY <2>8 DEF Fail, Ends
  <2>9. CASE Cancel(c)
    BY <2>9 DEF Cancel, Ends
  <2>10. ASSUME NEW l \in Leases, Make(c, l) PROVE Knowledge'
    BY <2>10 DEF Make, NoResponse
  <2>11. ASSUME made[c] # None, NEW response \in Truth(made[c]) \cup Crossed,
                Hear(c, response)
         PROVE Knowledge'
    <3>1. CASE response \in Truth(made[c])
      BY <2>11, <3>1, HeardTruth DEF Hear
    <3>2. CASE response \in Crossed
      BY <2>11, <3>2, HeardCrossed DEF Hear
    <3> QED
      BY <2>11, <3>1, <3>2
  <2>12. CASE RevokeLate(c)
    BY <2>12 DEF RevokeLate
  <2>13. ASSUME NEW l \in Leases, MakeLate(c, l) PROVE Knowledge'
    BY <2>13 DEF MakeLate, GivenUp, NoResponse
  <2> QED
    BY <1>2, <2>1, <2>2, <2>3, <2>4, <2>5, <2>6, <2>7, <2>8, <2>9, <2>10, <2>11, <2>12,
       <2>13 DEF Step
<1>3. ASSUME NEW f \in Configs \cup {None}, Rename(f) PROVE Knowledge'
  BY <1>3 DEF Rename, IInv, LiveIsOwned, MadeIsNamed, AnswerIsKnown, AnswerInPhase, NamedIsOwned
<1>4. ASSUME NEW l \in Leases, Expire(l) PROVE Knowledge'
  BY <1>4 DEF Expire, IInv, LiveIsOwned, MadeIsNamed, AnswerIsKnown, AnswerInPhase, NamedIsOwned
<1> QED
  BY <1>1, <1>2, <1>3, <1>4 DEF Next

LEMMA OutcomeKept == IInv /\ [Next]_vars => OutcomeIsJustified'
PROOF
<1> SUFFICES ASSUME IInv, [Next]_vars, NEW d \in Calls
             PROVE  /\ outcome'[d] = "credentials" => Usable(d)'
                    /\ at'[d] \in {"revoking", "revoked"} => CleanupTarget(d)' # None
                    /\ at'[d] = "revoked" => CleanupTarget(d)' \notin live'
                    /\ outcome'[d] = "contract" =>
                          CleanupTarget(d)' = None \/ CleanupTarget(d)' \notin live'
                    /\ outcome'[d] # "none" => at'[d] = "done"
  BY DEF OutcomeIsJustified
<1> DEFINE Goal ==
             /\ outcome'[d] = "credentials" => Usable(d)'
             /\ at'[d] \in {"revoking", "revoked"} => CleanupTarget(d)' # None
             /\ at'[d] = "revoked" => CleanupTarget(d)' \notin live'
             /\ outcome'[d] = "contract" =>
                   CleanupTarget(d)' = None \/ CleanupTarget(d)' \notin live'
             /\ outcome'[d] # "none" => at'[d] = "done"
<1> USE NoneAssumption
<1>1. ASSUME UNCHANGED vars PROVE Goal
  BY <1>1 DEF IInv, vars, OutcomeIsJustified, Usable, CleanupTarget
<1>2. ASSUME NEW c \in Calls, Step(c) PROVE Goal
  <2> USE DEF IInv, TypeOK, OutcomeIsJustified, Goes, upstream
  <2>1. CASE Read(c)
    BY <2>1 DEF Read, Usable, CleanupTarget
  <2>2. CASE RefuseProvider(c)
    BY <2>2 DEF RefuseProvider, Ends, Usable, CleanupTarget
  <2>3. CASE Deliver(c)
    BY <2>3 DEF Deliver, Ends, Usable, CleanupTarget
  <2>4. CASE RefuseAnswer(c)
    BY <2>4 DEF RefuseAnswer, Ends, Usable, CleanupTarget
  <2>5. CASE AskRevocation(c)
    BY <2>5 DEF AskRevocation, Usable, CleanupTarget
  <2>6. CASE Revoke(c)
    BY <2>6 DEF Revoke, Usable, CleanupTarget
  <2>7. CASE AfterRevocation(c)
    BY <2>7 DEF AfterRevocation, Ends, Usable, CleanupTarget
  <2>8. CASE Fail(c)
    BY <2>8 DEF Fail, Ends, Usable, CleanupTarget
  <2>9. CASE Cancel(c)
    BY <2>9 DEF Cancel, Ends, Usable, CleanupTarget
  <2>10. ASSUME NEW l \in Leases, Make(c, l) PROVE Goal
    BY <2>10 DEF Make, Usable, CleanupTarget, NamedIsOwned
  <2>11. ASSUME NEW response, Hear(c, response) PROVE Goal
    BY <2>11 DEF Hear, Usable, CleanupTarget
  <2>12. CASE RevokeLate(c)
    BY <2>12 DEF RevokeLate, Usable, CleanupTarget
  <2>13. ASSUME NEW l \in Leases, MakeLate(c, l) PROVE Goal
    BY <2>13 DEF MakeLate, Usable, CleanupTarget, NamedIsOwned
  <2> HIDE DEF Goal
  <2> QED
    BY <1>2, <2>1, <2>2, <2>3, <2>4, <2>5, <2>6, <2>7, <2>8, <2>9, <2>10, <2>11, <2>12,
       <2>13 DEF Step
<1>3. ASSUME NEW f \in Configs \cup {None}, Rename(f) PROVE Goal
  BY <1>3 DEF Rename, IInv, OutcomeIsJustified, Usable, CleanupTarget
<1>4. ASSUME NEW l \in Leases, Expire(l) PROVE Goal
  BY <1>4 DEF Expire, IInv, OutcomeIsJustified, Usable, CleanupTarget
<1> HIDE DEF Goal
<1>5. Goal
  BY <1>1, <1>2, <1>3, <1>4 DEF Next
<1> QED
  BY <1>5 DEF Goal

LEMMA MadeOnceKept == IInv /\ [Next]_vars => MadeOnce'
PROOF
<1> SUFFICES ASSUME IInv, [Next]_vars PROVE MadeOnce'
  OBVIOUS
<1>1. CASE made' = made
  BY <1>1 DEF IInv, MadeOnce
<1>2. ASSUME NEW c \in Calls, NEW l \in Leases, Make(c, l) \/ MakeLate(c, l)
      PROVE  MadeOnce'
  <2>1. made' = [made EXCEPT ![c] = l] /\ owner[l] = None
    BY <1>2 DEF Make, MakeLate
  <2>2. \A d \in Calls : made[d] # l
    BY <2>1, NoneAssumption DEF IInv, MadeIsNamed
  <2> QED
    BY <2>1, <2>2 DEF IInv, TypeOK, MadeOnce
<1> QED
  BY <1>1, <1>2 DEF Next, Step, Read, RefuseProvider, Hear, Deliver, RefuseAnswer,
     AskRevocation, Revoke, AfterRevocation, Fail, Cancel, RevokeLate, Rename, Expire, vars

LEMMA Invariance == Spec => []IInv
PROOF
<1>1. IInv /\ [Next]_vars => IInv'
  <2> SUFFICES ASSUME IInv, [Next]_vars PROVE IInv'
    OBVIOUS
  <2>1. TypeOK'
    BY TypesKept DEF IInv
  <2> QED
    BY <2>1, KnowledgeKept, OutcomeKept, MadeOnceKept DEF IInv, Knowledge
<1> QED
  BY InitHolds, <1>1, PTL DEF Spec

(* Every state has the declared types, and no call but one that has read   *)
(* an SQL database asks for a lease.                                       *)
THEOREM TypeCorrectness == Spec => []TypeOK
PROOF
<1>1. IInv => TypeOK
  BY DEF IInv
<1> QED
  BY Invariance, <1>1, PTL

(* Credentials belong to the lease that this call and no other has made,   *)
(* of the configuration it has read.                                       *)
THEOREM CredentialsBound == Spec => []CredentialsAreOfTheReadConfig
PROOF
<1>1. IInv => CredentialsAreOfTheReadConfig
  <2> SUFFICES ASSUME IInv, NEW c \in Calls, outcome[c] = "credentials"
               PROVE  /\ answer[c].lease = made[c]
                      /\ owner[made[c]] = expected[c] /\ expected[c] \in Sql
                      /\ \A d \in Calls \ {c} : made[d] # made[c]
    BY DEF CredentialsAreOfTheReadConfig
  <2>1. Usable(c)
    BY DEF IInv, OutcomeIsJustified
  <2>2. made[c] # None /\ answer[c].lease = made[c] /\ answer[c].of \in {owner[made[c]], None}
    BY <2>1 DEF IInv, AnswerIsKnown, NoResponse, Usable
  <2>3. expected[c] # None /\ expected[c] \in Sql
    BY <2>2 DEF IInv, MadeIsNamed, TypeOK
  <2>4. \A d \in Calls \ {c} : made[d] # made[c]
    BY <2>2 DEF IInv, MadeOnce
  <2> QED
    BY <2>1, <2>2, <2>3, <2>4 DEF Usable
<1> QED
  BY Invariance, <1>1, PTL

(* A refused answer leaves no working lease behind that the call could     *)
(* have recognised as its own.                                             *)
THEOREM Compensation == Spec => []RefusedLeaseIsRevoked
PROOF
<1>1. IInv => RefusedLeaseIsRevoked
  <2> SUFFICES ASSUME IInv, NEW c \in Calls, outcome[c] = "contract",
                      answer[c].lease = made[c], answer[c].of = owner[made[c]],
                      owner[made[c]] = expected[c]
               PROVE  made[c] \notin live
    BY DEF RefusedLeaseIsRevoked
  <2>1. CASE made[c] = None
    BY <2>1, NoneAssumption DEF IInv, TypeOK
  <2>2. CASE made[c] # None
    <3>1. owner[made[c]] # None
      BY <2>2, NoneAssumption DEF IInv, MadeIsNamed
    <3>2. CleanupTarget(c) = made[c]
      BY <3>1 DEF CleanupTarget
    <3> QED
      BY <2>2, <3>2 DEF IInv, OutcomeIsJustified
  <2> QED
    BY <2>1, <2>2
<1> QED
  BY Invariance, <1>1, PTL

(* No call revokes a lease that its own request has not made, not even by  *)
(* a revocation that is performed after the call has given it up.          *)
THEOREM OthersUntouched == Spec => OthersAreNotTouched
PROOF
<1> DEFINE A == \A c \in Calls, l \in live \ live' :
              Revoke(c) \/ RevokeLate(c) => l = made[c]
<1>1. IInv => [A]_vars
  <2> SUFFICES ASSUME IInv, NEW d \in Calls, NEW l \in live \ live',
                      Revoke(d) \/ RevokeLate(d)
               PROVE  l = made[d]
    OBVIOUS
  <2>1. l = CleanupTarget(d) /\ l # None
    BY NoneAssumption DEF Revoke, RevokeLate, IInv, TypeOK
  <2>2. answer[d].lease = l
    BY <2>1 DEF CleanupTarget
  <2>3. ~(answer[d].of \in Elsewhere /\ ~answer[d].asRequested)
    BY <2>1, NoneAssumption, NamesAssumption, SqlAssumption
       DEF CleanupTarget, IInv, TypeOK
  <2> QED
    BY <2>1, <2>2, <2>3 DEF IInv, AnswerIsKnown, NoResponse
<1>2. Spec => [][A]_vars
  BY Invariance, <1>1, PTL
<1> QED
  BY <1>2 DEF OthersAreNotTouched

-----------------------------------------------------------------------------
(* What a call tells its caller of the lease it has asked for: credentials *)
(* that it was made, a refused provider that it was not, everything else   *)
(* leaves it open.                                                         *)
Told(c) ==
    IF outcome[c] = "none" THEN "nothing"
    ELSE IF outcome[c] = "credentials" THEN "done"
    ELSE IF outcome[c] = "refused" THEN "refused" ELSE "unknown"

Honest == INSTANCE HonestCall WITH
    applied <- [c \in Calls |-> IF made[c] = None THEN 0 ELSE 1],
    said <- [c \in Calls |-> Told(c)]

(* A provider is refused before a lease is asked for. *)
RefusedIsUnmade == \A c \in Calls : outcome[c] = "refused" => made[c] = None

LEMMA RefusedKept == IInv /\ RefusedIsUnmade /\ [Next]_vars => RefusedIsUnmade'
PROOF
<1> SUFFICES ASSUME IInv, RefusedIsUnmade, [Next]_vars PROVE RefusedIsUnmade'
  OBVIOUS
<1> USE DEF IInv, TypeOK, RefusedIsUnmade, Goes, Ends
<1>1. CASE made' = made /\ outcome' = outcome
  BY <1>1
<1>2. ASSUME NEW c \in Calls, NEW result \in Outcomes \ {"refused"},
             made' = made, outcome' = [outcome EXCEPT ![c] = result]
      PROVE  RefusedIsUnmade'
  BY <1>2
<1>3. ASSUME NEW c \in Calls, RefuseProvider(c) PROVE RefusedIsUnmade'
  BY <1>3 DEF RefuseProvider, AnswerInPhase
<1>4. ASSUME NEW c \in Calls, NEW l \in Leases, Make(c, l) PROVE RefusedIsUnmade'
  BY <1>4 DEF Make, OutcomeIsJustified
<1>5. ASSUME NEW c \in Calls, NEW l \in Leases, MakeLate(c, l) PROVE RefusedIsUnmade'
  BY <1>5 DEF MakeLate, GivenUp
<1> QED
  BY <1>1, <1>2, <1>3, <1>4, <1>5 DEF Next, Step, Read, Hear, Deliver, RefuseAnswer,
     AskRevocation, Revoke, AfterRevocation, Fail, Cancel, RevokeLate, Rename, Expire,
     vars, Outcomes

(* A call makes at most one lease, also if its request is performed after  *)
(* the call has given up; credentials mean that it was made, a refused     *)
(* provider that it never will be.                                         *)
THEOREM CallsAreHonest == Spec => Honest!Spec
PROOF
<1>1. Init => RefusedIsUnmade /\ Honest!Init
  BY DEF Init, RefusedIsUnmade, Honest!Init, Told
<1>2. IInv /\ RefusedIsUnmade /\ [Next]_vars => [Honest!Next]_(Honest!vars)
  <2> SUFFICES ASSUME IInv, RefusedIsUnmade, [Next]_vars,
                      ~(made' = made /\ outcome' = outcome)
               PROVE  Honest!Next
    BY DEF Honest!vars, Told
  <2> USE DEF IInv, TypeOK
  <2>1. ASSUME NEW c \in Calls, NEW l \in Leases, Make(c, l) \/ MakeLate(c, l)
        PROVE  Honest!Apply(c)
    <3>1. /\ made[c] = None /\ outcome[c] \in {"none", "client", "cancelled"}
          /\ made' = [made EXCEPT ![c] = l] /\ outcome' = outcome /\ l # None
      BY <2>1, NoneAssumption
      DEF Make, MakeLate, GivenUp, Goes, AnswerInPhase, OutcomeIsJustified
    <3>2. [d \in Calls |-> IF made'[d] = None THEN 0 ELSE 1]
            = [[d \in Calls |-> IF made[d] = None THEN 0 ELSE 1] EXCEPT ![c] = 1]
      BY <3>1
    <3> QED
      BY <3>1, <3>2 DEF Honest!Apply, Told
  <2>2. ASSUME NEW c \in Calls, NEW result \in Outcomes \ {"none"}, at[c] # "done",
               made' = made, outcome' = [outcome EXCEPT ![c] = result],
               result = "credentials" => made[c] # None,
               result = "refused" => made[c] = None
        PROVE  Honest!Next
    <3> DEFINE said == IF result = "credentials" THEN "done"
                       ELSE IF result = "refused" THEN "refused" ELSE "unknown"
    <3>1. outcome[c] = "none"
      BY <2>2 DEF OutcomeIsJustified
    <3>2. [d \in Calls |-> Told(d)]' = [[d \in Calls |-> Told(d)] EXCEPT ![c] = said]
      BY <2>2 DEF Told
    <3>3. Honest!Tell(c, said)
      BY <2>2, <3>1, <3>2 DEF Honest!Tell, Told
    <3> QED
      BY <3>3 DEF Honest!Next, Honest!Answers
  <2>3. ASSUME NEW c \in Calls, Deliver(c) PROVE Honest!Next
    <3>1. made[c] # None /\ at[c] # "done"
      BY <2>3 DEF Deliver, Ends, Goes, MadeIsNamed
    <3> QED
      BY <2>2, <2>3, <3>1 DEF Deliver, Ends, Outcomes
  <2>4. ASSUME NEW c \in Calls, RefuseProvider(c) PROVE Honest!Next
    <3>1. made[c] = None /\ at[c] # "done"
      BY <2>4 DEF RefuseProvider, Ends, Goes, AnswerInPhase
    <3> QED
      BY <2>2, <2>4, <3>1 DEF RefuseProvider, Ends, Outcomes
  <2>5. ASSUME NEW c \in Calls,
               RefuseAnswer(c) \/ AfterRevocation(c) \/ Fail(c) \/ Cancel(c)
        PROVE  Honest!Next
    <3>1. PICK result \in {"contract", "client", "cancelled"} :
            at[c] # "done" /\ made' = made /\ outcome' = [outcome EXCEPT ![c] = result]
      BY <2>5 DEF RefuseAnswer, AfterRevocation, Fail, Cancel, Ends, Goes
    <3> QED
      BY <2>2, <3>1 DEF Outcomes
  <2> QED
    BY <2>1, <2>3, <2>4, <2>5 DEF Next, Step, Read, Hear, AskRevocation, Revoke,
       RevokeLate, Rename, Expire, vars, Honest!Next
<1> QED
  BY Invariance, RefusedKept, <1>1, <1>2, PTL DEF Spec, Honest!Spec
=============================================================================

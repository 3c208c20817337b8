-------------------------- MODULE AuthClientProofs ---------------------------
(***************************************************************************)
(* Proofs about AuthClient for any set of callers and flights, any number  *)
(* of slots and any cooldowns: type correctness, a single login at a time, *)
(* failures closed before they are published, bounded replay, and the      *)
(* implementation of LoginGate, and that nobody waits in a circle; of      *)
(* AuthHistory, on the same invariant, that withdrawn tokens stay out of   *)
(* the cache, that logins respect the pause which the last failed one      *)
(* earned, and how alone a repeated read can meet its refused token.       *)
(***************************************************************************)
EXTENDS AuthHistory, TLAPS

(* A task that has not called finish_refresh is the flight in in_flight.   *)
UnsettledIsCurrent ==
    \A f \in Flights : flight[f] \in Unsettled => inFlight = f

(* A settled flight has left in_flight. *)
SettledIsClosed ==
    \A f \in Flights : flight[f] \in {"settled", "sent"} => inFlight # f

(* A recorded failure means that no flight is current. *)
FailureMeansNoFlight == cooldown # None => inFlight = None

(* The refresh mutex is held exactly in "decide". *)
LockInDecide == \A c \in Callers : pc[c] = "decide" <=> holder = c

(* What a task has to report agrees with how far it got. *)
OutcomeMatches ==
    \A f \in Flights :
        /\ flight[f] \in {"queued", "air", "got", "cached"} => outcome[f] = None
        /\ flight[f] = "failed" => outcome[f] \in Failures

(* A waiter holds a channel, and the user of a token a token. *)
Holds ==
    \A c \in Callers : pc[c] \in {"wait", "slot", "air", "reject"} => ref[c] # None

(* How many requests have been sent, by place and replay policy. *)
SentSoFar ==
    \A c \in Callers :
        /\ pc[c] = "idle" => sent[c] = 0
        /\ pc[c] \in {"fast", "lock", "decide", "wait", "slot"} =>
              sent[c] = 0 \/ (sent[c] = 1 /\ op[c] = "read")
        /\ pc[c] \in {"air", "reject"} =>
              sent[c] = 1 \/ (sent[c] = 2 /\ op[c] = "read")

IInv ==
    /\ TypeOK /\ UnsettledIsCurrent /\ SettledIsClosed /\ FailureMeansNoFlight
    /\ LockInDecide /\ OutcomeMatches /\ Holds /\ SentSoFar

------------------------------------------------------------------------------
(* The cooldown of every failure is at least a tick and within bounds. *)
LEMMA CooldownBounds ==
    ASSUME NEW failure \in Failures
    PROVE  CooldownFor(failure) \in 1..MaxRetryAfter
<1> DEFINE minimum == IF failure.kind = "refused" THEN RejectionCooldown
                                                  ELSE FailureCooldown
<1>1. failure.retryAfter \in 0..MaxRetryAfter
    BY TimingAssumption DEF Failures
<1>2. minimum \in 1..MaxRetryAfter
    BY TimingAssumption
<1>3. CooldownFor(failure) = AtMost(AtLeast(minimum, failure.retryAfter), MaxRetryAfter)
    BY DEF CooldownFor
<1> QED
    BY <1>1, <1>2, <1>3, TimingAssumption DEF AtMost, AtLeast

LEMMA NoAnswerIsFailure == NoAnswer \in Failures
BY TimingAssumption DEF NoAnswer, Failures

(* The initial state satisfies the inductive invariant. *)
LEMMA InitIInv == Init => IInv
BY NoneAssumption, TimingAssumption
   DEF Init, IInv, TypeOK, UnsettledIsCurrent, SettledIsClosed,
       FailureMeansNoFlight, LockInDecide, OutcomeMatches, Holds, SentSoFar,
       CallerStates, FlightStates, Unsettled

(* Every step preserves it. *)
LEMMA NextIInv == IInv /\ [Next]_vars => IInv'
<1> SUFFICES ASSUME IInv, [Next]_vars PROVE IInv'
    OBVIOUS
<1> USE NoneAssumption, TimingAssumption, OpsAssumption
    DEF IInv, TypeOK, UnsettledIsCurrent, SettledIsClosed,
        FailureMeansNoFlight, LockInDecide, OutcomeMatches, Holds, SentSoFar,
        CallerStates, FlightStates, Unsettled, coordinator, tasks, callers
<1>1. ASSUME NEW c \in Callers, NEW o \in Ops, Begin(c, o) PROVE IInv'
    BY <1>1 DEF Begin
<1>2. ASSUME NEW c \in Callers, FastPath(c) PROVE IInv'
    BY <1>2 DEF FastPath, UseToken, Goto, FreshToken
<1>3. ASSUME NEW c \in Callers, LockAndRecheck(c) PROVE IInv'
    BY <1>3 DEF LockAndRecheck, UseToken, Goto, FreshToken
<1>4. ASSUME NEW c \in Callers, Refuse(c) PROVE IInv'
    BY <1>4 DEF Refuse, Leave
<1>5. ASSUME NEW c \in Callers, Join(c) PROVE IInv'
    BY <1>5 DEF Join, Await
<1>6. ASSUME NEW c \in Callers, NEW f \in Flights, Launch(c, f) PROVE IInv'
    BY <1>6 DEF Launch, Await
<1>7. ASSUME NEW c \in Callers, Receive(c) PROVE IInv'
    BY <1>7 DEF Receive, UseToken, Leave
<1>8. ASSUME NEW c \in Callers, Interrupted(c) PROVE IInv'
    BY CooldownBounds, NoAnswerIsFailure, <1>8 DEF Interrupted, Leave, FinishRefresh
<1>9. ASSUME NEW c \in Callers, Send(c) PROVE IInv'
    BY <1>9 DEF Send
<1>10. ASSUME NEW c \in Callers, Starved(c) PROVE IInv'
    BY <1>10 DEF Starved, Leave
<1>11. ASSUME NEW c \in Callers, Answered(c) PROVE IInv'
    BY <1>11 DEF Answered, Leave
<1>12. ASSUME NEW c \in Callers, Unauthorized(c) PROVE IInv'
    BY <1>12 DEF Unauthorized, Goto
<1>13. ASSUME NEW c \in Callers, Withdraw(c) PROVE IInv'
    BY <1>13 DEF Withdraw, Leave, MayRepeat
<1>14. ASSUME NEW c \in Callers, Cancel(c) PROVE IInv'
    BY <1>14 DEF Cancel, Leave
<1>15. ASSUME NEW f \in Flights, LoginAdmitted(f) PROVE IInv'
    BY <1>15 DEF LoginAdmitted
<1>16. ASSUME NEW f \in Flights, LoginStarved(f) PROVE IInv'
    BY NoAnswerIsFailure, <1>16 DEF LoginStarved, LoginFails
<1>17. ASSUME NEW f \in Flights, LoginRefused(f) PROVE IInv'
    BY <1>17 DEF LoginRefused, LoginFails
<1>18. ASSUME NEW f \in Flights, LoginGranted(f) PROVE IInv'
    BY <1>18 DEF LoginGranted
<1>19. ASSUME NEW f \in Flights, CacheToken(f) PROVE IInv'
    BY <1>19 DEF CacheToken
<1>20. ASSUME NEW f \in Flights, Settle(f) PROVE IInv'
    BY CooldownBounds, <1>20 DEF Settle, FinishRefresh
<1>21. ASSUME NEW f \in Flights, Publish(f) PROVE IInv'
    BY <1>21 DEF Publish
<1>22. ASSUME NEW f \in Flights, TaskDies(f) PROVE IInv'
    BY <1>22 DEF TaskDies
<1>23. ASSUME Tick PROVE IInv'
    BY <1>23 DEF Tick, RunDown
<1>24. CASE UNCHANGED vars
    BY <1>24 DEF vars
<1> QED
    BY <1>1, <1>2, <1>3, <1>4, <1>5, <1>6, <1>7, <1>8, <1>9, <1>10, <1>11,
       <1>12, <1>13, <1>14, <1>15, <1>16, <1>17, <1>18, <1>19, <1>20, <1>21,
       <1>22, <1>23, <1>24
    DEF Next, CallerStep, TaskStep

(* The inductive invariant holds in every reachable state. *)
THEOREM Invariance == Spec => []IInv
<1>1. Init => IInv
    BY InitIInv
<1>2. IInv /\ [Next]_vars => IInv'
    BY NextIInv
<1> QED
    BY <1>1, <1>2, PTL DEF Spec

------------------------------------------------------------------------------
(* The variables of client.rs's state keep their types. *)
THEOREM TypeCorrectness == Spec => []TypeOK
<1>1. IInv => TypeOK
    BY DEF IInv
<1> QED
    BY <1>1, Invariance, PTL

(* For any number of callers, whatever they do and however tasks end, two  *)
(* logins are never under way: both would be the flight in in_flight.      *)
THEOREM SingleLogin == Spec => []AtMostOneLogin
<1>1. IInv => AtMostOneLogin
    BY DEF IInv, UnsettledIsCurrent, Unsettled, AtMostOneLogin
<1> QED
    BY <1>1, Invariance, PTL

(* A failure reaches the waiters only after its flight was closed. *)
THEOREM FailureClosed == Spec => []FailureClosedBeforePublished
<1>1. IInv => FailureClosedBeforePublished
    BY DEF IInv, SettledIsClosed, FailureClosedBeforePublished
<1> QED
    BY <1>1, Invariance, PTL

(* in_flight never lags behind the logins. *)
THEOREM CurrentCoordinator == Spec => []CoordinatorIsCurrent
BY SingleLogin, FailureClosed, PTL DEF CoordinatorIsCurrent

(* Only a read is repeated, and only once. *)
THEOREM BoundedReplay == Spec => []ReplayBound
<1>1. IInv => ReplayBound
    BY DEF IInv, TypeOK, SentSoFar, CallerStates, ReplayBound
<1> QED
    BY <1>1, Invariance, PTL

------------------------------------------------------------------------------
(* What a caller can do next without anybody else's help, and what a login *)
(* task can: these are the guards of CallerStep and TaskStep.              *)
CallerCanGoOn(c) ==
    \/ pc[c] \in {"fast", "slot", "air", "reject"}
    \/ pc[c] = "lock" /\ holder = None
    \/ pc[c] = "decide" /\ (Cooling \/ inFlight # None \/ \E f \in Flights : Unreferenced(f))
    \/ pc[c] = "wait" /\ flight[ref[c]] = "sent"
    \/ pc[c] = "wait" /\ flight[ref[c]] = "dead" /\ holder = None

TaskCanGoOn(f) ==
    \/ flight[f] \in {"queued", "air", "got", "settled"}
    \/ flight[f] \in {"cached", "failed"} /\ holder = None

(* A caller that cannot go on waits for the holder of the mutex or for the *)
(* task of its flight, and that one can: nobody waits in a circle.  (As    *)
(* long as the model has an identity left for one more login; the program  *)
(* has no such limit.)                                                     *)
NobodyWaitsInACircle ==
    (\E f \in Flights : Unreferenced(f)) =>
       \A c \in Callers : pc[c] # "idle" =>
          \/ CallerCanGoOn(c)
          \/ holder \in Callers \ {c} /\ CallerCanGoOn(holder)
          \/ pc[c] = "wait" /\ ref[c] \in Flights /\ TaskCanGoOn(ref[c])

(* The safety half of EveryCallerIsAnswered, for any number of callers: no *)
(* deadlock among callers, tasks and the refresh mutex, which a task takes *)
(* before it publishes and a waiter of a dead flight before it returns.    *)
THEOREM NoCircularWait == Spec => []NobodyWaitsInACircle
<1>1. IInv => NobodyWaitsInACircle
    <2> SUFFICES ASSUME IInv, NEW g \in Flights, Unreferenced(g),
                        NEW c \in Callers, pc[c] # "idle", ~CallerCanGoOn(c)
                 PROVE  \/ holder \in Callers \ {c} /\ CallerCanGoOn(holder)
                        \/ pc[c] = "wait" /\ ref[c] \in Flights /\ TaskCanGoOn(ref[c])
        BY DEF NobodyWaitsInACircle
    <2>1. holder # None => /\ holder \in Callers \ {c}
                           /\ CallerCanGoOn(holder)
        BY NoneAssumption DEF IInv, TypeOK, LockInDecide, CallerCanGoOn
    <2>2. CASE holder = None
        <3>1. pc[c] = "wait" /\ flight[ref[c]] \notin {"sent", "dead"}
            BY <2>2, NoneAssumption
            DEF IInv, TypeOK, CallerStates, CallerCanGoOn, LockInDecide
        <3>2. ref[c] \in Flights
            BY <3>1 DEF IInv, TypeOK, Holds
        <3> QED
            BY <2>2, <3>1, <3>2 DEF IInv, TypeOK, FlightStates, TaskCanGoOn
    <2> QED
        BY <2>1, <2>2
<1> QED
    BY <1>1, Invariance, PTL

------------------------------------------------------------------------------
(* How many steps an operation has still to take: one per place, and seven *)
(* more while a second attempt is open to it.                              *)
PlacesLeft == [fast |-> 7, lock |-> 6, decide |-> 5, wait |-> 4, slot |-> 3,
               air |-> 2, reject |-> 1, idle |-> 0]

InFirstAttempt(c) ==
    \/ pc[c] \in {"fast", "lock", "decide", "wait", "slot"} /\ sent[c] = 0
    \/ pc[c] \in {"air", "reject"} /\ sent[c] = 1

StepsLeft(c) == PlacesLeft[pc[c]] + IF InFirstAttempt(c) THEN 7 ELSE 0

(* How many steps a login task has still to take until it is over. *)
StagesLeft == [queued |-> 5, air |-> 4, got |-> 3, cached |-> 2, failed |-> 2,
               settled |-> 1, sent |-> 0, dead |-> 0]

(* Every step of an operation takes it nearer to its end, and nobody       *)
(* else's step takes it back.                                              *)
OperationsRunOut ==
    [][\A c \in Callers : pc[c] # "idle" =>
          \/ StepsLeft(c)' < StepsLeft(c)
          \/ UNCHANGED <<pc[c], op[c], ref[c], sent[c]>>]_vars

(* So does every step of a login task; and the identity of a login that    *)
(* somebody waits for, or whose token somebody uses, is not used again.    *)
LoginsRunOut ==
    [][\A f \in Flights :
          \/ StagesLeft[flight'[f]] < StagesLeft[flight[f]]
          \/ flight'[f] = flight[f]
          \/ \A c \in Callers : ref[c] # f]_vars

(* What tasks and the clock do changes no caller, and of all a caller does *)
(* only the start of a login changes a flight.                             *)
LEMMA TasksKeepCallers ==
    (\E f \in Flights : TaskStep(f) \/ TaskDies(f)) \/ Tick => UNCHANGED <<pc, op, ref, sent>>
BY DEF TaskStep, TaskDies, LoginAdmitted, LoginStarved, LoginRefused, LoginFails,
       LoginGranted, CacheToken, Settle, Publish, Tick, callers

LEMMA CallersKeepFlights ==
    ASSUME NEW c \in Callers, CallerStep(c) \/ Cancel(c) \/ \E o \in Ops : Begin(c, o)
    PROVE  (\E f \in Flights : Launch(c, f)) \/ UNCHANGED flight
BY DEF CallerStep, Cancel, FastPath, Refuse, Join, LockAndRecheck, Receive, Interrupted,
       Send, Starved, Answered, Unauthorized, Withdraw, Begin, tasks

LEMMA StepsAreFew == IInv => \A c \in Callers : StepsLeft(c) \in 0..14
BY DEF IInv, TypeOK, CallerStates, StepsLeft, PlacesLeft, InFirstAttempt

LEMMA OperationSteps ==
    ASSUME IInv, Next, NEW c \in Callers, pc[c] # "idle"
    PROVE  StepsLeft(c)' < StepsLeft(c) \/ UNCHANGED <<pc[c], op[c], ref[c], sent[c]>>
<1> DEFINE Goal == \/ StepsLeft(c)' < StepsLeft(c)
                   \/ UNCHANGED <<pc[c], op[c], ref[c], sent[c]>>
<1> USE NoneAssumption
    DEF IInv, TypeOK, SentSoFar, CallerStates, StepsLeft, PlacesLeft, InFirstAttempt
<1>1. ASSUME NEW d \in Callers, NEW o \in Ops, Begin(d, o) PROVE Goal
    BY <1>1 DEF Begin
<1>2. ASSUME NEW d \in Callers, Leave(d) PROVE Goal
    BY <1>2 DEF Leave
<1>3. ASSUME NEW d \in Callers, FastPath(d) PROVE Goal
    BY <1>3 DEF FastPath, UseToken, Goto
<1>4. ASSUME NEW d \in Callers, LockAndRecheck(d) PROVE Goal
    BY <1>4 DEF LockAndRecheck, UseToken, Goto
<1>5. ASSUME NEW d \in Callers, NEW f \in Flights, pc[d] = "decide", Await(d, f) PROVE Goal
    BY <1>5 DEF Await
<1>6. ASSUME NEW d \in Callers, Receive(d) PROVE Goal
    BY <1>2, <1>6 DEF Receive, UseToken
<1>7. ASSUME NEW d \in Callers, Send(d) PROVE Goal
    BY <1>7 DEF Send
<1>8. ASSUME NEW d \in Callers, Unauthorized(d) PROVE Goal
    BY <1>8 DEF Unauthorized, Goto
<1>9. ASSUME NEW d \in Callers, Withdraw(d) PROVE Goal
    BY <1>2, <1>9 DEF Withdraw, MayRepeat
<1>10. ASSUME UNCHANGED <<pc, op, ref, sent>> PROVE Goal
    BY <1>10
<1> HIDE DEF Goal
<1>11. ASSUME NEW d \in Callers, CallerStep(d) \/ Cancel(d) PROVE Goal
    <2>1. CASE Join(d)
        BY <1>5, <2>1, NoneAssumption DEF Join, IInv, TypeOK
    <2>2. ASSUME NEW f \in Flights, Launch(d, f) PROVE Goal
        BY <1>5, <2>2 DEF Launch
    <2> QED
        BY <1>2, <1>3, <1>4, <1>6, <1>7, <1>8, <1>9, <1>11, <2>1, <2>2
        DEF CallerStep, Cancel, Refuse, Interrupted, Starved, Answered
<1>12. ASSUME (\E f \in Flights : TaskStep(f) \/ TaskDies(f)) \/ Tick PROVE Goal
    BY <1>10, <1>12, TasksKeepCallers
<1> QED
    BY <1>1, <1>11, <1>12 DEF Next, Goal

LEMMA LoginSteps ==
    ASSUME IInv, Next, NEW f \in Flights
    PROVE  \/ StagesLeft[flight'[f]] < StagesLeft[flight[f]]
           \/ flight'[f] = flight[f]
           \/ \A c \in Callers : ref[c] # f
<1> DEFINE Goal == \/ StagesLeft[flight'[f]] < StagesLeft[flight[f]]
                   \/ flight'[f] = flight[f]
                   \/ \A c \in Callers : ref[c] # f
<1> USE DEF IInv, TypeOK, FlightStates, StagesLeft
<1>1. ASSUME NEW c \in Callers, NEW g \in Flights, Launch(c, g) PROVE Goal
    BY <1>1 DEF Launch, Unreferenced
<1>2. ASSUME NEW g \in Flights, LoginAdmitted(g) PROVE Goal
    BY <1>2 DEF LoginAdmitted
<1>3. ASSUME NEW g \in Flights, LoginStarved(g) PROVE Goal
    BY <1>3 DEF LoginStarved, LoginFails
<1>4. ASSUME NEW g \in Flights, LoginRefused(g) PROVE Goal
    BY <1>4 DEF LoginRefused, LoginFails
<1>5. ASSUME NEW g \in Flights, LoginGranted(g) PROVE Goal
    BY <1>5 DEF LoginGranted
<1>6. ASSUME NEW g \in Flights, CacheToken(g) PROVE Goal
    BY <1>6 DEF CacheToken
<1>7. ASSUME NEW g \in Flights, Settle(g) PROVE Goal
    BY <1>7 DEF Settle
<1>8. ASSUME NEW g \in Flights, Publish(g) PROVE Goal
    BY <1>8 DEF Publish
<1>9. ASSUME NEW g \in Flights, TaskDies(g) PROVE Goal
    BY <1>9 DEF TaskDies
<1>10. ASSUME UNCHANGED flight PROVE Goal
    BY <1>10
<1> HIDE DEF Goal
<1>11. ASSUME NEW c \in Callers,
              CallerStep(c) \/ Cancel(c) \/ \E o \in Ops : Begin(c, o)
       PROVE  Goal
    BY <1>1, <1>10, <1>11, CallersKeepFlights
<1>12. ASSUME Tick PROVE Goal
    BY <1>10, <1>12 DEF Tick, tasks
<1> QED
    BY <1>2, <1>3, <1>4, <1>5, <1>6, <1>7, <1>8, <1>9, <1>11, <1>12
    DEF Next, TaskStep, Goal

(* An operation of access_token and its use takes at most fourteen steps,  *)
(* the repetition of a refused read included: with NoCircularWait, what is *)
(* left of EveryCallerIsAnswered is that who can go on does.               *)
THEOREM OperationsAreShort ==
    Spec => [](\A c \in Callers : StepsLeft(c) \in 0..14) /\ OperationsRunOut
<1>1. IInv /\ [Next]_vars =>
        [\A c \in Callers : pc[c] # "idle" =>
            \/ StepsLeft(c)' < StepsLeft(c)
            \/ UNCHANGED <<pc[c], op[c], ref[c], sent[c]>>]_vars
    BY OperationSteps
<1> QED
    BY <1>1, StepsAreFew, Invariance, PTL DEF Spec, OperationsRunOut

(* The detached login task of access_token moves on with each of its steps *)
(* until it has told its waiters or died, and its channel serves no other  *)
(* login as long as somebody holds it.                                     *)
THEOREM LoginsAreShort == Spec => LoginsRunOut
<1>1. IInv /\ [Next]_vars =>
        [\A f \in Flights :
          \/ StagesLeft[flight'[f]] < StagesLeft[flight[f]]
          \/ flight'[f] = flight[f]
          \/ \A c \in Callers : ref[c] # f]_vars
    BY LoginSteps
<1> QED
    BY <1>1, Invariance, PTL DEF Spec, LoginsRunOut

------------------------------------------------------------------------------
(* Every step of the client is a step of the gate or leaves it alone. *)
LEMMA StepOfGate == IInv /\ [Next]_vars => [LG!GateNext]_Gate
<1> SUFFICES ASSUME IInv, [Next]_vars PROVE [LG!GateNext]_Gate
    OBVIOUS
<1> USE NoneAssumption, TimingAssumption
    DEF IInv, TypeOK, UnsettledIsCurrent, FailureMeansNoFlight, OutcomeMatches,
        Unsettled, Holds, Gate, Cooling, coordinator, LG!GateNext, LG!Start,
        LG!Succeed, LG!Fail, LG!Reopen
<1>1. CASE UNCHANGED <<inFlight, cooldown>>
    BY <1>1
<1>2. ASSUME NEW c \in Callers, Join(c) PROVE [LG!GateNext]_Gate
    BY <1>2 DEF Join, Await
<1>3. ASSUME NEW c \in Callers, NEW f \in Flights, Launch(c, f)
      PROVE  [LG!GateNext]_Gate
    BY <1>3 DEF Launch, Await
<1>4. ASSUME NEW c \in Callers, Interrupted(c) PROVE [LG!GateNext]_Gate
    BY <1>4, CooldownBounds, NoAnswerIsFailure DEF Interrupted, FinishRefresh
<1>5. ASSUME NEW f \in Flights, Settle(f) PROVE [LG!GateNext]_Gate
    BY <1>5, CooldownBounds DEF Settle, FinishRefresh
<1>6. CASE Tick
    BY <1>6 DEF Tick, RunDown
<1> QED
    BY <1>1, <1>2, <1>3, <1>4, <1>5, <1>6
    DEF Next, CallerStep, TaskStep, vars, Begin, FastPath, LockAndRecheck,
        Refuse, Receive, Send, Starved, Answered, Unauthorized, Withdraw,
        Cancel, LoginAdmitted, LoginStarved, LoginRefused, LoginFails,
        LoginGranted, CacheToken, Publish, TaskDies

(* The client implements the gate it promises Infisical: logins one at a   *)
(* time, none while a failed one cools off.                                *)
THEOREM ImplementsGate == Spec => GateSpec
<1>1. Init => LG!GateInit
    BY DEF Init, LG!GateInit, Gate, Cooling
<1>2. IInv /\ [Next]_vars => [LG!GateNext]_Gate
    BY StepOfGate
<1> QED
    BY <1>1, <1>2, Invariance, PTL DEF Spec, GateSpec, LG!GateSpec

------------------------------------------------------------------------------
(* With the history variables: what was refused, and the pause left.       *)
HistoryTypes ==
    /\ refused \in [Callers -> Flights \cup {None}]
    /\ rejected \subseteq Flights
    /\ penalty \in 0..MaxRetryAfter

(* A token reaches callers only through the cache or after it was cached,  *)
(* so a withdrawn token is one whose task can no longer cache it.          *)
PastCaching == {"cached", "settled", "sent"}
TokensWereCached ==
    /\ cache # None => flight[cache] \in PastCaching
    /\ \A f \in rejected : flight[f] \in PastCaching
    /\ \A c \in Callers : pc[c] \in {"slot", "air", "reject"} =>
                            flight[ref[c]] \in PastCaching

(* The pause still owed is covered by the recorded cooldown, or by the one *)
(* that the current flight is going to record.                             *)
PauseIsCovered ==
    /\ inFlight = None => penalty <= (IF cooldown = None THEN 0 ELSE cooldown)
    /\ \A f \in Flights : inFlight = f =>
          /\ flight[f] \in {"queued", "air", "got", "cached"} => penalty = 0
          /\ flight[f] = "failed" => penalty <= CooldownFor(outcome[f])
          /\ flight[f] = "dead" => penalty <= CooldownFor(NoAnswer)

HInv ==
    /\ IInv /\ HistoryTypes /\ TokensWereCached /\ PauseIsCovered
    /\ WithdrawnTokenStaysOut

------------------------------------------------------------------------------
(* Every step of AuthHistory is a step of AuthClient. *)
LEMMA ObservedStep == HNext => Next
BY DEF HNext, Next, CallerStep, TaskStep, ObserveWithdraw, ObserveLaunch,
       ObserveFailure, ObserveTick, ObserveOther, OtherStep

(* The recorded cooldown is never shorter than the pause that is owed. *)
LEMMA CooldownCoversPause ==
    ASSUME NEW failure \in Failures
    PROVE  Owed(failure) \in 0..MaxRetryAfter /\ Owed(failure) <= CooldownFor(failure)
<1> DEFINE minimum == IF failure.kind = "refused" THEN RejectionCooldown
                                                  ELSE FailureCooldown
<1>1. failure.retryAfter \in 0..MaxRetryAfter
    BY TimingAssumption DEF Failures
<1>2. minimum \in 1..MaxRetryAfter
    BY TimingAssumption
<1>3. CooldownFor(failure) = AtMost(AtLeast(minimum, failure.retryAfter), MaxRetryAfter)
    BY DEF CooldownFor
<1>4. Owed(failure) = AtLeast(minimum, failure.retryAfter)
    BY DEF Owed
<1> QED
    BY <1>1, <1>2, <1>3, <1>4, TimingAssumption DEF AtMost, AtLeast

LEMMA InitHInv == HInit => HInv
BY InitIInv, NoneAssumption, TimingAssumption
   DEF HInit, Init, HInv, HistoryTypes, TokensWereCached, PauseIsCovered,
       WithdrawnTokenStaysOut

LEMMA NextHInv == HInv /\ [HNext]_hvars => HInv'
<1> SUFFICES ASSUME HInv, [HNext]_hvars PROVE HInv'
    OBVIOUS
<1>1. IInv'
    BY ObservedStep, NextIInv DEF HInv, hvars
<1> USE <1>1, NoneAssumption, TimingAssumption
    DEF HInv, HistoryTypes, TokensWereCached, PauseIsCovered, PastCaching,
        WithdrawnTokenStaysOut, IInv, TypeOK, UnsettledIsCurrent,
        SettledIsClosed, OutcomeMatches, Holds, Unsettled, FlightStates,
        FailureMeansNoFlight, CallerStates, coordinator, tasks, callers
<1>2. ASSUME NEW c \in Callers, ObserveWithdraw(c) PROVE HInv'
    BY <1>2
    DEF ObserveWithdraw, Withdraw, Leave, MayRepeat
<1>3. ASSUME NEW c \in Callers, NEW f \in Flights, ObserveLaunch(c, f) PROVE HInv'
    BY <1>3
    DEF ObserveLaunch, Launch, Await, Unreferenced, Cooling
<1>4. ASSUME NEW f \in Flights, ObserveFailure(f) PROVE HInv'
    BY <1>4, CooldownCoversPause, NoAnswerIsFailure
    DEF ObserveFailure, LoginStarved, LoginRefused, LoginFails, TaskDies
<1>5. ASSUME ObserveTick PROVE HInv'
    BY <1>5, CooldownBounds, NoAnswerIsFailure
    DEF ObserveTick, Tick, RunDown
<1>6. CASE ObserveOther
    <2>1. /\ refused' = [c \in Callers |-> IF pc'[c] = "idle" THEN None
                                                          ELSE refused[c]]
          /\ UNCHANGED <<rejected, penalty>>
        BY <1>6 DEF ObserveOther
    <2>2. ASSUME NEW c \in Callers, NEW o \in Ops, Begin(c, o) PROVE HInv'
        BY <2>1, <2>2 DEF Begin
    <2>3. ASSUME NEW c \in Callers, FastPath(c) PROVE HInv'
        BY <2>1, <2>3 DEF FastPath, UseToken, Goto, FreshToken
    <2>4. ASSUME NEW c \in Callers, LockAndRecheck(c) PROVE HInv'
        BY <2>1, <2>4 DEF LockAndRecheck, UseToken, Goto, FreshToken
    <2>5. ASSUME NEW c \in Callers, Refuse(c) PROVE HInv'
        BY <2>1, <2>5 DEF Refuse, Leave
    <2>6. ASSUME NEW c \in Callers, Join(c) PROVE HInv'
        BY <2>1, <2>6 DEF Join, Await
    <2>7. ASSUME NEW c \in Callers, Receive(c) PROVE HInv'
        BY <2>1, <2>7 DEF Receive, UseToken, Leave
    <2>8. ASSUME NEW c \in Callers, Interrupted(c) PROVE HInv'
        <3>1. HistoryTypes' /\ TokensWereCached' /\ WithdrawnTokenStaysOut'
            BY <2>1, <2>8 DEF Interrupted, FinishRefresh, Leave
        <3>2. CASE inFlight = ref[c]
            <4>1. inFlight' = None /\ cooldown' = CooldownFor(NoAnswer)
                BY <2>8, <3>2, NoAnswerIsFailure
                DEF Interrupted, FinishRefresh
            <4>2. penalty <= CooldownFor(NoAnswer)
                BY <2>8, <3>2 DEF Interrupted
            <4> QED
                BY <2>1, <3>1, <4>1, <4>2, CooldownBounds, NoAnswerIsFailure
        <3>3. CASE inFlight # ref[c]
            BY <2>1, <2>8, <3>1, <3>3 DEF Interrupted, FinishRefresh
        <3> QED
            BY <3>2, <3>3
    <2>9. ASSUME NEW c \in Callers, Send(c) PROVE HInv'
        BY <2>1, <2>9 DEF Send
    <2>10. ASSUME NEW c \in Callers, Starved(c) PROVE HInv'
        BY <2>1, <2>10 DEF Starved, Leave
    <2>11. ASSUME NEW c \in Callers, Answered(c) PROVE HInv'
        BY <2>1, <2>11 DEF Answered, Leave
    <2>12. ASSUME NEW c \in Callers, Unauthorized(c) PROVE HInv'
        BY <2>1, <2>12 DEF Unauthorized, Goto
    <2>13. ASSUME NEW c \in Callers, Cancel(c) PROVE HInv'
        BY <2>1, <2>13 DEF Cancel, Leave
    <2>14. ASSUME NEW f \in Flights, LoginAdmitted(f) PROVE HInv'
        BY <2>1, <2>14 DEF LoginAdmitted
    <2>15. ASSUME NEW f \in Flights, LoginGranted(f) PROVE HInv'
        BY <2>1, <2>15 DEF LoginGranted
    <2>16. ASSUME NEW f \in Flights, CacheToken(f) PROVE HInv'
        BY <2>1, <2>16 DEF CacheToken
    <2>17. ASSUME NEW f \in Flights, Settle(f) PROVE HInv'
        <3>1. HistoryTypes' /\ TokensWereCached' /\ WithdrawnTokenStaysOut'
            BY <2>1, <2>17 DEF Settle, FinishRefresh
        <3>2. inFlight = f /\ inFlight' = None
            BY <2>17 DEF Settle, FinishRefresh
        <3>3. CASE outcome[f] = None
            BY <2>1, <2>17, <3>1, <3>2, <3>3 DEF Settle, FinishRefresh
        <3>4. CASE outcome[f] # None
            BY <2>1, <2>17, <3>1, <3>2, <3>4, CooldownBounds
            DEF Settle, FinishRefresh
        <3> QED
            BY <3>3, <3>4
    <2>18. ASSUME NEW f \in Flights, Publish(f) PROVE HInv'
        BY <2>1, <2>18 DEF Publish
    <2> QED
        BY <1>6, <2>2, <2>3, <2>4, <2>5, <2>6, <2>7, <2>8, <2>9,
           <2>10, <2>11, <2>12, <2>13, <2>14, <2>15, <2>16, <2>17,
           <2>18
        DEF ObserveOther, OtherStep
<1>7. CASE UNCHANGED hvars
    BY <1>7 DEF hvars, vars
<1> QED
    BY <1>2, <1>3, <1>4, <1>5, <1>6, <1>7 DEF HNext

THEOREM HistoryInvariance == HSpec => []HInv
<1>1. HInit => HInv
    BY InitHInv
<1>2. HInv /\ [HNext]_hvars => HInv'
    BY NextHInv
<1> QED
    BY <1>1, <1>2, PTL DEF HSpec

------------------------------------------------------------------------------
(* A withdrawn token is never served from the cache again, for any number  *)
(* of callers and logins.                                                  *)
THEOREM WithdrawnStaysOut == HSpec => []WithdrawnTokenStaysOut
<1>1. HInv => WithdrawnTokenStaysOut
    BY DEF HInv
<1> QED
    BY <1>1, HistoryInvariance, PTL

(* No login starts before the pause owed for the last failure has passed.  *)
THEOREM PauseRespected == HSpec => LoginRespectsPause
<1> DEFINE Respects == \A f \in Flights :
              flight[f] # "queued" /\ flight'[f] = "queued" => penalty = 0
<1>1. HInv /\ [HNext]_hvars => [Respects]_hvars
    <2> SUFFICES ASSUME HInv, HNext, NEW f \in Flights,
                        flight[f] # "queued", flight'[f] = "queued"
                 PROVE  penalty = 0
        OBVIOUS
    <2>1. Next
        BY ObservedStep
    <2>2. \E c \in Callers : Launch(c, f)
        BY <2>1, NoneAssumption
        DEF Next, CallerStep, TaskStep, HInv, IInv, TypeOK, coordinator, tasks,
            Begin, FastPath, LockAndRecheck, Refuse, Join, Launch, Receive,
            Interrupted, Send, Starved, Answered, Unauthorized, Withdraw, Cancel,
            LoginAdmitted, LoginStarved, LoginRefused, LoginFails, LoginGranted,
            CacheToken, Settle, Publish, TaskDies, Tick
    <2> QED
        BY <2>2, TimingAssumption
        DEF Launch, Cooling, HInv, HistoryTypes, PauseIsCovered, IInv, TypeOK
<1> QED
    BY <1>1, HistoryInvariance, PTL DEF HSpec, LoginRespectsPause

------------------------------------------------------------------------------
(* Where a repetition can still meet the token it was refused with: the    *)
(* run AuthHistory_repeat shows that it can, and these theorems that a     *)
(* flight which has cached its token without settling is the only way.     *)

(* The token a caller was refused with is withdrawn, and stays so for as   *)
(* long as that caller's operation lasts.                                  *)
RefusedIsWithdrawn ==
    \A c \in Callers : refused[c] # None => refused[c] \in rejected

(* A repetition gets the refused token from no look at the cache, locked   *)
(* or unlocked, but only as the outcome of a flight that it waited for.    *)
RefusedTokenOnlyByWaiting ==
    [][\A c \in Callers :
          /\ refused[c] # None
          /\ pc[c] # "slot" /\ pc'[c] = "slot"
          /\ ref'[c] = refused[c]
          => pc[c] = "wait" /\ ref[c] = refused[c]]_hvars

(* A repetition waits for the flight of its refused token only if it joins *)
(* between the task's write of the token and the task's finish_refresh.    *)
RefusedFlightJoinedUnsettled ==
    [][\A c \in Callers :
          /\ refused'[c] # None
          /\ pc[c] # "wait" /\ pc'[c] = "wait"
          /\ ref'[c] = refused'[c]
          => flight[refused'[c]] = "cached"]_hvars

LEMMA NextRefused ==
    HInv /\ RefusedIsWithdrawn /\ [HNext]_hvars => RefusedIsWithdrawn'
<1> SUFFICES ASSUME HInv, RefusedIsWithdrawn, [HNext]_hvars
             PROVE  RefusedIsWithdrawn'
    OBVIOUS
<1> USE DEF HInv, HistoryTypes, RefusedIsWithdrawn
<1>1. ASSUME NEW c \in Callers, ObserveWithdraw(c) PROVE RefusedIsWithdrawn'
    BY <1>1 DEF ObserveWithdraw
<1>2. ASSUME NEW c \in Callers, NEW f \in Flights, ObserveLaunch(c, f)
      PROVE  RefusedIsWithdrawn'
    BY <1>2 DEF ObserveLaunch
<1>3. ASSUME NEW f \in Flights, ObserveFailure(f) PROVE RefusedIsWithdrawn'
    BY <1>3 DEF ObserveFailure
<1>4. ASSUME ObserveTick PROVE RefusedIsWithdrawn'
    BY <1>4 DEF ObserveTick
<1>5. ASSUME ObserveOther PROVE RefusedIsWithdrawn'
    BY <1>5 DEF ObserveOther
<1>6. CASE UNCHANGED hvars
    BY <1>6 DEF hvars
<1> QED
    BY <1>1, <1>2, <1>3, <1>4, <1>5, <1>6 DEF HNext

(* Whoever repeats a read has taken the refused token out of circulation   *)
(* first, and no login has been given its identity since.                  *)
THEOREM RefusedStaysWithdrawn == HSpec => []RefusedIsWithdrawn
<1>1. HInit => RefusedIsWithdrawn
    BY DEF HInit, RefusedIsWithdrawn
<1>2. HInv /\ RefusedIsWithdrawn /\ [HNext]_hvars => RefusedIsWithdrawn'
    BY NextRefused
<1> QED
    BY <1>1, <1>2, HistoryInvariance, PTL DEF HSpec

(* A caller comes to use a token by one of three steps, two of which take  *)
(* it from the cache.                                                      *)
LEMMA HowATokenIsTaken ==
    ASSUME HInv, HNext, NEW c \in Callers, pc[c] # "slot", pc'[c] = "slot"
    PROVE  \/ ref'[c] = cache /\ cache # None
           \/ pc[c] = "wait" /\ ref'[c] = ref[c]
<1>1. Next
    BY ObservedStep
<1>2. FastPath(c) \/ LockAndRecheck(c) \/ Receive(c)
    BY <1>1
    DEF Next, CallerStep, TaskStep, HInv, IInv, TypeOK, callers, UseToken,
        Begin, FastPath, LockAndRecheck, Refuse, Join, Launch, Await, Receive,
        Interrupted, Send, Starved, Answered, Unauthorized, Withdraw, Cancel,
        LoginAdmitted, LoginStarved, LoginRefused, LoginFails, LoginGranted,
        CacheToken, Settle, Publish, TaskDies, Tick, Leave, Goto
<1> QED
    BY <1>2
    DEF FastPath, LockAndRecheck, Receive, UseToken, Goto, Leave, FreshToken,
        HInv, IInv, TypeOK

(* A caller comes to wait by joining the current flight, or by starting    *)
(* one that no caller has been refused by yet.                             *)
LEMMA HowAFlightIsAwaited ==
    ASSUME HInv, HNext, NEW c \in Callers, pc[c] # "wait", pc'[c] = "wait"
    PROVE  \/ /\ inFlight # None /\ ref'[c] = inFlight
              /\ refused'[c] = refused[c]
           \/ ref'[c] # None /\ refused'[c] # ref'[c]
<1> USE NoneAssumption DEF HInv, IInv, TypeOK, HistoryTypes, callers
<1>1. ASSUME NEW d \in Callers, ObserveWithdraw(d) PROVE FALSE
    BY <1>1 DEF ObserveWithdraw, Withdraw, Leave
<1>2. ASSUME NEW d \in Callers, NEW f \in Flights, ObserveLaunch(d, f)
      PROVE  ref'[c] # None /\ refused'[c] # ref'[c]
    BY <1>2 DEF ObserveLaunch, Launch, Await
<1>3. ASSUME NEW f \in Flights, ObserveFailure(f) PROVE FALSE
    BY <1>3 DEF ObserveFailure, LoginStarved, LoginRefused, LoginFails, TaskDies
<1>4. ASSUME ObserveTick PROVE FALSE
    BY <1>4 DEF ObserveTick, Tick
<1>5. ASSUME ObserveOther
      PROVE  /\ inFlight # None /\ ref'[c] = inFlight
             /\ refused'[c] = refused[c]
    <2>1. Join(c)
        BY <1>5
        DEF ObserveOther, OtherStep, UseToken, Begin, FastPath, LockAndRecheck,
            Refuse, Join, Await, Receive, Interrupted, Send, Starved, Answered,
            Unauthorized, Cancel, LoginAdmitted, LoginGranted, CacheToken,
            Settle, Publish, Leave, Goto
    <2> QED
        BY <1>5, <2>1 DEF ObserveOther, Join, Await
<1> QED
    BY <1>1, <1>2, <1>3, <1>4, <1>5 DEF HNext

(* The cache never hands a refused token out again: whichever caller meets *)
(* it a second time was waiting for its flight.                            *)
THEOREM RepetitionIgnoresCache == HSpec => RefusedTokenOnlyByWaiting
<1> DEFINE ByWaiting == \A c \in Callers :
              /\ refused[c] # None
              /\ pc[c] # "slot" /\ pc'[c] = "slot"
              /\ ref'[c] = refused[c]
              => pc[c] = "wait" /\ ref[c] = refused[c]
<1>1. HInv /\ RefusedIsWithdrawn /\ [HNext]_hvars => [ByWaiting]_hvars
    <2> SUFFICES ASSUME HInv, RefusedIsWithdrawn, HNext, NEW c \in Callers,
                        refused[c] # None, pc[c] # "slot", pc'[c] = "slot",
                        ref'[c] = refused[c]
                 PROVE  pc[c] = "wait" /\ ref[c] = refused[c]
        OBVIOUS
    <2>1. refused[c] # cache
        BY DEF RefusedIsWithdrawn, HInv, WithdrawnTokenStaysOut
    <2> QED
        BY <2>1, HowATokenIsTaken
<1> QED
    BY <1>1, HistoryInvariance, RefusedStaysWithdrawn, PTL
    DEF HSpec, RefusedTokenOnlyByWaiting

(* A settled flight is never joined and a started one is a new login, so   *)
(* the refused token can only come from a flight that is between caching   *)
(* its token and finish_refresh.                                           *)
THEOREM RepetitionJoinsUnsettled == HSpec => RefusedFlightJoinedUnsettled
<1> DEFINE JoinsUnsettled == \A c \in Callers :
              /\ refused'[c] # None
              /\ pc[c] # "wait" /\ pc'[c] = "wait"
              /\ ref'[c] = refused'[c]
              => flight[refused'[c]] = "cached"
<1>1. HInv /\ RefusedIsWithdrawn /\ [HNext]_hvars => [JoinsUnsettled]_hvars
    <2> SUFFICES ASSUME HInv, RefusedIsWithdrawn, HNext, NEW c \in Callers,
                        refused'[c] # None, pc[c] # "wait", pc'[c] = "wait",
                        ref'[c] = refused'[c]
                 PROVE  flight[refused'[c]] = "cached"
        OBVIOUS
    <2>1. inFlight # None /\ refused[c] = inFlight /\ refused'[c] = inFlight
        BY HowAFlightIsAwaited
    <2>2. inFlight \in Flights /\ flight[inFlight] \in PastCaching
        BY <2>1 DEF RefusedIsWithdrawn, HInv, HistoryTypes, TokensWereCached
    <2> QED
        BY <2>1, <2>2 DEF PastCaching, HInv, IInv, SettledIsClosed
<1> QED
    BY <1>1, HistoryInvariance, RefusedStaysWithdrawn, PTL
    DEF HSpec, RefusedFlightJoinedUnsettled
==============================================================================

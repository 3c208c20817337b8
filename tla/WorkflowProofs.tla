--------------------------- MODULE WorkflowProofs ---------------------------
(***************************************************************************)
(* What a call of an operation guarantees, for every table of operations,  *)
(* of any number and length, whose calls are disciplined.  The hypothesis  *)
(* of the theorems, []CallsAreDisciplined, is the invariant that MCWorkflow*)
(* checks of the operations of infisical-api.                              *)
(***************************************************************************)
EXTENDS Workflow, TLAPS

(* The table follows the discipline; the operation that is called does. *)
Discipline == \A o \in Catalogue : Disciplined(o)
CallDisciplined == Disciplined(op)

L == Len(Steps[op])
Does(i, do) == i \in 1 .. L /\ Is(op, i, do)

LEMMA Lengths == op \in Catalogue => L \in Nat /\ DOMAIN Steps[op] = 1 .. L
BY StepsAssumption DEF L
-----------------------------------------------------------------------------
(* The shapes of a step: what the proofs below tell apart. *)

(* The call ends with an error of the step it has reached. *)
Ends ==
    /\ at \in 1 .. L /\ at' = at /\ reply = "none"
    /\ reply' \in StepErrors(Steps[op][at])
    /\ flying' \subseteq flying
    /\ Does(at, "act") /\ reply' \in RefusedAct \cup Unsent => at \notin flying' \cup performed
    /\ \/ touched' = touched
       \/ Does(at, "fetch") /\ touched' = Trace(Steps[op][at].class)
    /\ UNCHANGED <<bad, got, seen, performed>>

(* A condition holds, a place is found, a file is written. *)
Passes ==
    /\ at \in 1 .. L /\ at' = at + 1 /\ reply = "none"
    /\ ~Does(at, "fetch") /\ ~Does(at, "act")
    /\ Does(at, "check") => flaw \notin Steps[op][at].of
    /\ Does(at, "require") => Steps[op][at].asks \cap seen = {}
    /\ UNCHANGED <<bad, got, seen, flying, performed, touched, reply>>

Fetches ==
    /\ Does(at, "fetch") /\ reply = "none"
    /\ \E o \in Steps[op][at].of :
         /\ seen' = seen \cup {f \in bad \cap Steps[op][at].shows : f[1] = o}
         /\ IF got \cup {o} = Steps[op][at].of
              THEN at' = at + 1 /\ got' = {}
              ELSE got' = got \cup {o} /\ at' = at
    /\ touched' = Trace(Steps[op][at].class)
    /\ UNCHANGED <<bad, flying, performed, reply>>

Sends ==
    /\ Does(at, "act") /\ at \notin Sent /\ reply = "none"
    /\ flying' = flying \cup {at}
    /\ touched' = IF Steps[op][at].class = "reveal" THEN "audited" ELSE touched
    /\ UNCHANGED <<bad, at, got, seen, performed, reply>>

Hears ==
    /\ Does(at, "act") /\ at' = at + 1 /\ reply = "none" /\ at \in performed
    /\ \E d \in AtMostOne(Deviations(op)) : seen' = seen \cup d
    /\ UNCHANGED <<bad, got, flying, performed, touched, reply>>

(* Something else than the call moves on, or the call ends without error. *)
Rests ==
    /\ Sent' = Sent
    /\ flying \cap performed = {} => flying' \cap performed' = {}
    /\ \/ reply' = reply /\ performed \subseteq performed'
       \/ reply = "none" /\ reply' = "ok" /\ at > L /\ performed' = performed
       \/ reply = "none" /\ reply' = "cancelled" /\ performed' = performed
    /\ \/ bad' = bad
       \/ bad \subseteq Changeable(op) /\ bad' \in AtMostOne(Changeable(op))
    /\ UNCHANGED <<at, got, seen, touched>>

Shapes == Ends \/ Passes \/ Fetches \/ Sends \/ Hears \/ Rests

LEMMA StepShapes ==
    ASSUME op \in Catalogue, at \in 1 .. L + 1, flying \cap performed = {}, [Next]_vars
    PROVE  op' = op /\ flaw' = flaw /\ Shapes
<1> USE DEF Shapes, Does, Is, Doing, Here, Next1, StepErrors
<1>1. L \in Nat
    BY Lengths
<1>2. ASSUME at <= Len(Steps[op]) PROVE at \in 1 .. L
    BY <1>1, <1>2 DEF L
<1>3. CASE CheckArguments
    BY <1>2, <1>3 DEF CheckArguments, Ends, Passes
<1>4. CASE FetchOne
    BY <1>2, <1>4 DEF FetchOne, Fetches
<1>5. CASE FetchFails
    BY <1>2, <1>5 DEF FetchFails, Ends
<1>6. CASE RequireFetched
    BY <1>2, <1>6 DEF RequireFetched, Ends, Passes
<1>7. CASE SendAct
    BY <1>2, <1>7 DEF SendAct, Sends
<1>8. CASE PerformAct
    BY <1>8 DEF PerformAct, Rests, Sent
<1>9. CASE AnswerAct
    BY <1>2, <1>9 DEF AnswerAct, Hears
<1>10. CASE NotSent
    BY <1>2, <1>10 DEF NotSent, Ends, Sent
<1>11. CASE Refused
    BY <1>2, <1>11 DEF Refused, Ends
<1>12. CASE AnswerLost
    BY <1>2, <1>12 DEF AnswerLost, Ends
<1>13. CASE ReserveFile
    BY <1>2, <1>13 DEF ReserveFile, Ends, Passes
<1>14. CASE DeliverResult
    BY <1>2, <1>14 DEF DeliverResult, Ends, Passes
<1>15. CASE Complete
    BY <1>15 DEF Complete, Rests, Sent, L
<1>16. CASE Cancel
    BY <1>16 DEF Cancel, Rests, Sent
<1>17. CASE Others
    BY <1>17 DEF Others, Rests, Sent
<1>18. CASE UNCHANGED vars
    BY <1>18 DEF vars, Rests, Sent
<1> QED
    BY <1>3, <1>4, <1>5, <1>6, <1>7, <1>8, <1>9, <1>10, <1>11, <1>12, <1>13, <1>14,
       <1>15, <1>16, <1>17, <1>18 DEF Next
-----------------------------------------------------------------------------
(* The inductive invariant. *)

Places ==
    /\ got # {} => Does(at, "fetch")
    /\ reply = "ok" => at > L

(* A wrong argument is not passed over. *)
FlawHalts ==
    flaw # "none" =>
      \A k \in 1 .. L : Is(op, k, "check") /\ flaw \in Steps[op][k].of => at <= k

(* Only requests leave a trace. *)
TraceHasCause ==
    touched # "nothing" => \E j \in 1 .. L : j <= at /\ (Is(op, j, "fetch") \/ Is(op, j, "act"))

Fetched(j, f) ==
    /\ Does(j, "fetch") /\ f[1] \in Steps[op][j].of /\ f \in Steps[op][j].shows
    /\ j < at \/ (j = at /\ f[1] \in got)
(* An object in another scope is seen to be there when it is fetched, for  *)
(* it was there all the time; and it is not passed over.                   *)
ScopeIsSeen ==
    \A f \in bad \cap Scopes(op) : \A j \in 1 .. L : Fetched(j, f) => f \in seen
ScopeHalts ==
    \A f \in bad \cap Scopes(op) : \A k \in 1 .. L : \A j \in 1 .. k - 1 :
      /\ Does(j, "fetch") /\ f[1] \in Steps[op][j].of /\ f \in Steps[op][j].shows
      /\ Does(k, "require") /\ f \in Steps[op][k].asks
      => at <= k

(* What is seen to be wrong will still be asked about. *)
Pending ==
    \A f \in seen \ Trusted[op] :
      \E k \in 1 .. L : at <= k /\ Is(op, k, "require") /\ f \in Steps[op][k].asks

Recorded == touched = "audited" => Tier[op] # "read"

(* The acts that the call has left behind are performed. *)
ActsAreDone == \A j \in 1 .. L : Is(op, j, "act") /\ j < at => j \in performed

IInv == /\ TypeOK /\ Places /\ FlawHalts /\ TraceHasCause /\ AdviceIsTrue
        /\ ScopeIsSeen /\ ScopeHalts /\ Pending /\ Recorded /\ ActsAreDone

LEMMA NoReplyIsNoError ==
    /\ {"none", "ok", "cancelled"} \cap Errors = {}
    /\ {"none", "ok", "cancelled"} \cap NotStarted = {}
BY DEF Errors, HandlerErrors, ClientErrors, Rejections, Unsent, Lost, InputErrors, KmsErrors,
       StateErrors, AnswerErrors, NotStarted

LEMMA InitInv == Init => IInv
<1> SUFFICES ASSUME Init PROVE IInv
    OBVIOUS
<1>1. op \in Catalogue /\ L \in Nat /\ at = 1 /\ 1 \in 1 .. L + 1
    BY Lengths DEF Init
<1>2. TypeOK
    BY <1>1 DEF Init, TypeOK, AtMostOne, Sent, L
<1>3. Places /\ TraceHasCause /\ Recorded
    BY DEF Init, Places, TraceHasCause, Recorded
<1>4. FlawHalts /\ ScopeIsSeen /\ ScopeHalts /\ ActsAreDone
    BY <1>1 DEF Init, FlawHalts, ScopeIsSeen, ScopeHalts, ActsAreDone, Fetched, Does
<1>5. Pending
    BY DEF Init, Pending
<1>6. AdviceIsTrue
    BY NoReplyIsNoError DEF Init, AdviceIsTrue, NotStartedIsTrue, CorrectableIsUnchanged,
       ObservationsAdmitted
<1> QED
    BY <1>2, <1>3, <1>4, <1>5, <1>6 DEF IInv
-----------------------------------------------------------------------------
(* What holds before every step. *)
LEMMA Context ==
    ASSUME CallDisciplined, TypeOK, [Next]_vars
    PROVE  /\ op \in Catalogue /\ Disciplined(op) /\ op' = op /\ flaw' = flaw
           /\ L \in Nat /\ DOMAIN Steps[op] = 1 .. L /\ L' = L /\ at \in 1 .. L + 1
           /\ Shapes
<1>1. op \in Catalogue /\ flying \cap performed = {} /\ at \in 1 .. L + 1
    BY DEF TypeOK, L
<1> QED
    BY <1>1, Lengths, StepShapes DEF CallDisciplined, L

LEMMA TypesStep == CallDisciplined /\ TypeOK /\ Places /\ [Next]_vars => TypeOK' /\ Places'
<1> SUFFICES ASSUME CallDisciplined, TypeOK, Places, [Next]_vars PROVE TypeOK' /\ Places'
    OBVIOUS
<1>1. /\ op \in Catalogue /\ op' = op /\ flaw' = flaw
      /\ L \in Nat /\ DOMAIN Steps[op] = 1 .. L /\ L' = L /\ at \in 1 .. L + 1
      /\ Shapes
    BY Context
<1>2. \A i \in 1 .. L : StepErrors(Steps[op][i]) \subseteq Errors
    BY <1>1, Context DEF Disciplined, ErrorsAreHonest
<1>3. at' \in 1 .. L + 1
    BY <1>1 DEF Shapes, Ends, Passes, Fetches, Sends, Hears, Rests, Does
<1>4. bad' \subseteq Facts(op)
    BY <1>1 DEF TypeOK, Shapes, Ends, Passes, Fetches, Sends, Hears, Rests, AtMostOne, Changeable
<1>5. got' # {} => Does(at', "fetch") /\ got' \subseteq Steps[op][at'].of
  <2>1. got # {} => Does(at, "fetch") /\ got \subseteq Steps[op][at].of
      BY DEF TypeOK, Places, Here
  <2>2. CASE Ends \/ Rests
      BY <2>1, <2>2 DEF Ends, Rests
  <2>3. CASE Passes
      BY <2>1, <2>3 DEF Passes
  <2>4. CASE Fetches
      BY <2>1, <2>4 DEF Fetches
  <2>5. CASE Sends \/ Hears
      BY <2>1, <2>5 DEF Sends, Hears, Does, Is
  <2> QED
      BY <1>1, <2>2, <2>3, <2>4, <2>5 DEF Shapes
<1>6. seen' \subseteq Facts(op) \cup Deviations(op)
    BY <1>1 DEF TypeOK, Shapes, Ends, Passes, Fetches, Sends, Hears, Rests, AtMostOne
<1>7. Sent' \subseteq {a \in 1 .. at' : a <= L /\ Steps[op][a].do = "act"}
  <2>1. Sent \subseteq {a \in 1 .. at : a <= L /\ Steps[op][a].do = "act"}
      BY DEF TypeOK, L
  <2>2. at <= at'
      BY <1>1 DEF Shapes, Ends, Passes, Fetches, Sends, Hears, Rests
  <2>3. Sent' \subseteq Sent \/ Sends
      BY <1>1 DEF Shapes, Ends, Passes, Fetches, Hears, Rests, Sent
  <2>4. Sent' \subseteq Sent \cup {a \in {at} : Sends}
      BY <2>3 DEF Sends, Sent
  <2> QED
      BY <1>1, <1>3, <2>1, <2>2, <2>4 DEF Sends, Does, Is
<1>8. flying' \cap performed' = {}
    BY <1>1 DEF TypeOK, Shapes, Ends, Passes, Fetches, Sends, Hears, Rests, Sent
<1>9. touched' \in {"nothing", "read", "audited"}
    BY <1>1 DEF TypeOK, Shapes, Ends, Passes, Fetches, Sends, Hears, Rests, Trace
<1>10. reply' \in {"none", "ok", "cancelled"} \cup Errors
    BY <1>1, <1>2 DEF TypeOK, Shapes, Ends, Passes, Fetches, Sends, Hears, Rests
<1>11. reply' = "ok" => at' > L
    BY <1>1, <1>2, NoReplyIsNoError
       DEF Places, Shapes, Ends, Passes, Fetches, Sends, Hears, Rests
<1>12. TypeOK'
    BY <1>1, <1>3, <1>4, <1>5, <1>6, <1>7, <1>8, <1>9, <1>10 DEF TypeOK, Here, L
<1> QED
    BY <1>1, <1>5, <1>11, <1>12 DEF Places, Does
LEMMA FlawStep == CallDisciplined /\ IInv /\ [Next]_vars => FlawHalts'
<1> SUFFICES ASSUME CallDisciplined, TypeOK, FlawHalts, [Next]_vars PROVE FlawHalts'
    BY DEF IInv
<1>1. op' = op /\ flaw' = flaw /\ L' = L /\ L \in Nat /\ at \in 1 .. L + 1 /\ Shapes
    BY Context
<1> SUFFICES ASSUME flaw # "none", NEW k \in 1 .. L, Is(op, k, "check"), flaw \in Steps[op][k].of
             PROVE  at' <= k
    BY <1>1 DEF FlawHalts, Is
<1>2. at <= k
    BY DEF FlawHalts
<1>3. at' = at \/ at' = at + 1
    BY <1>1 DEF Shapes, Ends, Passes, Fetches, Sends, Hears, Rests
<1>4. ASSUME at = k PROVE at' = at
    BY <1>1, <1>4 DEF Shapes, Ends, Passes, Fetches, Sends, Hears, Rests, Does, Is
<1> QED
    BY <1>1, <1>2, <1>3, <1>4

LEMMA TraceStep == CallDisciplined /\ IInv /\ [Next]_vars => TraceHasCause'
<1> SUFFICES ASSUME CallDisciplined, TypeOK, TraceHasCause, [Next]_vars, touched' # "nothing"
             PROVE  \E j \in 1 .. L : j <= at' /\ (Is(op, j, "fetch") \/ Is(op, j, "act"))
    BY Context DEF IInv, TraceHasCause, Is
<1>1. L \in Nat /\ at \in 1 .. L + 1 /\ Shapes
    BY Context
<1>2. at <= at'
    BY <1>1 DEF Shapes, Ends, Passes, Fetches, Sends, Hears, Rests
<1>3. \/ touched # "nothing"
      \/ Does(at, "fetch") \/ Does(at, "act")
    BY <1>1 DEF Shapes, Ends, Passes, Fetches, Sends, Hears, Rests
<1>4. CASE touched # "nothing"
  <2>1. PICK j \in 1 .. L : j <= at /\ (Is(op, j, "fetch") \/ Is(op, j, "act"))
      BY <1>4 DEF TraceHasCause
  <2>2. j <= at'
      BY <1>1, <1>2, <2>1 DEF Shapes, Ends, Passes, Fetches, Sends, Hears, Rests
  <2> QED
      BY <2>1, <2>2
<1>5. CASE Does(at, "fetch") \/ Does(at, "act")
    BY <1>1, <1>2, <1>5 DEF Does
<1> QED
    BY <1>3, <1>4, <1>5

LEMMA AdviceStep == CallDisciplined /\ IInv /\ TypeOK' /\ TraceHasCause' /\ [Next]_vars => AdviceIsTrue'
<1> SUFFICES ASSUME CallDisciplined, TypeOK, AdviceIsTrue, TypeOK', TraceHasCause', [Next]_vars
             PROVE  AdviceIsTrue'
    BY DEF IInv
<1>1. /\ op' = op /\ L' = L /\ L \in Nat /\ at \in 1 .. L + 1 /\ Shapes
      /\ Disciplined(op) /\ DOMAIN Steps[op] = 1 .. L
    BY Context
<1>2. CASE Ends
  <2> DEFINE e == reply'
  <2>1. at \in 1 .. L /\ at' = at /\ e \in StepErrors(Steps[op][at])
      BY <1>2 DEF Ends
  <2>2. /\ e \in NotStarted => Untouched(op, at, "act")
        /\ Observations(e) = "none" => Untouched(op, at, "act") /\ Untouched(op, at, "fetch")
        /\ e \notin StateErrors /\ Recovery(e) = "correctRequest" /\ at \notin ReadsBack(op) =>
             Untouched(op, at - 1, "act") /\ (Is(op, at, "act") => e \in RefusedAct \cup Unsent)
      BY <1>1, <2>1 DEF Disciplined, ErrorsAreHonest
  <2>3. \A a \in Sent' : a \in 1 .. at /\ Is(op, a, "act")
      BY <1>1, <2>1 DEF TypeOK, Is
  <2>4. NotStartedIsTrue'
      BY <2>2, <2>3 DEF NotStartedIsTrue, Untouched
  <2>5. ObservationsAdmitted'
    <3> SUFFICES ASSUME Observations(e) = "none", touched' # "nothing" PROVE FALSE
        BY DEF ObservationsAdmitted
    <3>1. PICK j \in 1 .. L : j <= at /\ (Is(op, j, "fetch") \/ Is(op, j, "act"))
        BY <1>1, <2>1 DEF TraceHasCause, Is
    <3> QED
        BY <2>1, <2>2, <3>1 DEF Untouched
  <2>6. CorrectableIsUnchanged'
    <3> SUFFICES ASSUME e \notin StateErrors, Recovery(e) = "correctRequest",
                        at \notin ReadsBack(op), NEW a \in Sent'
                 PROVE  FALSE
        BY <1>1, <2>1 DEF CorrectableIsUnchanged
    <3>1. a = at /\ Is(op, at, "act") /\ e \in RefusedAct \cup Unsent
        BY <2>1, <2>2, <2>3 DEF Untouched
    <3>2. at \notin flying' \cup performed'
        BY <1>2, <2>1, <3>1 DEF Ends, Does
    <3> QED
        BY <3>1, <3>2 DEF Sent
  <2> QED
      BY <2>4, <2>5, <2>6 DEF AdviceIsTrue
<1>3. CASE Passes \/ Fetches \/ Sends \/ Hears \/ Rests
  <2>1. CASE reply' \in {"none", "ok", "cancelled"}
      BY <2>1, NoReplyIsNoError
         DEF AdviceIsTrue, NotStartedIsTrue, CorrectableIsUnchanged, ObservationsAdmitted
  <2>2. CASE reply' = reply /\ Sent' = Sent /\ at' = at /\ touched' = touched
      BY <1>1, <2>2
         DEF AdviceIsTrue, NotStartedIsTrue, CorrectableIsUnchanged, ObservationsAdmitted
  <2> QED
      BY <1>3, <2>1, <2>2 DEF Passes, Fetches, Sends, Hears, Rests
<1> QED
    BY <1>1, <1>2, <1>3 DEF Shapes

LEMMA ScopeSeenStep == CallDisciplined /\ IInv /\ [Next]_vars => ScopeIsSeen'
<1> SUFFICES ASSUME CallDisciplined, TypeOK, Places, ScopeIsSeen, [Next]_vars,
                    NEW f \in bad' \cap Scopes(op), NEW j \in 1 .. L, Fetched(j, f)'
             PROVE  f \in seen'
    BY Context DEF IInv, ScopeIsSeen
<1>1. op' = op /\ L' = L /\ L \in Nat /\ at \in 1 .. L + 1 /\ Shapes
    BY Context
<1>2. /\ Does(j, "fetch") /\ f[1] \in Steps[op][j].of /\ f \in Steps[op][j].shows
      /\ j < at' \/ (j = at' /\ f[1] \in got')
    BY <1>1 DEF Fetched, Does, Is
<1>3. f \in bad
    BY <1>1 DEF Shapes, Ends, Passes, Fetches, Sends, Hears, Rests, AtMostOne, Changeable
<1>4. Fetched(j, f) => f \in seen
    BY <1>3 DEF ScopeIsSeen
<1>5. seen \subseteq seen'
    BY <1>1 DEF Shapes, Ends, Passes, Fetches, Sends, Hears, Rests
<1>6. CASE Fetches
  <2>1. CASE j < at
      BY <1>2, <1>4, <1>5, <2>1 DEF Fetched
  <2>2. CASE j = at
    <3>1. PICK o \in Steps[op][at].of :
            /\ seen' = seen \cup {g \in bad \cap Steps[op][at].shows : g[1] = o}
            /\ IF got \cup {o} = Steps[op][at].of
                 THEN at' = at + 1 /\ got' = {}
                 ELSE got' = got \cup {o} /\ at' = at
        BY <1>6 DEF Fetches
    <3>2. f[1] \in got \cup {o}
        BY <1>1, <1>2, <2>2, <3>1
    <3>3. CASE f[1] = o
        BY <1>2, <1>3, <2>2, <3>1, <3>3
    <3>4. CASE f[1] \in got
        BY <1>2, <1>4, <1>5, <2>2, <3>4 DEF Fetched
    <3> QED
        BY <3>2, <3>3, <3>4
  <2>3. j <= at
      BY <1>1, <1>2, <1>6 DEF Fetches
  <2> QED
      BY <1>1, <2>1, <2>2, <2>3
<1>7. CASE Passes \/ Hears
  <2>1. got' = {} /\ at' = at + 1 /\ ~Does(at, "fetch")
      BY <1>7 DEF Passes, Hears, Places, Does, Is
  <2>2. j < at
      BY <1>1, <1>2, <2>1 DEF Does
  <2> QED
      BY <1>2, <1>4, <1>5, <2>2 DEF Fetched
<1>8. CASE Ends \/ Sends \/ Rests
    BY <1>2, <1>4, <1>5, <1>8 DEF Fetched, Ends, Sends, Rests
<1> QED
    BY <1>1, <1>6, <1>7, <1>8 DEF Shapes

LEMMA ScopeHaltsStep == CallDisciplined /\ IInv /\ [Next]_vars => ScopeHalts'
<1> SUFFICES ASSUME CallDisciplined, TypeOK, ScopeIsSeen, ScopeHalts, [Next]_vars,
                    NEW f \in bad' \cap Scopes(op), NEW k \in 1 .. L, NEW j \in 1 .. k - 1,
                    Does(j, "fetch"), f[1] \in Steps[op][j].of, f \in Steps[op][j].shows,
                    Does(k, "require"), f \in Steps[op][k].asks
             PROVE  at' <= k
    BY Context DEF IInv, ScopeHalts, Does, Is
<1>1. L \in Nat /\ at \in 1 .. L + 1 /\ Shapes
    BY Context
<1>2. f \in bad
    BY <1>1 DEF Shapes, Ends, Passes, Fetches, Sends, Hears, Rests, AtMostOne, Changeable
<1>3. at <= k
    BY <1>2 DEF ScopeHalts
<1>4. at' = at \/ at' = at + 1
    BY <1>1 DEF Shapes, Ends, Passes, Fetches, Sends, Hears, Rests
<1>5. ASSUME at = k PROVE at' = at
  <2>1. j \in 1 .. L /\ Fetched(j, f)
      BY <1>1, <1>5 DEF Fetched
  <2>2. f \in seen
      BY <1>2, <2>1 DEF ScopeIsSeen
  <2> QED
      BY <1>1, <1>5, <2>2 DEF Shapes, Ends, Passes, Fetches, Sends, Hears, Rests, Does, Is
<1> QED
    BY <1>1, <1>3, <1>4, <1>5

LEMMA PendingStep == CallDisciplined /\ IInv /\ [Next]_vars => Pending'
<1> SUFFICES ASSUME CallDisciplined, TypeOK, Pending, [Next]_vars, NEW f \in seen' \ Trusted[op]
             PROVE  \E k \in 1 .. L : at' <= k /\ Is(op, k, "require") /\ f \in Steps[op][k].asks
    BY Context DEF IInv, Pending, Is
<1>1. L \in Nat /\ at \in 1 .. L + 1 /\ Shapes /\ ShownIsRequired(op) /\ DOMAIN Steps[op] = 1 .. L
    BY Context DEF Disciplined
<1>2. at' = at \/ at' = at + 1
    BY <1>1 DEF Shapes, Ends, Passes, Fetches, Sends, Hears, Rests
<1>3. CASE f \in seen
  <2>1. PICK k \in 1 .. L : at <= k /\ Is(op, k, "require") /\ f \in Steps[op][k].asks
      BY <1>3 DEF Pending
  <2>2. ASSUME k = at PROVE at' = at
      BY <1>1, <1>3, <2>1, <2>2
         DEF Shapes, Ends, Passes, Fetches, Sends, Hears, Rests, Does, Is
  <2>3. at' <= k
      BY <1>1, <1>2, <2>1, <2>2
  <2> QED
      BY <2>1, <2>3
<1>4. CASE f \notin seen
  <2>1. at \in 1 .. L /\ f \in Shown(op, at)
    <3>1. CASE Fetches
        BY <1>4, <3>1 DEF Fetches, Shown, Does, TypeOK, Is
    <3>2. CASE Hears
        BY <1>4, <3>2 DEF Hears, Shown, Does, AtMostOne, Is
    <3> QED
        BY <1>1, <1>4, <3>1, <3>2 DEF Shapes, Ends, Passes, Sends, Rests
  <2>2. PICK k \in at + 1 .. L : Is(op, k, "require") /\ f \in Steps[op][k].asks
      BY <1>1, <2>1 DEF ShownIsRequired, L
  <2>3. k \in 1 .. L /\ at' <= k
      BY <1>1, <1>2, <2>1, <2>2
  <2> QED
      BY <2>2, <2>3
<1> QED
    BY <1>3, <1>4

LEMMA RecordedStep == CallDisciplined /\ IInv /\ [Next]_vars => Recorded'
<1> SUFFICES ASSUME CallDisciplined, TypeOK, Recorded, [Next]_vars, touched' = "audited"
             PROVE  Tier[op] # "read"
    BY Context DEF IInv, Recorded
<1>1. Shapes /\ TierFits(op) /\ DOMAIN Steps[op] = 1 .. L
    BY Context DEF Disciplined
<1>2. CASE touched = "audited"
    BY <1>2 DEF Recorded
<1>3. CASE touched # "audited"
  <2>1. at \in 1 .. L /\ LeavesARecord(Steps[op][at])
      BY <1>1, <1>3 DEF Shapes, Ends, Passes, Fetches, Sends, Hears, Rests, Does, Is,
         Trace, LeavesARecord
  <2> QED
      BY <1>1, <2>1 DEF TierFits
<1> QED
    BY <1>2, <1>3

LEMMA DoneStep == CallDisciplined /\ IInv /\ [Next]_vars => ActsAreDone'
<1> SUFFICES ASSUME CallDisciplined, TypeOK, ActsAreDone, [Next]_vars,
                    NEW j \in 1 .. L, Is(op, j, "act"), j < at'
             PROVE  j \in performed'
    BY Context DEF IInv, ActsAreDone, Is
<1>1. L \in Nat /\ at \in 1 .. L + 1 /\ Shapes
    BY Context
<1>2. performed \subseteq performed'
    BY <1>1 DEF Shapes, Ends, Passes, Fetches, Sends, Hears, Rests
<1>3. at' = at \/ at' = at + 1
    BY <1>1 DEF Shapes, Ends, Passes, Fetches, Sends, Hears, Rests
<1>4. CASE j < at
    BY <1>2, <1>4 DEF ActsAreDone
<1>5. CASE j = at
  <2>1. at' # at /\ Does(at, "act")
      BY <1>1, <1>5 DEF Does
  <2>2. at \in performed
      BY <1>1, <2>1 DEF Shapes, Ends, Passes, Fetches, Sends, Hears, Rests, Does, Is
  <2> QED
      BY <1>2, <1>5, <2>2
<1> QED
    BY <1>1, <1>3, <1>4, <1>5
-----------------------------------------------------------------------------
(* The invariant of every call of a disciplined operation.                 *)
THEOREM Invariance == Spec /\ []CallsAreDisciplined => [](CallDisciplined /\ IInv)
<1>1. CallDisciplined /\ IInv /\ [Next]_vars => CallDisciplined' /\ IInv'
  <2> SUFFICES ASSUME CallDisciplined, IInv, [Next]_vars PROVE CallDisciplined' /\ IInv'
      OBVIOUS
  <2>1. TypeOK' /\ Places'
      BY TypesStep DEF IInv
  <2>2. FlawHalts' /\ TraceHasCause' /\ ScopeIsSeen' /\ ScopeHalts' /\ Pending' /\ Recorded'
         /\ ActsAreDone'
      BY FlawStep, TraceStep, ScopeSeenStep, ScopeHaltsStep, PendingStep, RecordedStep, DoneStep
  <2>3. AdviceIsTrue'
      BY <2>1, <2>2, AdviceStep
  <2>4. op' = op
      BY Context DEF IInv
  <2>5. CallDisciplined'
      BY <2>4 DEF CallDisciplined
  <2> QED
      BY <2>1, <2>2, <2>3, <2>5 DEF IInv
<1>2. Init /\ CallsAreDisciplined => CallDisciplined
    BY DEF Init, CallsAreDisciplined, CallDisciplined
<1> QED
    BY <1>1, <1>2, InitInv, PTL DEF Spec

(* A table of disciplined operations is enough: the discipline is about    *)
(* the operation alone and never about the course of its call.             *)
THEOREM TablesAreEnough == Discipline /\ Spec => []CallsAreDisciplined
<1>1. Discipline /\ Init => op \in Catalogue /\ CallDisciplined
    BY DEF Discipline, Init, CallDisciplined
<1>2. CallDisciplined /\ [Next]_vars => CallDisciplined'
    <2>1. [Next]_vars => op' = op
        BY DEF Next, vars, CheckArguments, FetchOne, FetchFails, RequireFetched, SendAct,
           PerformAct, AnswerAct, NotSent, Refused, AnswerLost, ReserveFile, DeliverResult,
           Complete, Cancel, Others
    <2> QED
        BY <2>1 DEF CallDisciplined
<1>3. CallDisciplined => CallsAreDisciplined
    BY DEF CallDisciplined, CallsAreDisciplined
<1> QED
    BY <1>1, <1>2, <1>3, PTL DEF Spec

-----------------------------------------------------------------------------
(* A call stays within its steps, sends each act once, and answers with an *)
(* error that execution_error.rs knows.                                    *)
THEOREM TypeCorrectness == Spec /\ []CallsAreDisciplined => []TypeOK
BY Invariance, PTL DEF IInv

(* A wrong argument is found before anything is changed or released, and a *)
(* missing confirmation before anything is asked.                          *)
THEOREM LocalFlaws == Spec /\ []CallsAreDisciplined => []FlawsStayLocal
<1>1. CallDisciplined /\ IInv => FlawsStayLocal
  <2> SUFFICES ASSUME CallDisciplined, IInv, flaw # "none"
               PROVE  /\ Sent = {} /\ reply # "ok"
                      /\ flaw \in Confirmations => touched = "nothing"
      BY DEF FlawsStayLocal, Confirmations
  <2>1. /\ op \in Catalogue /\ L \in Nat /\ DOMAIN Steps[op] = 1 .. L /\ at \in 1 .. L + 1
        /\ flaw \in Flaws(op) \ {"none"} /\ FlawsAreChecked(op)
      BY Lengths DEF IInv, TypeOK, CallDisciplined, Disciplined, L
  <2>2. PICK k \in 1 .. L :
          /\ Is(op, k, "check") /\ flaw \in Steps[op][k].of /\ Untouched(op, k - 1, "act")
          /\ flaw \in Confirmations => Untouched(op, k - 1, "fetch")
      BY <2>1 DEF FlawsAreChecked
  <2>3. at <= k
      BY <2>2 DEF IInv, FlawHalts
  <2>4. \A j \in 1 .. L : j <= at /\ (Is(op, j, "act") \/ Is(op, j, "fetch")) => j \in 1 .. k - 1
      BY <2>1, <2>2, <2>3 DEF Is
  <2>5. Sent = {}
      BY <2>1, <2>2, <2>4 DEF IInv, TypeOK, Untouched, Is, L
  <2>6. reply # "ok"
      BY <2>1, <2>3 DEF IInv, Places
  <2>7. flaw \in Confirmations => touched = "nothing"
      BY <2>1, <2>2, <2>4 DEF IInv, TraceHasCause, Untouched
  <2> QED
      BY <2>5, <2>6, <2>7
<1> QED
    BY <1>1, Invariance, PTL

(* No error says that nothing was started, is correctable or left no audit *)
(* record when that is not so, wherever in an operation it arises.         *)
THEOREM TrueAdvice == Spec /\ []CallsAreDisciplined => []AdviceIsTrue
BY Invariance, PTL DEF IInv

(* An object addressed by a bare identifier lies in the caller's project   *)
(* when the act is sent.                                                   *)
THEOREM ProvedScope == Spec /\ []CallsAreDisciplined => []ScopeIsProved
<1>1. CallDisciplined /\ IInv => ScopeIsProved
  <2> SUFFICES ASSUME CallDisciplined, IInv, NEW a \in Sent, NEW f \in Steps[op][a].of \cap bad
               PROVE  FALSE
      BY DEF ScopeIsProved
  <2>1. op \in Catalogue /\ L \in Nat /\ DOMAIN Steps[op] = 1 .. L /\ at \in 1 .. L + 1
      BY Lengths DEF IInv, TypeOK, L
  <2>2. a \in 1 .. L /\ a <= at /\ Is(op, a, "act")
      BY <2>1 DEF IInv, TypeOK, Is, L
  <2>3. PICK k \in 1 .. a - 1 : \E j \in 1 .. k - 1 :
          /\ Is(op, j, "fetch") /\ f[1] \in Steps[op][j].of /\ f \in Steps[op][j].shows
          /\ Is(op, k, "require") /\ f \in Steps[op][k].asks
      BY <2>1, <2>2 DEF CallDisciplined, Disciplined, ActsAreScoped
  <2>4. f \in bad \cap Scopes(op)
      BY <2>1, <2>2 DEF Scopes, Is
  <2>5. PICK j \in 1 .. k - 1 :
          /\ Is(op, j, "fetch") /\ f[1] \in Steps[op][j].of /\ f \in Steps[op][j].shows
          /\ Is(op, k, "require") /\ f \in Steps[op][k].asks
      BY <2>3
  <2>6. k \in 1 .. L /\ j \in 1 .. L /\ k < a
      BY <2>1, <2>2
  <2>7. at <= k
      BY <2>4, <2>5, <2>6 DEF IInv, ScopeHalts, Does
  <2> QED
      BY <2>1, <2>2, <2>6, <2>7
<1> QED
    BY <1>1, Invariance, PTL

(* Success means that every act was performed, and nothing that            *)
(* contradicts the call is returned as its result.                         *)
THEOREM FittingResults == Spec /\ []CallsAreDisciplined => []ResultsFit
<1>1. IInv => ResultsFit
  <2> SUFFICES ASSUME IInv, reply = "ok"
               PROVE  Acts(op) \subseteq performed /\ seen \subseteq Trusted[op]
      BY DEF ResultsFit
  <2>1. L \in Nat /\ DOMAIN Steps[op] = 1 .. L /\ at \in 1 .. L + 1 /\ at > L
      BY Lengths DEF IInv, TypeOK, Places, L
  <2>2. seen \subseteq Trusted[op]
      BY <2>1 DEF IInv, Pending
  <2>3. \A j \in 1 .. L : j < at
      BY <2>1
  <2> QED
      BY <2>1, <2>2, <2>3 DEF IInv, ActsAreDone, Acts, Is
<1> QED
    BY <1>1, Invariance, PTL

(* An act is not sent before the acts in front of it were performed. *)
THEOREM ActsInOrder ==
    Spec /\ []CallsAreDisciplined => [](\A a \in Sent : \A j \in Acts(op) : j < a => j \in performed)
<1>1. IInv => \A a \in Sent : \A j \in Acts(op) : j < a => j \in performed
  <2> SUFFICES ASSUME IInv, NEW a \in Sent, NEW j \in Acts(op), j < a PROVE j \in performed
      OBVIOUS
  <2>1. L \in Nat /\ DOMAIN Steps[op] = 1 .. L /\ at \in 1 .. L + 1 /\ a \in 1 .. at
      BY Lengths DEF IInv, TypeOK, L
  <2>2. j \in 1 .. L /\ Is(op, j, "act") /\ j < at
      BY <2>1 DEF Acts, Is
  <2> QED
      BY <2>2 DEF IInv, ActsAreDone
<1> QED
    BY <1>1, Invariance, PTL

(* A tier tells the truth about what its operations leave behind. *)
THEOREM TrueTiers == Spec /\ []CallsAreDisciplined => []TierIsTrue
<1>1. CallDisciplined /\ IInv => TierIsTrue
  <2> SUFFICES ASSUME CallDisciplined, IInv PROVE TierIsTrue
      OBVIOUS
  <2>1. op \in Catalogue /\ L \in Nat /\ DOMAIN Steps[op] = 1 .. L /\ TierFits(op)
      BY Lengths DEF IInv, TypeOK, CallDisciplined, Disciplined
  <2>2. \A a \in Sent : a \in 1 .. L /\ Is(op, a, "act")
      BY <2>1 DEF IInv, TypeOK, Is, L
  <2> QED
      BY <2>1, <2>2 DEF TierIsTrue, TierFits, Class, IInv, Recorded
<1> QED
    BY <1>1, Invariance, PTL

-----------------------------------------------------------------------------
(* Every disciplined operation is honest in the sense of HonestCall: its   *)
(* effect is the first act that is performed, a success is reported of an  *)
(* operation with acts, and an error refuses when it says that nothing was *)
(* started or that the request may be corrected, but for scope and state   *)
(* errors and for the reads that follow an act.                            *)
Denies ==
    \/ reply \in NotStarted
    \/ /\ reply \in Errors \ StateErrors /\ Recovery(reply) = "correctRequest"
       /\ at \notin ReadsBack(op)

Verdict ==
    IF reply = "none" THEN "nothing"
    ELSE IF reply = "ok" /\ Acts(op) # {} THEN "done"
    ELSE IF Denies THEN "refused" ELSE "unknown"

Effects == IF performed = {} THEN 0 ELSE 1

Honest == INSTANCE HonestCall WITH
    Calls <- {"call"},
    applied <- [c \in {"call"} |-> Effects],
    said <- [c \in {"call"} |-> Verdict]

LEMMA DenialsAreTrue == IInv /\ Denies => Sent = {}
BY DEF IInv, AdviceIsTrue, NotStartedIsTrue, CorrectableIsUnchanged, Denies

VerdictIsTrue ==
    /\ Verdict = "done" => Effects = 1
    /\ Verdict = "refused" => Sent = {} /\ Effects = 0

LEMMA VerdictsAreTrue == IInv => VerdictIsTrue
<1> SUFFICES ASSUME IInv PROVE VerdictIsTrue
    OBVIOUS
<1>1. Verdict = "done" => reply = "ok" /\ Acts(op) # {}
    BY DEF Verdict
<1>2. Verdict = "refused" => Denies
    BY DEF Verdict
<1>3. Denies => Sent = {} /\ performed = {}
    BY DenialsAreTrue DEF Sent
<1>4. reply = "ok" => Acts(op) \subseteq performed
  <2>1. op \in Catalogue /\ L \in Nat /\ DOMAIN Steps[op] = 1 .. L /\ at \in 1 .. L + 1
      BY Lengths DEF IInv, TypeOK, L
  <2>2. reply = "ok" => \A j \in 1 .. L : j < at
      BY <2>1 DEF IInv, Places
  <2> QED
      BY <2>1, <2>2 DEF IInv, ActsAreDone, Acts, Is
<1> QED
    BY <1>1, <1>2, <1>3, <1>4 DEF Effects, VerdictIsTrue

(* What a caller may rely on is the same for every operation: success is   *)
(* only reported of what has happened, a refusal only of what has not and  *)
(* never will, although an act may outlive its call.                       *)
THEOREM OperationsAreHonest == Spec /\ []CallsAreDisciplined => Honest!Spec
<1>1. Init => Honest!Init
    BY DEF Init, Honest!Init, Effects, Verdict
<1>2. CallDisciplined /\ IInv /\ IInv' /\ [Next]_vars => [Honest!Next]_(Honest!vars)
  <2> SUFFICES ASSUME CallDisciplined, IInv, IInv', [Next]_vars,
                      ~(Effects' = Effects /\ Verdict' = Verdict)
               PROVE  Honest!Next
      BY DEF Honest!vars
  <2>1. op' = op /\ Shapes
      BY Context DEF IInv
  <2>2. VerdictIsTrue /\ VerdictIsTrue'
    <3>1. IInv => VerdictIsTrue
        BY VerdictsAreTrue
    <3>2. IInv' => VerdictIsTrue'
        BY VerdictsAreTrue, PTL
    <3> QED
        BY <3>1, <3>2
  <2>3. /\ reply # "none" => reply' = reply /\ at' = at
        /\ performed \subseteq performed'
        /\ reply' = reply \/ performed' = performed
      BY <2>1 DEF Shapes, Ends, Passes, Fetches, Sends, Hears, Rests
  <2>4. CASE reply' = reply
    <3>1. Verdict' = Verdict
        BY <2>1, <2>3, <2>4 DEF Verdict, Denies
    <3>2. performed = {} /\ performed' # {}
        BY <2>3, <3>1 DEF Effects
    <3>3. Sent # {}
        BY <2>1, <2>3, <3>2 DEF Shapes, Ends, Passes, Fetches, Sends, Hears, Rests, Sent
    <3>4. Effects = 0 /\ Effects' = 1
        BY <3>2 DEF Effects
    <3>5. Verdict \in {"nothing", "unknown"}
        BY <2>2, <3>3, <3>4 DEF Verdict, VerdictIsTrue
    <3>6. Honest!Apply("call")
        BY <3>1, <3>4, <3>5 DEF Honest!Apply
    <3> QED
        BY <3>6 DEF Honest!Next
  <2>5. CASE reply' # reply
    <3>1. reply = "none" /\ Effects' = Effects
        BY <2>3, <2>5 DEF Effects
    <3>2. Verdict = "nothing" /\ Verdict' \in Honest!Answers \ {"nothing"}
        BY <2>5, <3>1 DEF Verdict, Honest!Answers
    <3>3. (Verdict' = "done" => Effects = 1) /\ (Verdict' = "refused" => Effects = 0)
        BY <2>2, <3>1 DEF VerdictIsTrue
    <3>4. Honest!Tell("call", Verdict')
        BY <3>1, <3>2, <3>3 DEF Honest!Tell
    <3> QED
        BY <3>2, <3>4 DEF Honest!Next
  <2> QED
      BY <2>4, <2>5
<1> QED
    BY <1>1, <1>2, Invariance, PTL DEF Spec, Honest!Spec
=============================================================================

--------------------- MODULE CertificateLifecycleProofs ----------------------
(***************************************************************************)
(* Theorems about CertificateLifecycle for any number of calls, records    *)
(* and serial numbers.                                                     *)
(***************************************************************************)
EXTENDS CertificateLifecycle, FiniteSetTheorems, TLAPS

(* What each phase knows of the request and the result. *)
PhaseFits ==
    \A c \in Calls :
        /\ at[c] = "idle" => c \notin flying /\ own[c] = None /\ seen[c] = NothingSeen
        /\ at[c] = "sent" => c \in flying
        /\ at[c] = "answered" => own[c] # None
        /\ at[c] # "done" => result[c] = NoResult

(* What has been said is true. *)
ResultIsTrue ==
    \A c \in Calls :
        /\ result[c].said = "done" => own[c] # None
        /\ result[c].said = "refused" => own[c] = None /\ c \notin flying

(* A record that a call has seen or made is in use, and an import has made *)
(* its own record after its first look.                                    *)
RecordsAreKnown ==
    \A c \in Calls :
        /\ \A i \in seen[c].ids : record[i].status # "unused"
        /\ own[c] # None => record[own[c]].status # "unused"
        /\ Op(c) = "import" /\ own[c] # None =>
              /\ own[c] \notin seen[c].ids
              /\ record[own[c]].kind = "imported"
              /\ record[own[c]].serial = args[c].serial

IInv == TypeOK /\ PhaseFits /\ ResultIsTrue /\ RecordsAreKnown /\ ImportsAreNotConfused

LEMMA InitHolds == Init => IInv
PROOF
<1> SUFFICES ASSUME Init PROVE IInv
  OBVIOUS
<1>1. record \in [Ids -> Records]
  BY DEF Init, Records, Record, Unused, Statuses, Kinds
<1>2. inventory \subseteq {i \in Ids : record[i].status # "unused"}
  BY DEF Init, Record, Unused
<1>3. TypeOK
  BY <1>1, <1>2 DEF Init, TypeOK, Phases, NothingSeen, Statuses, NoResult, Says
<1>4. PhaseFits /\ ResultIsTrue /\ RecordsAreKnown /\ ImportsAreNotConfused
  BY DEF Init, PhaseFits, ResultIsTrue, RecordsAreKnown, ImportsAreNotConfused, NothingSeen,
         NoResult, Says
<1> QED
  BY <1>3, <1>4 DEF IInv

LEMMA SendsTypes ==
    ASSUME TypeOK, NEW c \in Calls, own[c] = None,
           NEW remembered \in [ids : SUBSET Ids, status : Statuses], Sends(c, remembered)
    PROVE  /\ at' \in [Calls -> Phases]
           /\ seen' \in [Calls -> [ids : SUBSET Ids, status : Statuses]]
           /\ flying' \subseteq {d \in Calls : own[d] = None}
PROOF
  BY DEF TypeOK, Sends, Goes, Phases

LEMMA TypesKept == IInv /\ [Next]_vars => TypeOK'
PROOF
<1> SUFFICES ASSUME IInv, [Next]_vars PROVE TypeOK'
  OBVIOUS
<1> USE NoneAssumption DEF IInv, TypeOK
<1>1. CASE UNCHANGED vars
  BY <1>1 DEF vars, calls, upstream, Records, Statuses, Phases, Says, WithSerial, Active, Target, Op, Arguments, Kinds
<1>2. ASSUME NEW c \in Calls, Caller(c) \/ Infisical(c) PROVE TypeOK'
  <2>1. CASE LookBefore(c)
    <3>1. [ids |-> WithSerial(args[c].serial), status |-> "unused"]
             \in [ids : SUBSET Ids, status : Statuses]
      BY DEF WithSerial, Statuses
    <3>2. own[c] = None
      BY <2>1 DEF LookBefore, Sends, Goes, PhaseFits
    <3> QED
      BY <2>1, <3>1, <3>2, SendsTypes DEF LookBefore, upstream
  <2>2. CASE ReadTarget(c)
    <3>1. Target(c) \in Ids
      BY <2>2 DEF ReadTarget, Target, Op, Arguments
    <3>2. [ids |-> {}, status |-> record[Target(c)].status]
             \in [ids : SUBSET Ids, status : Statuses]
      BY <3>1 DEF Records
    <3>3. own[c] = None
      BY <2>2 DEF ReadTarget, Sends, Goes, PhaseFits
    <3> QED
      BY <2>2, <3>2, <3>3, SendsTypes DEF ReadTarget, upstream
  <2>3. CASE Refuse(c)
    BY <2>3 DEF Refuse, Ends, Records, Statuses, Phases, Says, WithSerial, Active, Target, Op, Arguments, Kinds, Goes, upstream
  <2>4. CASE Lose(c)
    BY <2>4 DEF Lose, Ends, Records, Statuses, Phases, Says, WithSerial, Active, Target, Op, Arguments, Kinds, Goes, upstream
  <2>5. CASE Cancel(c)
    BY <2>5 DEF Cancel, Ends, Records, Statuses, Phases, Says, WithSerial, Active, Target, Op, Arguments, Kinds, Goes, upstream
  <2>6. CASE FindImport(c)
    <3>1. CASE Cardinality(NewRecords(c)) = 1
      <4>1. PICK i \in NewRecords(c) : Ends(c, "answered", Says("done", i))
        BY <2>6, <3>1 DEF FindImport
      <4>2. i \in Ids
        BY <4>1 DEF NewRecords, WithSerial
      <4> QED
        BY <2>6, <4>1, <4>2 DEF FindImport, Records, Statuses, Phases, Says, WithSerial, Active, Target, Op, Arguments, Kinds, Ends, Goes, upstream
    <3>2. CASE Cardinality(NewRecords(c)) # 1
      <4>1. Ends(c, "answered", Says("unknown", None))
        BY <2>6, <3>2 DEF FindImport
      <4> QED
        BY <2>6, <4>1 DEF FindImport, Ends, Records, Statuses, Phases, Says, WithSerial, Active, Target, Op, Arguments, Kinds, Goes, upstream
    <3> QED
      BY <3>1, <3>2
  <2>7. CASE FindRenewal(c)
    BY <2>7 DEF FindRenewal, Ends, Records, Statuses, Phases, Says, WithSerial, Active, Target, Op, Arguments, Kinds, Goes, upstream
  <2>8. CASE Confirm(c)
    BY <2>8 DEF Confirm, Ends, Records, Statuses, Phases, Says, WithSerial, Active, Target, Op, Arguments, Kinds, Goes, upstream
  <2>9. CASE ConfirmDeletion(c)
    BY <2>9 DEF ConfirmDeletion, Ends, Records, Statuses, Phases, Says, WithSerial, Active, Target, Op, Arguments, Kinds, Goes, upstream
  <2>10. CASE ActRevoke(c)
    BY <2>10 DEF ActRevoke, Revokes, Record, Takes, Records, Statuses, Phases, Says, WithSerial, Active, Target, Op, Arguments, Kinds, Goes, upstream
  <2>11. CASE ActConfigure(c)
    BY <2>11 DEF ActConfigure, Takes, Records, Statuses, Phases, Says, WithSerial, Active, Target, Op, Arguments, Kinds, Goes, upstream
  <2>12. CASE ActDelete(c)
    BY <2>12 DEF ActDelete, Removes, Takes, Records, Statuses, Phases, Says, WithSerial, Active, Target, Op, Arguments, Kinds, Goes, upstream
  <2>13. CASE Reject(c)
    BY <2>13 DEF Reject, Ends, Records, Statuses, Phases, Says, WithSerial, Active, Target, Op, Arguments, Kinds, Goes, upstream
  <2>14. ASSUME NEW i \in Ids, ActImport(c, i) PROVE TypeOK'
    BY <2>14 DEF ActImport, Adds, Takes, Record, Records, Statuses, Phases, Says, WithSerial, Active, Target, Op, Arguments, Kinds, Goes
  <2>15. ASSUME NEW i \in Ids, ActRenew(c, i) PROVE TypeOK'
    BY <2>15 DEF ActRenew, Adds, Takes, Record, Records, Statuses, Phases, Says, WithSerial, Active, Target, Op, Arguments, Kinds, Goes
  <2> QED
    BY <1>2, <2>1, <2>2, <2>3, <2>4, <2>5, <2>6, <2>7, <2>8, <2>9, <2>10, <2>11, <2>12, <2>13, <2>14, <2>15 DEF Caller, Infisical
<1>3. CASE Others
  <2>1. ASSUME NEW i \in Ids, OtherRevoke(i) PROVE TypeOK'
    BY <2>1 DEF OtherRevoke, Revokes, Record, calls, Records, Statuses, Phases, Says, WithSerial, Active, Target, Op, Arguments, Kinds
  <2>2. ASSUME NEW i \in Ids, OtherDelete(i) PROVE TypeOK'
    BY <2>2 DEF OtherDelete, Removes, calls, Records, Statuses, Phases, Says, WithSerial, Active, Target, Op, Arguments, Kinds
  <2>3. ASSUME NEW i \in Ids, NEW s \in Serials, OtherImport(i, s) PROVE TypeOK'
    BY <2>3 DEF OtherImport, Adds, Record, calls, Records, Statuses, Phases, Says, WithSerial, Active, Target, Op, Arguments, Kinds
  <2> QED
    BY <1>3, <2>1, <2>2, <2>3 DEF Others
<1> QED
  BY <1>1, <1>2, <1>3 DEF Next

LEMMA PhasesKept == IInv /\ [Next]_vars => (PhaseFits /\ ResultIsTrue)'
PROOF
<1> SUFFICES ASSUME IInv, [Next]_vars PROVE (PhaseFits /\ ResultIsTrue)'
  OBVIOUS
<1> USE NoneAssumption DEF IInv, TypeOK
<1>1. CASE UNCHANGED vars
  BY <1>1 DEF vars, calls, upstream, PhaseFits, ResultIsTrue, NoResult, Says, NothingSeen, Target, Arguments, Op
<1>2. ASSUME NEW c \in Calls, Caller(c) \/ Infisical(c) PROVE (PhaseFits /\ ResultIsTrue)'
  <2>1. CASE LookBefore(c)
    BY <2>1 DEF LookBefore, Sends, PhaseFits, ResultIsTrue, NoResult, Says, NothingSeen, Target, Arguments, Op, Goes, upstream
  <2>2. CASE ReadTarget(c)
    BY <2>2 DEF ReadTarget, Sends, PhaseFits, ResultIsTrue, NoResult, Says, NothingSeen, Target, Arguments, Op, Goes, upstream
  <2>3. CASE Refuse(c)
    BY <2>3 DEF Refuse, Ends, PhaseFits, ResultIsTrue, NoResult, Says, NothingSeen, Target, Arguments, Op, Goes, upstream
  <2>4. CASE Lose(c)
    BY <2>4 DEF Lose, Ends, PhaseFits, ResultIsTrue, NoResult, Says, NothingSeen, Target, Arguments, Op, Goes, upstream
  <2>5. CASE Cancel(c)
    BY <2>5 DEF Cancel, Ends, PhaseFits, ResultIsTrue, NoResult, Says, NothingSeen, Target, Arguments, Op, Goes, upstream
  <2>6. CASE FindImport(c)
    <3>1. CASE Cardinality(NewRecords(c)) = 1
      <4>1. PICK i \in NewRecords(c) : Ends(c, "answered", Says("done", i))
        BY <2>6, <3>1 DEF FindImport
      <4>2. i \in Ids
        BY <4>1 DEF NewRecords, WithSerial
      <4> QED
        BY <2>6, <4>1, <4>2 DEF FindImport, PhaseFits, ResultIsTrue, NoResult, Says, NothingSeen, Target, Arguments, Op, Ends, Goes, upstream
    <3>2. CASE Cardinality(NewRecords(c)) # 1
      <4>1. Ends(c, "answered", Says("unknown", None))
        BY <2>6, <3>2 DEF FindImport
      <4> QED
        BY <2>6, <4>1 DEF FindImport, Ends, PhaseFits, ResultIsTrue, NoResult, Says, NothingSeen, Target, Arguments, Op, Goes, upstream
    <3> QED
      BY <3>1, <3>2
  <2>7. CASE FindRenewal(c)
    BY <2>7 DEF FindRenewal, Ends, PhaseFits, ResultIsTrue, NoResult, Says, NothingSeen, Target, Arguments, Op, Goes, upstream
  <2>8. CASE Confirm(c)
    BY <2>8 DEF Confirm, Ends, PhaseFits, ResultIsTrue, NoResult, Says, NothingSeen, Target, Arguments, Op, Goes, upstream
  <2>9. CASE ConfirmDeletion(c)
    BY <2>9 DEF ConfirmDeletion, Ends, PhaseFits, ResultIsTrue, NoResult, Says, NothingSeen, Target, Arguments, Op, Goes, upstream
  <2>10. CASE ActRevoke(c)
    BY <2>10 DEF ActRevoke, Revokes, Record, Takes, PhaseFits, ResultIsTrue, NoResult, Says, NothingSeen, Target, Arguments, Op, Goes, upstream
  <2>11. CASE ActConfigure(c)
    BY <2>11 DEF ActConfigure, Takes, PhaseFits, ResultIsTrue, NoResult, Says, NothingSeen, Target, Arguments, Op, Goes, upstream
  <2>12. CASE ActDelete(c)
    BY <2>12 DEF ActDelete, Removes, Takes, PhaseFits, ResultIsTrue, NoResult, Says, NothingSeen, Target, Arguments, Op, Goes, upstream
  <2>13. CASE Reject(c)
    BY <2>13 DEF Reject, Ends, PhaseFits, ResultIsTrue, NoResult, Says, NothingSeen, Target, Arguments, Op, Goes, upstream
  <2>14. ASSUME NEW i \in Ids, ActImport(c, i) PROVE (PhaseFits /\ ResultIsTrue)'
    BY <2>14 DEF ActImport, Adds, Takes, Record, PhaseFits, ResultIsTrue, NoResult, Says, NothingSeen, Target, Arguments, Op, Goes
  <2>15. ASSUME NEW i \in Ids, ActRenew(c, i) PROVE (PhaseFits /\ ResultIsTrue)'
    BY <2>15 DEF ActRenew, Adds, Takes, Record, PhaseFits, ResultIsTrue, NoResult, Says, NothingSeen, Target, Arguments, Op, Goes
  <2> QED
    BY <1>2, <2>1, <2>2, <2>3, <2>4, <2>5, <2>6, <2>7, <2>8, <2>9, <2>10, <2>11, <2>12, <2>13, <2>14, <2>15 DEF Caller, Infisical
<1>3. CASE Others
  <2>1. ASSUME NEW i \in Ids, OtherRevoke(i) PROVE (PhaseFits /\ ResultIsTrue)'
    BY <2>1 DEF OtherRevoke, Revokes, Record, calls, PhaseFits, ResultIsTrue, NoResult, Says, NothingSeen, Target, Arguments, Op
  <2>2. ASSUME NEW i \in Ids, OtherDelete(i) PROVE (PhaseFits /\ ResultIsTrue)'
    BY <2>2 DEF OtherDelete, Removes, calls, PhaseFits, ResultIsTrue, NoResult, Says, NothingSeen, Target, Arguments, Op
  <2>3. ASSUME NEW i \in Ids, NEW s \in Serials, OtherImport(i, s) PROVE (PhaseFits /\ ResultIsTrue)'
    BY <2>3 DEF OtherImport, Adds, Record, calls, PhaseFits, ResultIsTrue, NoResult, Says, NothingSeen, Target, Arguments, Op
  <2> QED
    BY <1>3, <2>1, <2>2, <2>3 DEF Others
<1> QED
  BY <1>1, <1>2, <1>3 DEF Next

LEMMA RecordsKept == IInv /\ [Next]_vars => RecordsAreKnown'
PROOF
<1> SUFFICES ASSUME IInv, [Next]_vars PROVE RecordsAreKnown'
  OBVIOUS
<1> USE NoneAssumption DEF IInv, TypeOK, PhaseFits
<1>1. CASE UNCHANGED vars
  BY <1>1 DEF vars, calls, upstream, RecordsAreKnown, NothingSeen, Active, WithSerial, Op
<1>2. ASSUME NEW c \in Calls, Caller(c) \/ Infisical(c) PROVE RecordsAreKnown'
  <2>1. CASE LookBefore(c)
    BY <2>1 DEF LookBefore, Sends, RecordsAreKnown, NothingSeen, Active, WithSerial, Op, Goes, upstream
  <2>2. CASE ReadTarget(c)
    BY <2>2 DEF ReadTarget, Sends, RecordsAreKnown, NothingSeen, Active, WithSerial, Op, Goes, upstream
  <2>3. CASE Refuse(c)
    BY <2>3 DEF Refuse, Ends, RecordsAreKnown, NothingSeen, Active, WithSerial, Op, Goes, upstream
  <2>4. CASE Lose(c)
    BY <2>4 DEF Lose, Ends, RecordsAreKnown, NothingSeen, Active, WithSerial, Op, Goes, upstream
  <2>5. CASE Cancel(c)
    BY <2>5 DEF Cancel, Ends, RecordsAreKnown, NothingSeen, Active, WithSerial, Op, Goes, upstream
  <2>6. CASE FindImport(c)
    BY <2>6 DEF FindImport, Ends, RecordsAreKnown, NothingSeen, Active, WithSerial, Op, Goes, upstream
  <2>7. CASE FindRenewal(c)
    BY <2>7 DEF FindRenewal, Ends, RecordsAreKnown, NothingSeen, Active, WithSerial, Op, Goes, upstream
  <2>8. CASE Confirm(c)
    BY <2>8 DEF Confirm, Ends, RecordsAreKnown, NothingSeen, Active, WithSerial, Op, Goes, upstream
  <2>9. CASE ConfirmDeletion(c)
    BY <2>9 DEF ConfirmDeletion, Ends, RecordsAreKnown, NothingSeen, Active, WithSerial, Op, Goes, upstream
  <2>10. CASE ActRevoke(c)
    BY <2>10 DEF ActRevoke, Revokes, Record, Takes, RecordsAreKnown, NothingSeen, Active, WithSerial, Op, Goes, upstream
  <2>11. CASE ActConfigure(c)
    BY <2>11 DEF ActConfigure, Takes, RecordsAreKnown, NothingSeen, Active, WithSerial, Op, Goes, upstream
  <2>12. CASE ActDelete(c)
    BY <2>12 DEF ActDelete, Removes, Takes, RecordsAreKnown, NothingSeen, Active, WithSerial, Op, Goes, upstream
  <2>13. CASE Reject(c)
    BY <2>13 DEF Reject, Ends, RecordsAreKnown, NothingSeen, Active, WithSerial, Op, Goes, upstream
  <2>14. ASSUME NEW i \in Ids, ActImport(c, i) PROVE RecordsAreKnown'
    BY <2>14 DEF ActImport, Adds, Takes, Record, RecordsAreKnown, NothingSeen, Active, WithSerial, Op, Goes
  <2>15. ASSUME NEW i \in Ids, ActRenew(c, i) PROVE RecordsAreKnown'
    BY <2>15 DEF ActRenew, Adds, Takes, Record, RecordsAreKnown, NothingSeen, Active, WithSerial, Op, Goes
  <2> QED
    BY <1>2, <2>1, <2>2, <2>3, <2>4, <2>5, <2>6, <2>7, <2>8, <2>9, <2>10, <2>11, <2>12, <2>13, <2>14, <2>15 DEF Caller, Infisical
<1>3. CASE Others
  <2>1. ASSUME NEW i \in Ids, OtherRevoke(i) PROVE RecordsAreKnown'
    BY <2>1 DEF OtherRevoke, Revokes, Record, calls, RecordsAreKnown, NothingSeen, Active, WithSerial, Op
  <2>2. ASSUME NEW i \in Ids, OtherDelete(i) PROVE RecordsAreKnown'
    BY <2>2 DEF OtherDelete, Removes, calls, RecordsAreKnown, NothingSeen, Active, WithSerial, Op
  <2>3. ASSUME NEW i \in Ids, NEW s \in Serials, OtherImport(i, s) PROVE RecordsAreKnown'
    BY <2>3 DEF OtherImport, Adds, Record, calls, RecordsAreKnown, NothingSeen, Active, WithSerial, Op
  <2> QED
    BY <1>3, <2>1, <2>2, <2>3 DEF Others
<1> QED
  BY <1>1, <1>2, <1>3 DEF Next

(* A new record with the serial number that is not the only one is refused; *)
(* if the own record is active it is among the new ones.                   *)
LEMMA ImportsKept == IInv /\ [Next]_vars => ImportsAreNotConfused'
PROOF
<1> SUFFICES ASSUME IInv, [Next]_vars PROVE ImportsAreNotConfused'
  OBVIOUS
<1> USE NoneAssumption DEF IInv, TypeOK, RecordsAreKnown, PhaseFits, ResultIsTrue
<1>1. CASE UNCHANGED vars
  BY <1>1 DEF vars, calls, upstream, ImportsAreNotConfused, Says, Active, Op
<1>2. ASSUME NEW c \in Calls, Caller(c) \/ Infisical(c) PROVE ImportsAreNotConfused'
  <2>1. CASE LookBefore(c)
    BY <2>1 DEF LookBefore, Sends, ImportsAreNotConfused, Says, Active, Op, Goes, upstream
  <2>2. CASE ReadTarget(c)
    BY <2>2 DEF ReadTarget, Sends, ImportsAreNotConfused, Says, Active, Op, Goes, upstream
  <2>3. CASE Refuse(c)
    BY <2>3 DEF Refuse, Ends, ImportsAreNotConfused, Says, Active, Op, Goes, upstream
  <2>4. CASE Lose(c)
    BY <2>4 DEF Lose, Ends, ImportsAreNotConfused, Says, Active, Op, Goes, upstream
  <2>5. CASE Cancel(c)
    BY <2>5 DEF Cancel, Ends, ImportsAreNotConfused, Says, Active, Op, Goes, upstream
  <2>6. CASE FindImport(c)
    <3>1. CASE Cardinality(NewRecords(c)) = 1
      <4>1. PICK i \in NewRecords(c) : Ends(c, "answered", Says("done", i))
        BY <2>6, <3>1 DEF FindImport
      <4>2. IsFiniteSet(NewRecords(c))
        <5>1. NewRecords(c) \subseteq Ids
          BY DEF NewRecords, WithSerial
        <5> QED
          BY <5>1, IdsAssumption, FS_Subset
      <4>3. NewRecords(c) = {i}
        BY <3>1, <4>1, <4>2, FS_Singleton
      <4>4. Active(own[c]) => own[c] \in NewRecords(c)
        BY <2>6, <4>1 DEF FindImport, Ends, Goes, PhaseFits, RecordsAreKnown, NewRecords,
                       WithSerial, Active
      <4> QED
        BY <2>6, <4>1, <4>3, <4>4 DEF FindImport, Ends, Goes, upstream, ImportsAreNotConfused, Says,
                                   Active, Op
    <3>2. CASE Cardinality(NewRecords(c)) # 1
      BY <2>6, <3>2 DEF FindImport, Ends, Goes, upstream, ImportsAreNotConfused, Says, Active, Op
    <3> QED
      BY <3>1, <3>2
  <2>7. CASE FindRenewal(c)
    BY <2>7 DEF FindRenewal, Ends, ImportsAreNotConfused, Says, Active, Op, Goes, upstream
  <2>8. CASE Confirm(c)
    BY <2>8 DEF Confirm, Ends, ImportsAreNotConfused, Says, Active, Op, Goes, upstream
  <2>9. CASE ConfirmDeletion(c)
    BY <2>9 DEF ConfirmDeletion, Ends, ImportsAreNotConfused, Says, Active, Op, Goes, upstream
  <2>10. CASE ActRevoke(c)
    BY <2>10 DEF ActRevoke, Revokes, Record, Takes, ImportsAreNotConfused, Says, Active, Op, Goes, upstream
  <2>11. CASE ActConfigure(c)
    BY <2>11 DEF ActConfigure, Takes, ImportsAreNotConfused, Says, Active, Op, Goes, upstream
  <2>12. CASE ActDelete(c)
    BY <2>12 DEF ActDelete, Removes, Takes, ImportsAreNotConfused, Says, Active, Op, Goes, upstream
  <2>13. CASE Reject(c)
    BY <2>13 DEF Reject, Ends, ImportsAreNotConfused, Says, Active, Op, Goes, upstream
  <2>14. ASSUME NEW i \in Ids, ActImport(c, i) PROVE ImportsAreNotConfused'
    BY <2>14 DEF ActImport, Adds, Takes, Record, ImportsAreNotConfused, Says, Active, Op, Goes
  <2>15. ASSUME NEW i \in Ids, ActRenew(c, i) PROVE ImportsAreNotConfused'
    BY <2>15 DEF ActRenew, Adds, Takes, Record, ImportsAreNotConfused, Says, Active, Op, Goes
  <2> QED
    BY <1>2, <2>1, <2>2, <2>3, <2>4, <2>5, <2>6, <2>7, <2>8, <2>9, <2>10, <2>11, <2>12, <2>13, <2>14, <2>15 DEF Caller, Infisical
<1>3. CASE Others
  <2>1. ASSUME NEW i \in Ids, OtherRevoke(i) PROVE ImportsAreNotConfused'
    BY <2>1 DEF OtherRevoke, Revokes, Record, calls, ImportsAreNotConfused, Says, Active, Op
  <2>2. ASSUME NEW i \in Ids, OtherDelete(i) PROVE ImportsAreNotConfused'
    BY <2>2 DEF OtherDelete, Removes, calls, ImportsAreNotConfused, Says, Active, Op
  <2>3. ASSUME NEW i \in Ids, NEW s \in Serials, OtherImport(i, s) PROVE ImportsAreNotConfused'
    BY <2>3 DEF OtherImport, Adds, Record, calls, ImportsAreNotConfused, Says, Active, Op
  <2> QED
    BY <1>3, <2>1, <2>2, <2>3 DEF Others
<1> QED
  BY <1>1, <1>2, <1>3 DEF Next

LEMMA Invariance == Spec => []IInv
PROOF
<1>1. IInv /\ [Next]_vars => IInv'
  BY TypesKept, PhasesKept, RecordsKept, ImportsKept DEF IInv
<1> QED
  BY InitHolds, <1>1, PTL DEF Spec

(* Every state has the declared types, and no request takes effect twice. *)
THEOREM TypeCorrectness == Spec => []TypeOK
PROOF
<1>1. IInv => TypeOK
  BY DEF IInv
<1> QED
  BY Invariance, <1>1, PTL

(* The record an import reports is its own as long as that one is active. *)
THEOREM ImportIsOwn == Spec => []ImportsAreNotConfused
PROOF
<1>1. IInv => ImportsAreNotConfused
  BY DEF IInv
<1> QED
  BY Invariance, <1>1, PTL

(* The record of an import that was answered is among those it has not     *)
(* seen before, as long as it is active.                                   *)
LEMMA OwnRecordIsNew ==
    ASSUME IInv, NEW c \in Calls, Op(c) = "import", at[c] = "answered", Active(own[c])
    PROVE  own[c] \in NewRecords(c)
PROOF
<1>1. own[c] \in inventory /\ own[c] # None
  BY DEF IInv, PhaseFits, Active
<1>2. /\ own[c] \notin seen[c].ids
      /\ record[own[c]].kind = "imported" /\ record[own[c]].serial = args[c].serial
  BY <1>1 DEF IInv, RecordsAreKnown
<1> QED
  BY <1>1, <1>2 DEF NewRecords, WithSerial

(* When nobody else has imported the certificate in the meantime, an       *)
(* import that was made and answered is recognised (import_certificate).   *)
THEOREM ImportIsRecognised == Spec => ImportsAreRecognised
PROOF
<1>1. ASSUME IInv, NEW c \in Calls, FindImport(c), Active(own[c]),
             \A i \in NewRecords(c) : i = own[c]
      PROVE  result'[c] = Says("done", own[c])
  <2>1. Op(c) = "import" /\ at[c] = "answered"
    BY <1>1 DEF FindImport, Ends, Goes
  <2>2. NewRecords(c) = {own[c]}
    BY <1>1, <2>1, OwnRecordIsNew
  <2>3. Cardinality(NewRecords(c)) = 1
    BY <2>2, FS_Singleton
  <2>4. Ends(c, "answered", Says("done", own[c]))
    BY <1>1, <2>2, <2>3 DEF FindImport
  <2> QED
    BY <1>1, <2>4 DEF Ends, IInv, TypeOK
<1>2. IInv =>
        [\A c \in Calls : FindImport(c) =>
            \/ result'[c] = Says("done", own[c])
            \/ ~Active(own[c])
            \/ \E i \in NewRecords(c) : i # own[c]]_vars
  BY <1>1
<1> QED
  BY Invariance, <1>2, PTL DEF Spec, ImportsAreRecognised

(* A request that takes effect is the abstract Apply, the end of a call the *)
(* abstract Tell, and everything else a stutter.                           *)
LEMMA TakesApplies ==
    ASSUME IInv, NEW c \in Calls, NEW i \in Ids, Takes(c, i)
    PROVE  Honest!Apply(c)
PROOF
<1> USE NoneAssumption DEF IInv, TypeOK
<1>1. own[c] = None /\ own' = [own EXCEPT ![c] = i] /\ result' = result /\ i # None
  BY DEF Takes
<1>2. result[c].said \in {"nothing", "unknown"}
  BY DEF Takes, ResultIsTrue
<1>3. [d \in Calls |-> IF own'[d] = None THEN 0 ELSE 1]
        = [[d \in Calls |-> IF own[d] = None THEN 0 ELSE 1] EXCEPT ![c] = 1]
  BY <1>1
<1> QED
  BY <1>1, <1>2, <1>3 DEF Honest!Apply

LEMMA EndsTells ==
    ASSUME IInv, IInv', NEW c \in Calls, NEW p \in Phases \ {"done"}, NEW answer,
           Ends(c, p, answer), answer.said \in Honest!Answers \ {"nothing"}, own' = own
    PROVE  Honest!Next
PROOF
<1> USE DEF IInv, TypeOK
<1>1. at[c] # "done" /\ result[c].said = "nothing"
  BY DEF Ends, Goes, PhaseFits, NoResult, Says
<1>2. result' = [result EXCEPT ![c] = answer] /\ result'[c] = answer
  BY DEF Ends
<1>3. /\ answer.said = "done" => own[c] # None
      /\ answer.said = "refused" => own[c] = None
  BY <1>2 DEF ResultIsTrue
<1>4. [d \in Calls |-> result'[d].said]
        = [[d \in Calls |-> result[d].said] EXCEPT ![c] = answer.said]
  BY <1>2
<1>5. Honest!Tell(c, answer.said)
  BY <1>1, <1>3, <1>4 DEF Honest!Tell
<1> QED
  BY <1>5 DEF Honest!Next

(* Every operation takes effect at most once, reports success only of what *)
(* has happened and a refusal only of what has not and will not.           *)
THEOREM OperationsAreHonest == Spec => HonestSpec
PROOF
<1>1. Init => Honest!Init
  BY DEF Init, Honest!Init, NoResult, Says
<1>2. IInv /\ IInv' /\ [Next]_vars => [Honest!Next]_(Honest!vars)
  <2> SUFFICES ASSUME IInv, IInv', [Next]_vars, ~(own' = own /\ result' = result)
               PROVE  Honest!Next
    BY DEF Honest!vars
  <2>1. PICK c \in Calls : Caller(c) \/ Infisical(c)
    BY DEF Next, Others, OtherRevoke, OtherDelete, OtherImport, vars, calls
  <2>2. ASSUME NEW i \in Ids, Takes(c, i) PROVE Honest!Next
    BY <2>2, TakesApplies DEF Honest!Next
  <2>3. CASE \E i \in Ids : ActImport(c, i) \/ ActRenew(c, i)
    BY <2>2, <2>3 DEF ActImport, ActRenew
  <2>4. CASE ActRevoke(c) \/ ActConfigure(c) \/ ActDelete(c)
    <3>1. Target(c) \in Ids
      BY <2>4 DEF ActRevoke, ActConfigure, ActDelete, IInv, TypeOK, Arguments, Target, Op
    <3> QED
      BY <2>2, <2>4, <3>1 DEF ActRevoke, ActConfigure, ActDelete
  <2>5. CASE LookBefore(c) \/ ReadTarget(c)
    BY <2>5 DEF LookBefore, ReadTarget
  <2>6. ASSUME NEW p \in Phases \ {"done"}, NEW said \in {"done", "refused", "unknown"}, NEW of,
               Ends(c, p, Says(said, of)), own' = own
        PROVE  Honest!Next
    <3>1. Says(said, of).said \in Honest!Answers \ {"nothing"}
      BY DEF Says, Honest!Answers
    <3> QED
      BY <2>1, <2>6, <3>1, EndsTells
  <2>7. {"idle", "sent", "answered"} \subseteq Phases \ {"done"}
    BY DEF Phases
  <2>8. CASE Refuse(c)
    BY <2>6, <2>7, <2>8 DEF Refuse
  <2>9. CASE Reject(c)
    BY <2>6, <2>7, <2>9 DEF Reject
  <2>10. CASE Lose(c)
    BY <2>6, <2>7, <2>10 DEF Lose
  <2>11. CASE Cancel(c)
    BY <2>6, <2>7, <2>11 DEF Cancel
  <2>12. CASE FindImport(c)
    BY <2>6, <2>7, <2>12 DEF FindImport
  <2>13. CASE FindRenewal(c)
    BY <2>6, <2>7, <2>13 DEF FindRenewal
  <2>14. CASE Confirm(c)
    BY <2>6, <2>7, <2>14 DEF Confirm
  <2>15. CASE ConfirmDeletion(c)
    BY <2>6, <2>7, <2>15 DEF ConfirmDeletion
  <2> QED
    BY <2>1, <2>3, <2>4, <2>5, <2>8, <2>9, <2>10, <2>11, <2>12, <2>13, <2>14, <2>15 DEF Caller, Infisical
<1> QED
  BY Invariance, <1>1, <1>2, PTL DEF Spec, HonestSpec, Honest!Spec
==============================================================================

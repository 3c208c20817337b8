--------------------------- MODULE JwksCacheProofs ---------------------------
(***************************************************************************)
(* Proofs about JwksCache for any requests, keys and bounds: how often the *)
(* provider is asked, how long a withdrawn key lives, how soon a new one   *)
(* is known, and that no request waits for one that cannot go on.          *)
(***************************************************************************)
EXTENDS JwksCache, TLAPS

(* The shorter of the deferral and the lifetime. *)
Window == IF UnknownCooldown <= CacheTtl THEN UnknownCooldown ELSE CacheTtl

(* A fetch in progress has a pause that outlasts it, and started when the  *)
(* pause of the last failure was over.                                     *)
FetchReserved ==
    holder # NoRequest =>
        /\ pause >= FailedCooldown + (RequestTimeout - fetch.age)
        /\ ago.trouble >= FailedCooldown
        /\ fetch.forMiss \/ ago.before >= Window
TroubleIsPaused == ago.trouble + pause >= FailedCooldown

(* What keeps the next fetch away: the lifetime, the pause, the deferral.  *)
LastIsCovered == ago.last + fresh >= Window \/ ago.last + pause >= Window
BeforeIsCovered ==
    \/ ago.before >= Window
    \/ ago.before + pause >= Window
    \/ ago.before + deferred >= Window
StartsAreOrdered == ago.before >= ago.last

SpacingInv ==
    /\ FetchReserved /\ TroubleIsPaused /\ LastIsCovered
    /\ BeforeIsCovered /\ StartsAreOrdered

(* A cached key, or one in a response, was published not long ago.         *)
KnownWasPublished ==
    \A k \in Keys : fresh > 0 /\ k \in known /\ k \notin published
        => since[k] <= (CacheTtl - fresh) + RequestTimeout
AnswerWasPublished ==
    \A k \in Keys : holder # NoRequest /\ fetch.answered /\ k \notin published
                        /\ k \in fetch.keys
        => since[k] <= fetch.age

(* The deferral never outlives a pause, so that what defers unknown keys   *)
(* while no pause does is a set that was just received.                    *)
DeferralWithinPause == pause > 0 => deferred <= pause
UnknownIsNew ==
    \A k \in Keys : pause = 0 /\ fresh > 0 /\ deferred > 0 /\ k \notin known
                        /\ k \in published
        => since[k] <= (UnknownCooldown - deferred) + RequestTimeout
MissingIsNew ==
    \A k \in Keys : holder # NoRequest /\ fetch.answered /\ k \in published
                        /\ k \notin fetch.keys
        => since[k] <= fetch.age

KeyInv ==
    /\ KnownWasPublished /\ AnswerWasPublished
    /\ DeferralWithinPause /\ UnknownIsNew /\ MissingIsNew

IInv == TypeOK /\ SpacingInv /\ KeyInv

------------------------------------------------------------------------------
LEMMA InitInv == Init => IInv
BY BoundsAssumption, LongAssumption, NoneAssumption
   DEF Init, IInv, TypeOK, SpacingInv, KeyInv, FetchReserved, TroubleIsPaused,
       LastIsCovered, BeforeIsCovered, StartsAreOrdered, KnownWasPublished,
       AnswerWasPublished, DeferralWithinPause, UnknownIsNew, MissingIsNew,
       NewFetch, NoFetch, Idle, At, Verdicts, Window

LEMMA NextTypeOK == TypeOK /\ [Next]_vars => TypeOK'
<1> SUFFICES ASSUME TypeOK, [Next]_vars PROVE TypeOK'
    OBVIOUS
<1> USE BoundsAssumption, LongAssumption, NoneAssumption
    DEF TypeOK, NewFetch, NoFetch, Idle, At, Verdicts, Answer
<1>1. CASE Tick
    BY <1>1 DEF Tick, Less, More
<1>2. CASE ProviderAnswers
    BY <1>2 DEF ProviderAnswers
<1>3. ASSUME NEW k \in Keys, Rotate(k) PROVE TypeOK'
    BY <1>3 DEF Rotate
<1>4. ASSUME NEW r \in Requests, NEW k \in Keys, Arrive(r, k) PROVE TypeOK'
    BY <1>4 DEF Arrive
<1>5. ASSUME NEW r \in Requests,
             HitUnderLock(r) \/ RefuseCooldown(r) \/ RefuseUnknown(r)
      PROVE  TypeOK'
    BY <1>5 DEF HitUnderLock, RefuseCooldown, RefuseUnknown
<1>6. ASSUME NEW r \in Requests, StartFetch(r) PROVE TypeOK'
    <2>1. pause' \in 0..(RequestTimeout + FailedCooldown)
          /\ deferred' \in 0..UnknownCooldown
        BY <1>6 DEF StartFetch
    <2>2. fetch' \in [forMiss : BOOLEAN, age : 0..RequestTimeout,
                      answered : BOOLEAN, keys : SUBSET Keys]
        <3>1. Miss(req[r].key) \in BOOLEAN
            BY DEF Miss
        <3>2. fetch' = NewFetch(Miss(req[r].key))
            BY <1>6 DEF StartFetch
        <3> QED
            BY <3>1, <3>2
    <2>3. /\ req' \in [Requests -> [at : {"idle", "queued", "fetching", "done"},
                                    key : Keys \cup {NoKey}, verdict : Verdicts]]
          /\ ago' \in [last : 0..Long, before : 0..Long, trouble : 0..Long]
        BY <1>6 DEF StartFetch
    <2> QED
        BY <1>6, <2>1, <2>2, <2>3 DEF StartFetch
<1>7. ASSUME NEW r \in Requests, Received(r) PROVE TypeOK'
    BY <1>7 DEF Received
<1>8. ASSUME NEW r \in Requests, FetchFails(r) PROVE TypeOK'
    BY <1>8 DEF FetchFails
<1>9. ASSUME NEW r \in Requests, Cancel(r) PROVE TypeOK'
    <2>1. req' \in [Requests -> [at : {"idle", "queued", "fetching", "done"},
                                 key : Keys \cup {NoKey}, verdict : Verdicts]]
        BY <1>9 DEF Cancel
    <2>2. CASE holder = r
        <3>1. /\ holder' = NoRequest /\ fetch' = NoFetch
              /\ ago' = [ago EXCEPT !.trouble = 0]
            BY <1>9, <2>2 DEF Cancel
        <3>2. ago' \in [last : 0..Long, before : 0..Long, trouble : 0..Long]
            BY <3>1
        <3> QED
            BY <1>9, <2>1, <3>1, <3>2 DEF Cancel
    <2>3. CASE holder # r
        BY <1>9, <2>1, <2>3 DEF Cancel
    <2> QED
        BY <2>2, <2>3
<1>10. ASSUME NEW r \in Requests, Leave(r) PROVE TypeOK'
    BY <1>10 DEF Leave
<1>11. CASE UNCHANGED vars
    BY <1>11 DEF vars
<1> QED
    BY <1>1, <1>2, <1>3, <1>4, <1>5, <1>6, <1>7, <1>8, <1>9, <1>10, <1>11
    DEF Next, RequestStep

(* Every step keeps the next fetch as far away as it must be. *)
LEMMA NextSpacing == TypeOK /\ SpacingInv /\ [Next]_vars => SpacingInv'
<1> SUFFICES ASSUME TypeOK, SpacingInv, [Next]_vars PROVE SpacingInv'
    OBVIOUS
<1> USE BoundsAssumption, LongAssumption, NoneAssumption
    DEF TypeOK, SpacingInv, FetchReserved, TroubleIsPaused, LastIsCovered,
        BeforeIsCovered, StartsAreOrdered, Window, NewFetch, NoFetch
<1>1. CASE Tick
    BY <1>1 DEF Tick, Less, More
<1>2. CASE ProviderAnswers
    BY <1>2 DEF ProviderAnswers
<1>3. ASSUME NEW r \in Requests, StartFetch(r) PROVE SpacingInv'
    <2>1. /\ holder = NoRequest /\ pause = 0 /\ holder' = r
          /\ pause' = RequestTimeout + FailedCooldown
          /\ ago'.last = 0 /\ ago'.before = ago.last /\ ago'.trouble = ago.trouble
        BY <1>3 DEF StartFetch
    <2>2. fetch'.age = 0 /\ fetch'.forMiss = Miss(req[r].key)
        BY <1>3 DEF StartFetch
    <2>3. CASE fresh = 0
        BY <2>1, <2>2, <2>3 DEF Miss
    <2>4. CASE fresh > 0
        <3>1. Miss(req[r].key) /\ deferred' = UnknownCooldown
            BY <1>3, <2>4 DEF StartFetch, Miss, Hit
        <3> QED
            BY <2>1, <2>2, <3>1
    <2> QED
        BY <2>3, <2>4
<1>4. ASSUME NEW r \in Requests, Received(r) PROVE SpacingInv'
    BY <1>4 DEF Received
<1>5. ASSUME NEW r \in Requests, FetchFails(r) PROVE SpacingInv'
    BY <1>5 DEF FetchFails
<1>6. ASSUME NEW r \in Requests, Cancel(r) PROVE SpacingInv'
    BY <1>6 DEF Cancel
<1>7. CASE UNCHANGED <<fresh, deferred, pause, holder, fetch, ago>>
    BY <1>7
<1>8. ASSUME NEW r \in Requests,
             \/ HitUnderLock(r) \/ RefuseCooldown(r) \/ RefuseUnknown(r) \/ Leave(r)
             \/ \E k \in Keys : Arrive(r, k)
      PROVE  UNCHANGED <<fresh, deferred, pause, holder, fetch, ago>>
    BY <1>8 DEF HitUnderLock, RefuseCooldown, RefuseUnknown, Leave, Arrive
<1>9. ASSUME NEW k \in Keys, Rotate(k)
      PROVE  UNCHANGED <<fresh, deferred, pause, holder, fetch, ago>>
    BY <1>9 DEF Rotate
<1>10. CASE UNCHANGED vars
    BY <1>10, <1>7 DEF vars
<1> QED
    BY <1>1, <1>2, <1>3, <1>4, <1>5, <1>6, <1>7, <1>8, <1>9, <1>10
    DEF Next, RequestStep

(* Every step keeps what is cached, and what is deferred, recent. *)
LEMMA NextKeys == TypeOK /\ KeyInv /\ [Next]_vars => KeyInv'
<1> SUFFICES ASSUME TypeOK, KeyInv, [Next]_vars PROVE KeyInv'
    OBVIOUS
<1> USE BoundsAssumption, LongAssumption, NoneAssumption
    DEF TypeOK, KeyInv, KnownWasPublished, AnswerWasPublished,
        DeferralWithinPause, UnknownIsNew, MissingIsNew, NewFetch, NoFetch
<1>1. CASE Tick
    BY <1>1 DEF Tick, Less, More
<1>2. CASE ProviderAnswers
    BY <1>2 DEF ProviderAnswers
<1>3. ASSUME NEW r \in Requests, StartFetch(r) PROVE KeyInv'
    BY <1>3 DEF StartFetch, Miss, Hit
<1>4. ASSUME NEW r \in Requests, Received(r) PROVE KeyInv'
    BY <1>4 DEF Received
<1>5. ASSUME NEW r \in Requests, FetchFails(r) PROVE KeyInv'
    BY <1>5 DEF FetchFails
<1>6. ASSUME NEW r \in Requests, Cancel(r) PROVE KeyInv'
    BY <1>6 DEF Cancel
<1>7. CASE UNCHANGED <<cache, pause, holder, fetch, published, since>>
    BY <1>7 DEF cache
<1>8. ASSUME NEW r \in Requests,
             \/ HitUnderLock(r) \/ RefuseCooldown(r) \/ RefuseUnknown(r) \/ Leave(r)
             \/ \E k \in Keys : Arrive(r, k)
      PROVE  UNCHANGED <<cache, pause, holder, fetch, published, since>>
    BY <1>8 DEF HitUnderLock, RefuseCooldown, RefuseUnknown, Leave, Arrive, cache
<1>9. ASSUME NEW k \in Keys, Rotate(k) PROVE KeyInv'
    BY <1>9 DEF Rotate
<1>10. CASE UNCHANGED vars
    BY <1>10, <1>7 DEF vars, cache
<1> QED
    BY <1>1, <1>2, <1>3, <1>4, <1>5, <1>6, <1>7, <1>8, <1>9, <1>10
    DEF Next, RequestStep

------------------------------------------------------------------------------
(* The inductive invariant of JwksCache. *)
THEOREM Invariance == Spec => []IInv
<1>1. IInv /\ [Next]_vars => IInv'
    BY NextTypeOK, NextSpacing, NextKeys DEF IInv
<1> QED
    BY InitInv, <1>1, PTL DEF Spec

(* Type correctness: no timer outlives its instant, no fetch its timeout.  *)
THEOREM TypeCorrectness == Spec => []TypeOK
BY Invariance, PTL DEF IInv

(* A request starts a fetch only by StartFetch. *)
LEMMA OnlyStartFetch ==
    ASSUME TypeOK, [Next]_vars, NEW r \in Requests,
           req[r].at = "queued", req'[r].at = "fetching"
    PROVE  StartFetch(r)
<1> USE DEF TypeOK, At, Idle, Answer
<1>1. ASSUME NEW q \in Requests, StartFetch(q) PROVE q = r
    BY <1>1 DEF StartFetch
<1>2. ASSUME NEW q \in Requests,
             \/ HitUnderLock(q) \/ RefuseCooldown(q) \/ RefuseUnknown(q)
             \/ Received(q) \/ FetchFails(q) \/ Cancel(q) \/ Leave(q)
             \/ \E k \in Keys : Arrive(q, k)
      PROVE  FALSE
    BY <1>2 DEF HitUnderLock, RefuseCooldown, RefuseUnknown, Received, FetchFails,
                Cancel, Leave, Arrive
<1>3. ASSUME UNCHANGED req PROVE FALSE
    BY <1>3
<1> QED
    BY <1>1, <1>2, <1>3 DEF Next, RequestStep, Tick, ProviderAnswers, Rotate, vars

(* Of any three fetches the first and the last start a cooldown, or a      *)
(* cache lifetime, apart.                                                  *)
THEOREM Spacing == Spec => FetchesAreSpaced
<1>1. IInv /\ [Next]_vars =>
        [\A r \in Requests :
          req[r].at = "queued" /\ req'[r].at = "fetching" =>
              ago.before >= UnknownCooldown \/ ago.before >= CacheTtl]_vars
    <2> SUFFICES ASSUME IInv, [Next]_vars, NEW r \in Requests,
                        req[r].at = "queued", req'[r].at = "fetching"
                 PROVE  ago.before >= UnknownCooldown \/ ago.before >= CacheTtl
        OBVIOUS
    <2>1. StartFetch(r)
        BY OnlyStartFetch DEF IInv
    <2> QED
        BY <2>1, BoundsAssumption, LongAssumption
        DEF IInv, TypeOK, SpacingInv, LastIsCovered, BeforeIsCovered,
            StartsAreOrdered, Window, StartFetch, Hit, Miss
<1> QED
    BY <1>1, Invariance, PTL DEF Spec, FetchesAreSpaced

(* A fetch that failed or was abandoned is not restarted at once. *)
THEOREM FailurePause == Spec => FailedFetchIsNotRestarted
<1>1. IInv /\ [Next]_vars =>
        [\A r \in Requests :
          req[r].at = "queued" /\ req'[r].at = "fetching" =>
              ago.trouble >= FailedCooldown]_vars
    <2> SUFFICES ASSUME IInv, [Next]_vars, NEW r \in Requests,
                        req[r].at = "queued", req'[r].at = "fetching"
                 PROVE  ago.trouble >= FailedCooldown
        OBVIOUS
    <2>1. StartFetch(r)
        BY OnlyStartFetch DEF IInv
    <2> QED
        BY <2>1, BoundsAssumption
        DEF IInv, TypeOK, SpacingInv, TroubleIsPaused, StartFetch
<1> QED
    BY <1>1, Invariance, PTL DEF Spec, FailedFetchIsNotRestarted

(* What a verdict says of the key it is about. *)
LEMMA VerdictIsRecent ==
    ASSUME IInv, [Next]_vars, NEW r \in Requests, NEW k \in Keys, req'[r].key = k
    PROVE  /\ Decided(r, "accepted") /\ k \notin published
                => since[k] < CacheTtl + RequestTimeout
           /\ Decided(r, "unavailable") /\ k \in published
                => since[k] < UnknownCooldown + RequestTimeout
<1> DEFINE Goal ==
        /\ Decided(r, "accepted") /\ k \notin published
             => since[k] < CacheTtl + RequestTimeout
        /\ Decided(r, "unavailable") /\ k \in published
             => since[k] < UnknownCooldown + RequestTimeout
<1> USE BoundsAssumption, LongAssumption, NoneAssumption
    DEF IInv, TypeOK, KeyInv, At, Idle, Answer, Decided
<1>1. ASSUME NEW q \in Requests, NEW j \in Keys, Arrive(q, j) PROVE Goal
    BY <1>1 DEF Arrive, Hit, KnownWasPublished
<1>2. ASSUME NEW q \in Requests, HitUnderLock(q) PROVE Goal
    BY <1>2 DEF HitUnderLock, Hit, KnownWasPublished
<1>3. ASSUME NEW q \in Requests, RefuseUnknown(q) PROVE Goal
    BY <1>3 DEF RefuseUnknown, Miss, UnknownIsNew
<1>4. ASSUME NEW q \in Requests, Received(q) PROVE Goal
    BY <1>4 DEF Received, AnswerWasPublished, MissingIsNew
<1>5. ASSUME NEW q \in Requests,
             \/ RefuseCooldown(q) \/ FetchFails(q) \/ StartFetch(q) \/ Cancel(q)
             \/ Leave(q)
      PROVE  Goal
    BY <1>5 DEF RefuseCooldown, FetchFails, StartFetch, Cancel, Leave
<1>6. ASSUME UNCHANGED req PROVE Goal
    BY <1>6
<1> HIDE DEF Goal
<1>7. Goal
    BY <1>1, <1>2, <1>3, <1>4, <1>5, <1>6
    DEF Next, RequestStep, Tick, ProviderAnswers, Rotate, vars
<1> QED
    BY <1>7 DEF Goal

(* A withdrawn key is accepted for a bounded time only. *)
THEOREM KeyExpiry == Spec => WithdrawnKeysExpire
<1>1. IInv /\ [Next]_vars =>
        [\A r \in Requests, k \in Keys :
          Decided(r, "accepted") /\ req'[r].key = k /\ k \notin published
            => since[k] < CacheTtl + RequestTimeout]_vars
    BY VerdictIsRecent
<1> QED
    BY <1>1, Invariance, PTL DEF Spec, WithdrawnKeysExpire

(* A published key is called unknown for a bounded time only. *)
THEOREM KeyAdmission == Spec => NewKeysBecomeKnown
<1>1. IInv /\ [Next]_vars =>
        [\A r \in Requests, k \in Keys :
          Decided(r, "unavailable") /\ req'[r].key = k /\ k \in published
            => since[k] < UnknownCooldown + RequestTimeout]_vars
    BY VerdictIsRecent
<1> QED
    BY <1>1, Invariance, PTL DEF Spec, NewKeysBecomeKnown
(* Nobody can make the server hammer the provider. *)
THEOREM ProviderSpared == Spec => ProviderIsSpared
BY Spacing, FailurePause DEF ProviderIsSpared

(* Rotations of the provider's keys arrive in bounded time. *)
THEOREM KeysFollow == Spec => KeysFollowProvider
BY KeyExpiry, KeyAdmission DEF KeysFollowProvider

------------------------------------------------------------------------------
(* The mutex is held by the one request that fetches, and by no other. *)
OneFetches == \A r \in Requests : req[r].at = "fetching" <=> holder = r

(* What a request can do next: the guards of its own steps. *)
CanGoOn(r) ==
    \/ req[r].at = "queued" /\ holder = NoRequest
    \/ req[r].at = "fetching" /\ holder = r

(* A request that cannot go on waits for the one that fetches, and that    *)
(* one can, at the latest when its fetch times out: nobody waits in a      *)
(* circle, and nobody waits for a request that has gone away.              *)
NobodyWaitsInACircle ==
    \A r \in Requests : req[r].at \in {"queued", "fetching"} =>
        CanGoOn(r) \/ (holder \in Requests \ {r} /\ CanGoOn(holder))

LEMMA NextOneFetches == TypeOK /\ OneFetches /\ [Next]_vars => OneFetches'
<1> SUFFICES ASSUME TypeOK, OneFetches, [Next]_vars PROVE OneFetches'
    OBVIOUS
<1> USE NoneAssumption DEF TypeOK, OneFetches, At, Idle, Answer
<1>1. CASE Tick \/ ProviderAnswers \/ UNCHANGED vars
    BY <1>1 DEF Tick, ProviderAnswers, vars
<1>2. ASSUME NEW k \in Keys, Rotate(k) PROVE OneFetches'
    BY <1>2 DEF Rotate
<1>3. ASSUME NEW r \in Requests,
             HitUnderLock(r) \/ RefuseCooldown(r) \/ RefuseUnknown(r) \/ Leave(r)
      PROVE OneFetches'
    BY <1>3 DEF HitUnderLock, RefuseCooldown, RefuseUnknown, Leave
<1>4. ASSUME NEW r \in Requests, StartFetch(r) PROVE OneFetches'
    BY <1>4 DEF StartFetch
<1>5. ASSUME NEW r \in Requests, Received(r) PROVE OneFetches'
    BY <1>5 DEF Received
<1>6. ASSUME NEW r \in Requests, FetchFails(r) PROVE OneFetches'
    BY <1>6 DEF FetchFails
<1>7. ASSUME NEW r \in Requests, Cancel(r) PROVE OneFetches'
    BY <1>7 DEF Cancel
<1>8. ASSUME NEW r \in Requests, NEW k \in Keys, Arrive(r, k) PROVE OneFetches'
    BY <1>8 DEF Arrive
<1> QED
    BY <1>1, <1>2, <1>3, <1>4, <1>5, <1>6, <1>7, <1>8 DEF Next, RequestStep

(* The refresh mutex and the fetch belong together, also when the future   *)
(* of the fetching request is dropped (key_for, the guard held across the  *)
(* fetch).                                                                 *)
THEOREM MutexFollowsFetch == Spec => []OneFetches
<1>1. Init => OneFetches
    BY NoneAssumption DEF Init, OneFetches, Idle, At
<1> QED
    BY <1>1, NextOneFetches, TypeCorrectness, PTL DEF Spec

(* The safety half of EveryRequestIsAnswered, for any number of requests. *)
THEOREM NoCircularWait == Spec => []NobodyWaitsInACircle
<1>1. TypeOK /\ OneFetches => NobodyWaitsInACircle
    BY NoneAssumption DEF TypeOK, OneFetches, NobodyWaitsInACircle, CanGoOn
<1> QED
    BY <1>1, TypeCorrectness, MutexFollowsFetch, PTL
==============================================================================

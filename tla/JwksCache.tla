------------------------------ MODULE JwksCache ------------------------------
(***************************************************************************)
(* The signing keys of the identity provider as the MCP ingress sees them  *)
(* (infisical-server/src/auth.rs, IdentityVerifier::key_for): a cache with *)
(* a lifetime, a deferral that keeps unknown key ids from causing fetches, *)
(* and one mutex, held across the fetch, whose content is the time before  *)
(* which no other fetch may start.                                         *)
(*                                                                         *)
(* Instants are modelled by what is left until them, in ticks; 0 stands    *)
(* for None and for an instant that has passed, which the code treats the  *)
(* same.  The published keys are the provider's and change at any time.    *)
(***************************************************************************)
EXTENDS Integers, FiniteSets

CONSTANTS
    Requests,        \* requests being authenticated concurrently
    Keys,            \* key ids
    NoKey, NoRequest,
    CacheTtl,        \* IdentityVerifierSettings.cache_ttl
    RequestTimeout,  \* IdentityVerifierSettings.request_timeout
    UnknownCooldown, \* UNKNOWN_KEY_REFRESH_COOLDOWN
    FailedCooldown,  \* FAILED_KEY_REFRESH_COOLDOWN
    Long             \* bound of the history counters

ASSUME BoundsAssumption ==
    /\ CacheTtl \in Nat \ {0} /\ RequestTimeout \in Nat \ {0}
    /\ UnknownCooldown \in Nat \ {0} /\ FailedCooldown \in Nat
    /\ UnknownCooldown <= FailedCooldown
ASSUME LongAssumption ==
    /\ Long \in Nat
    /\ Long >= CacheTtl + RequestTimeout
    /\ Long >= FailedCooldown + RequestTimeout
ASSUME NoneAssumption == NoKey \notin Keys /\ NoRequest \notin Requests

VARIABLES
    known,      \* KeyCache.set
    fresh,      \* KeyCache.expires_at: ticks left
    deferred,   \* KeyCache.unknown_key_refresh_after: ticks left
    pause,      \* the content of the refresh mutex: ticks left
    holder,     \* the request that holds the refresh mutex
    fetch,      \* the fetch in progress
    req,        \* where each request is
    published,  \* what the provider publishes now
    since,      \* history: ticks since each key's publication last changed
    ago         \* history: ticks since fetches started and last went wrong

vars == <<known, fresh, deferred, pause, holder, fetch, req, published, since, ago>>
cache == <<known, fresh, deferred>>

NewFetch(forMiss) ==
    [forMiss |-> forMiss, age |-> 0, answered |-> FALSE, keys |-> {}]
NoFetch == NewFetch(FALSE)
Verdicts == {"none", "accepted", "unavailable", "cooldown", "failed"}
At(place, k, verdict) == [at |-> place, key |-> k, verdict |-> verdict]
Idle == At("idle", NoKey, "none")

Hit(k) == fresh > 0 /\ k \in known
Miss(k) == fresh > 0 /\ k \notin known

------------------------------------------------------------------------------
Init ==
    /\ known = {} /\ fresh = 0 /\ deferred = 0 /\ pause = 0
    /\ holder = NoRequest /\ fetch = NoFetch
    /\ req = [r \in Requests |-> Idle]
    /\ published \in SUBSET Keys
    /\ since = [k \in Keys |-> Long]
    /\ ago = [last |-> Long, before |-> Long, trouble |-> Long]

Answer(r, verdict) == req' = [req EXCEPT ![r] = At("done", req[r].key, verdict)]

(* A request with key id k: a hit is answered from the cache without the   *)
(* mutex, anything else queues for it.                                     *)
Arrive(r, k) ==
    /\ req[r].at = "idle"
    /\ req' = [req EXCEPT ![r] = IF Hit(k) THEN At("done", k, "accepted")
                                           ELSE At("queued", k, "none")]
    /\ UNCHANGED <<known, fresh, deferred, pause, holder, fetch, published, since, ago>>

(* The mutex is free and the cache has meanwhile been filled. *)
HitUnderLock(r) ==
    /\ req[r].at = "queued" /\ holder = NoRequest
    /\ Hit(req[r].key)
    /\ Answer(r, "accepted")
    /\ UNCHANGED <<known, fresh, deferred, pause, holder, fetch, published, since, ago>>

(* A fetch has failed or was abandoned not long ago. *)
RefuseCooldown(r) ==
    /\ req[r].at = "queued" /\ holder = NoRequest
    /\ ~Hit(req[r].key)
    /\ pause > 0
    /\ Answer(r, "cooldown")
    /\ UNCHANGED <<known, fresh, deferred, pause, holder, fetch, published, since, ago>>

(* A valid cache does not have the key, and unknown keys are deferred. *)
RefuseUnknown(r) ==
    /\ req[r].at = "queued" /\ holder = NoRequest
    /\ Miss(req[r].key)
    /\ pause = 0 /\ deferred > 0
    /\ Answer(r, "unavailable")
    /\ UNCHANGED <<known, fresh, deferred, pause, holder, fetch, published, since, ago>>

(* Mutant of StartFetch: the pause is set only once the fetch has failed. *)
StartUnreserved(r) ==
    /\ req[r].at = "queued" /\ holder = NoRequest
    /\ ~Hit(req[r].key)
    /\ pause = 0
    /\ Miss(req[r].key) => deferred = 0
    /\ holder' = r
    /\ fetch' = NewFetch(Miss(req[r].key))
    /\ deferred' = IF Miss(req[r].key) THEN UnknownCooldown ELSE deferred
    /\ req' = [req EXCEPT ![r].at = "fetching"]
    /\ ago' = [last |-> 0, before |-> ago.last, trouble |-> ago.trouble]
    /\ UNCHANGED <<known, fresh, pause, published, since>>

(* The cache is stale, or an unknown key may be looked for: the pause is   *)
(* reserved before the request is sent.                                    *)
StartFetch(r) ==
    /\ req[r].at = "queued" /\ holder = NoRequest
    /\ ~Hit(req[r].key)
    /\ pause = 0
    /\ Miss(req[r].key) => deferred = 0
    /\ holder' = r
    /\ fetch' = NewFetch(Miss(req[r].key))
    /\ deferred' = IF Miss(req[r].key) THEN UnknownCooldown ELSE deferred
    /\ pause' = RequestTimeout + FailedCooldown
    /\ req' = [req EXCEPT ![r].at = "fetching"]
    /\ ago' = [last |-> 0, before |-> ago.last, trouble |-> ago.trouble]
    /\ UNCHANGED <<known, fresh, published, since>>

(* The provider answers with the keys it publishes at that moment. *)
ProviderAnswers ==
    /\ holder # NoRequest
    /\ ~fetch.answered
    /\ fetch' = [fetch EXCEPT !.answered = TRUE, !.keys = published]
    /\ UNCHANGED <<known, fresh, deferred, pause, holder, req, published, since, ago>>

(* Mutant of Received: an unknown key is not deferred after a success. *)
ReceivedUndeferred(r) ==
    /\ holder = r /\ req[r].at = "fetching"
    /\ fetch.answered
    /\ known' = fetch.keys
    /\ fresh' = CacheTtl
    /\ deferred' = 0
    /\ pause' = 0
    /\ Answer(r, IF req[r].key \in fetch.keys THEN "accepted" ELSE "unavailable")
    /\ holder' = NoRequest /\ fetch' = NoFetch
    /\ UNCHANGED <<published, since, ago>>

(* Mutant of Received: an unknown key is deferred while the cache lasts. *)
ReceivedLasting(r) ==
    /\ holder = r /\ req[r].at = "fetching"
    /\ fetch.answered
    /\ known' = fetch.keys
    /\ fresh' = CacheTtl
    /\ deferred' = IF fetch.forMiss \/ req[r].key \notin fetch.keys
                     THEN CacheTtl ELSE 0
    /\ pause' = 0
    /\ Answer(r, IF req[r].key \in fetch.keys THEN "accepted" ELSE "unavailable")
    /\ holder' = NoRequest /\ fetch' = NoFetch
    /\ UNCHANGED <<published, since, ago>>

(* Mutant of Received: new keys are added to the old set. *)
ReceivedMerged(r) ==
    /\ holder = r /\ req[r].at = "fetching"
    /\ fetch.answered
    /\ known' = known \cup fetch.keys
    /\ fresh' = CacheTtl
    /\ deferred' = IF fetch.forMiss \/ req[r].key \notin fetch.keys
                     THEN UnknownCooldown ELSE 0
    /\ pause' = 0
    /\ Answer(r, IF req[r].key \in fetch.keys THEN "accepted" ELSE "unavailable")
    /\ holder' = NoRequest /\ fetch' = NoFetch
    /\ UNCHANGED <<published, since, ago>>

(* The response is read in time: the whole cache is replaced, and unknown  *)
(* keys are deferred if this fetch was for one or has not found its own.   *)
Received(r) ==
    /\ holder = r /\ req[r].at = "fetching"
    /\ fetch.answered
    /\ known' = fetch.keys
    /\ fresh' = CacheTtl
    /\ deferred' = IF fetch.forMiss \/ req[r].key \notin fetch.keys
                     THEN UnknownCooldown ELSE 0
    /\ pause' = 0
    /\ Answer(r, IF req[r].key \in fetch.keys THEN "accepted" ELSE "unavailable")
    /\ holder' = NoRequest /\ fetch' = NoFetch
    /\ UNCHANGED <<published, since, ago>>

(* No response, a bad status, a body too long or not a key set. *)
FetchFails(r) ==
    /\ holder = r /\ req[r].at = "fetching"
    /\ pause' = FailedCooldown
    /\ Answer(r, "failed")
    /\ holder' = NoRequest /\ fetch' = NoFetch
    /\ ago' = [ago EXCEPT !.trouble = 0]
    /\ UNCHANGED <<known, fresh, deferred, published, since>>

(* Mutant of Cancel: the mutex stays locked. *)
CancelHoldingLock(r) ==
    /\ req[r].at \in {"queued", "fetching"}
    /\ req' = [req EXCEPT ![r] = Idle]
    /\ ago' = IF holder = r THEN [ago EXCEPT !.trouble = 0] ELSE ago
    /\ UNCHANGED <<known, fresh, deferred, pause, holder, fetch, published, since>>

(* The client disconnects or the request times out: its future is dropped, *)
(* and with it the guard of the mutex.                                     *)
Cancel(r) ==
    /\ req[r].at \in {"queued", "fetching"}
    /\ req' = [req EXCEPT ![r] = Idle]
    /\ IF holder = r
         THEN holder' = NoRequest /\ fetch' = NoFetch
                /\ ago' = [ago EXCEPT !.trouble = 0]
         ELSE UNCHANGED <<holder, fetch, ago>>
    /\ UNCHANGED <<known, fresh, deferred, pause, published, since>>

Leave(r) ==
    /\ req[r].at = "done"
    /\ req' = [req EXCEPT ![r] = Idle]
    /\ UNCHANGED <<known, fresh, deferred, pause, holder, fetch, published, since, ago>>

(* The provider starts or stops publishing a key. *)
Rotate(k) ==
    /\ published' = IF k \in published THEN published \ {k} ELSE published \cup {k}
    /\ since' = [since EXCEPT ![k] = 0]
    /\ UNCHANGED <<known, fresh, deferred, pause, holder, fetch, req, ago>>

Less(n) == IF n > 0 THEN n - 1 ELSE 0
More(n) == IF n < Long THEN n + 1 ELSE n

(* Mutant of Tick: the provider may take its time. *)
TickWithoutTimeout ==
    /\ fetch' = IF holder # NoRequest THEN [fetch EXCEPT !.age = @ + 1] ELSE fetch
    /\ fresh' = Less(fresh) /\ deferred' = Less(deferred) /\ pause' = Less(pause)
    /\ since' = [k \in Keys |-> More(since[k])]
    /\ ago' = [last |-> More(ago.last), before |-> More(ago.before),
               trouble |-> More(ago.trouble)]
    /\ UNCHANGED <<known, holder, req, published>>

(* Time passes, but not beyond the timeout of a fetch. *)
Tick ==
    /\ holder # NoRequest => fetch.age < RequestTimeout
    /\ fetch' = IF holder # NoRequest THEN [fetch EXCEPT !.age = @ + 1] ELSE fetch
    /\ fresh' = Less(fresh) /\ deferred' = Less(deferred) /\ pause' = Less(pause)
    /\ since' = [k \in Keys |-> More(since[k])]
    /\ ago' = [last |-> More(ago.last), before |-> More(ago.before),
               trouble |-> More(ago.trouble)]
    /\ UNCHANGED <<known, holder, req, published>>

RequestStep(r) ==
    \/ HitUnderLock(r) \/ RefuseCooldown(r) \/ RefuseUnknown(r) \/ StartFetch(r)
    \/ Received(r) \/ FetchFails(r)

Next ==
    \/ Tick
    \/ ProviderAnswers
    \/ \E k \in Keys : Rotate(k)
    \/ \E r \in Requests : \/ RequestStep(r) \/ Cancel(r) \/ Leave(r)
                           \/ \E k \in Keys : Arrive(r, k)

Spec == Init /\ [][Next]_vars

(* The mutex of tokio is fair and a fetch ends, in time or by its timeout. *)
Fairness == \A r \in Requests : SF_vars(RequestStep(r))
FairSpec == Spec /\ Fairness

------------------------------------------------------------------------------
TypeOK ==
    /\ known \subseteq Keys
    /\ fresh \in 0..CacheTtl
    /\ deferred \in 0..UnknownCooldown
    /\ pause \in 0..(RequestTimeout + FailedCooldown)
    /\ holder \in Requests \cup {NoRequest}
    /\ fetch \in [forMiss : BOOLEAN, age : 0..RequestTimeout,
                  answered : BOOLEAN, keys : SUBSET Keys]
    /\ req \in [Requests -> [at : {"idle", "queued", "fetching", "done"},
                             key : Keys \cup {NoKey}, verdict : Verdicts]]
    /\ published \subseteq Keys
    /\ since \in [Keys -> 0..Long]
    /\ ago \in [last : 0..Long, before : 0..Long, trouble : 0..Long]

Decided(r, verdict) ==
    req[r].at # "done" /\ req'[r].at = "done" /\ req'[r].verdict = verdict

(* However many unknown key ids arrive, of any three fetches the first and *)
(* the last start at least a cooldown apart, or a cache lifetime if that   *)
(* is shorter: a stranger cannot make the server hammer the provider.      *)
FetchesAreSpaced ==
    [][\A r \in Requests :
          req[r].at = "queued" /\ req'[r].at = "fetching" =>
              ago.before >= UnknownCooldown \/ ago.before >= CacheTtl]_vars

(* After a fetch that failed, and after one whose caller was cancelled, no *)
(* other fetch starts for the failure cooldown.                            *)
FailedFetchIsNotRestarted ==
    [][\A r \in Requests :
          req[r].at = "queued" /\ req'[r].at = "fetching" =>
              ago.trouble >= FailedCooldown]_vars

(* The provider is asked no more often than the cooldowns allow, whatever  *)
(* strangers send and whoever goes away.                                   *)
ProviderIsSpared == FetchesAreSpaced /\ FailedFetchIsNotRestarted

(* A key that the provider has withdrawn is accepted for less than the     *)
(* lifetime of the cache and the timeout of a fetch together.              *)
WithdrawnKeysExpire ==
    [][\A r \in Requests, k \in Keys :
          Decided(r, "accepted") /\ req'[r].key = k /\ k \notin published
            => since[k] < CacheTtl + RequestTimeout]_vars

(* A key that the provider publishes is called unknown only while it is    *)
(* newer than the deferral and the timeout of a fetch together: neither    *)
(* strangers nor cancelled fetches can keep a new key out for longer.      *)
NewKeysBecomeKnown ==
    [][\A r \in Requests, k \in Keys :
          Decided(r, "unavailable") /\ req'[r].key = k /\ k \in published
            => since[k] < UnknownCooldown + RequestTimeout]_vars

(* The keys in use follow those that the provider publishes in bounded     *)
(* time, in both directions.                                               *)
KeysFollowProvider == WithdrawnKeysExpire /\ NewKeysBecomeKnown

(* Every request that queues for the mutex is answered or cancelled. *)
EveryRequestIsAnswered ==
    \A r \in Requests :
        req[r].at \in {"queued", "fetching"} ~> req[r].at \in {"idle", "done"}
==============================================================================

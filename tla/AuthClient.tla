----------------------------- MODULE AuthClient ------------------------------
(***************************************************************************)
(* The authenticated request path of infisical-api/src/client.rs: callers  *)
(* that share one cached Universal Auth token, the single detached login   *)
(* task that replaces it, the cooldown after a failed login, the bounded   *)
(* request slots, and the three replay policies (a read may be repeated    *)
(* once, an observable read and a mutation never are).                     *)
(*                                                                         *)
(* A flight is one login task.  Its identity is also the identity of the   *)
(* watch channel its waiters hold (same_channel) and of the token it       *)
(* brings back (Arc::ptr_eq); like an allocation, it is reused only when   *)
(* nothing refers to it.  Time is a Tick that runs the timers down.        *)
(***************************************************************************)
EXTENDS Integers, FiniteSets

CONSTANTS
    Callers,            \* requests being served concurrently
    Flights,            \* identities of login tasks, channels and tokens
    None,               \* absent identity, lock holder or failure
    Slots,              \* max_concurrent_requests
    MaxLife,            \* longest time, in ticks, that a new token is fresh
    FailureCooldown,    \* AUTH_FAILURE_COOLDOWN, in ticks
    RejectionCooldown,  \* AUTH_REJECTION_COOLDOWN, in ticks
    MaxRetryAfter,      \* MAX_RETRY_AFTER, in ticks
    RetryAfters,        \* the Retry-After values Infisical answers with
    Ops                 \* the replay policies in use

ASSUME TimingAssumption ==
    /\ MaxLife \in Nat
    /\ FailureCooldown \in Nat \ {0}
    /\ RejectionCooldown \in Nat
    /\ MaxRetryAfter \in Nat
    /\ FailureCooldown <= RejectionCooldown
    /\ RejectionCooldown <= MaxRetryAfter
    /\ RetryAfters \subseteq 0..MaxRetryAfter
    /\ 0 \in RetryAfters
ASSUME SlotsAssumption == Slots \in Nat \ {0}
ASSUME OpsAssumption == Ops # {} /\ Ops \subseteq {"read", "observe", "mutate"}

(* Where a caller is in access_token and send_json.  In "decide" it holds  *)
(* the coordinator lock.                                                   *)
CallerStates == {"idle", "fast", "lock", "decide", "wait", "slot", "air",
                 "reject"}

(* A login task from its spawn to the publication of its outcome; "dead"   *)
(* means no task: none was spawned, or it was dropped before it sent one.  *)
FlightStates == {"queued", "air", "got", "failed", "cached",
                 "settled", "sent", "dead"}

(* The task still has to call finish_refresh. *)
Unsettled == {"queued", "air", "got", "failed", "cached"}

(* Why a login failed: Infisical refused the credentials (401 or 403), or  *)
(* anything else; together with the Retry-After it answered.               *)
Failures == [kind : {"refused", "other"}, retryAfter : RetryAfters]
Cooldown == [kind |-> "cooldown"]
NoAnswer == [kind |-> "other", retryAfter |-> 0]

ASSUME NoneAssumption ==
    None \notin Callers \cup Flights \cup Failures \cup (0..MaxRetryAfter)

VARIABLES
    cache,      \* ClientInner.token
    inFlight,   \* RefreshCoordinator.in_flight
    cooldown,   \* RefreshCoordinator.failure: None, or the ticks to retry_at
    holder,     \* the caller that holds the refresh mutex, or None
    flight,     \* state of each login task
    outcome,    \* what each login task reports: None (a token) or an error
    life,       \* ticks until the cached token's refresh_after
    pc,         \* state of each caller
    op,         \* replay policy of each caller's request
    ref,        \* the flight a caller waits for, or the token it uses
    sent        \* requests each caller has sent for its present operation

coordinator == <<inFlight, cooldown, holder>>
tasks == <<flight, outcome>>
callers == <<pc, op, ref, sent>>
vars == <<cache, inFlight, cooldown, holder, flight, outcome, life, pc, op,
          ref, sent>>

------------------------------------------------------------------------------
(* Timers, freshness and permits. *)

AtMost(a, b) == IF a <= b THEN a ELSE b
AtLeast(a, b) == IF a >= b THEN a ELSE b
RunDown(t) == IF t > 0 THEN t - 1 ELSE 0

(* Mutant of CooldownFor: the Retry-After of the failure is ignored. *)
CooldownWithoutRetryAfter(f) ==
    IF f.kind = "refused" THEN RejectionCooldown ELSE FailureCooldown

(* The cooldown that finish_refresh computes for a failure. *)
CooldownFor(f) ==
    LET minimum == IF f.kind = "refused" THEN RejectionCooldown
                                         ELSE FailureCooldown
    IN  AtMost(AtLeast(minimum, f.retryAfter), MaxRetryAfter)

(* CachedToken::is_fresh of the cached token. *)
FreshToken == cache # None /\ life > 0

Cooling == cooldown # None /\ cooldown > 0

(* A permit of request_slots is held from admission to the end of the body. *)
InUse == Cardinality({c \in Callers : pc[c] = "air"})
            + Cardinality({f \in Flights : flight[f] = "air"})
SlotFree == InUse < Slots

(* No receiver, token handle or task with this identity is left. *)
Unreferenced(f) ==
    /\ flight[f] \in {"sent", "dead"}
    /\ f # inFlight /\ f # cache
    /\ \A c \in Callers : ref[c] # f

------------------------------------------------------------------------------
Init ==
    /\ cache = None
    /\ inFlight = None
    /\ cooldown = None
    /\ holder = None
    /\ flight = [f \in Flights |-> "dead"]
    /\ outcome = [f \in Flights |-> None]
    /\ life = 0
    /\ pc = [c \in Callers |-> "idle"]
    /\ op = [c \in Callers |-> None]
    /\ ref = [c \in Callers |-> None]
    /\ sent = [c \in Callers |-> 0]

(* The caller's future has returned or was dropped: its handles are gone,  *)
(* and so is the lock guard it may have held.                              *)
Leave(c) ==
    /\ pc' = [pc EXCEPT ![c] = "idle"]
    /\ op' = [op EXCEPT ![c] = None]
    /\ ref' = [ref EXCEPT ![c] = None]
    /\ sent' = [sent EXCEPT ![c] = 0]
    /\ holder' = IF holder = c THEN None ELSE holder

(* The caller holds token t and goes on to send_json. *)
UseToken(c, t) ==
    /\ pc' = [pc EXCEPT ![c] = "slot"]
    /\ ref' = [ref EXCEPT ![c] = t]
    /\ UNCHANGED <<op, sent>>

Goto(c, place) ==
    /\ pc' = [pc EXCEPT ![c] = place]
    /\ UNCHANGED <<op, ref, sent>>

------------------------------------------------------------------------------
(* access_token *)

Begin(c, o) ==
    /\ pc[c] = "idle"
    /\ pc' = [pc EXCEPT ![c] = "fast"]
    /\ op' = [op EXCEPT ![c] = o]
    /\ UNCHANGED <<cache, coordinator, tasks, life, ref, sent>>

(* The unlocked look at the cache. *)
FastPath(c) ==
    /\ pc[c] = "fast"
    /\ \/ FreshToken /\ UseToken(c, cache)
       \/ ~FreshToken /\ Goto(c, "lock")
    /\ UNCHANGED <<cache, coordinator, tasks, life>>

(* The second look, under the refresh mutex. *)
LockAndRecheck(c) ==
    /\ pc[c] = "lock"
    /\ holder = None
    /\ \/ FreshToken /\ UseToken(c, cache) /\ UNCHANGED holder
       \/ ~FreshToken /\ Goto(c, "decide") /\ holder' = c
    /\ UNCHANGED <<cache, inFlight, cooldown, tasks, life>>

Refuse(c) ==
    /\ pc[c] = "decide"
    /\ Cooling
    /\ Leave(c)
    /\ UNCHANGED <<cache, inFlight, cooldown, tasks, life>>

(* Wait for flight f and let go of the mutex. *)
Await(c, f) ==
    /\ pc' = [pc EXCEPT ![c] = "wait"]
    /\ ref' = [ref EXCEPT ![c] = f]
    /\ cooldown' = None
    /\ holder' = None
    /\ UNCHANGED <<op, sent>>

Join(c) ==
    /\ pc[c] = "decide"
    /\ ~Cooling
    /\ inFlight # None
    /\ Await(c, inFlight)
    /\ UNCHANGED <<cache, inFlight, tasks, life>>

(* Mutant of Launch: a failure record does not hold a new login back. *)
LaunchWhileCooling(c, f) ==
    /\ pc[c] = "decide"
    /\ inFlight = None
    /\ Unreferenced(f)
    /\ Await(c, f)
    /\ inFlight' = f
    /\ flight' = [flight EXCEPT ![f] = "queued"]
    /\ outcome' = [outcome EXCEPT ![f] = None]
    /\ UNCHANGED <<cache, life>>

Launch(c, f) ==
    /\ pc[c] = "decide"
    /\ ~Cooling
    /\ inFlight = None
    /\ Unreferenced(f)
    /\ Await(c, f)
    /\ inFlight' = f
    /\ flight' = [flight EXCEPT ![f] = "queued"]
    /\ outcome' = [outcome EXCEPT ![f] = None]
    /\ UNCHANGED <<cache, life>>

(* The flight published its outcome: a token, or the failure. *)
Receive(c) ==
    /\ pc[c] = "wait"
    /\ flight[ref[c]] = "sent"
    /\ \/ /\ outcome[ref[c]] = None
          /\ UseToken(c, ref[c])
          /\ UNCHANGED holder
       \/ /\ outcome[ref[c]] # None
          /\ Leave(c)
    /\ UNCHANGED <<cache, inFlight, cooldown, tasks, life>>

(* Mutant of FinishRefresh: no same_channel test. *)
FinishAnyFlight(f, failure) ==
    /\ cooldown' = IF failure = None THEN None ELSE CooldownFor(failure)
    /\ inFlight' = None

(* finish_refresh, under the mutex: only the flight that is still current  *)
(* may record its failure and make room for the next one.                  *)
FinishRefresh(f, failure) ==
    IF inFlight = f
      THEN /\ cooldown' = IF failure = None THEN None ELSE CooldownFor(failure)
           /\ inFlight' = None
      ELSE UNCHANGED <<inFlight, cooldown>>

(* Mutant of Interrupted: only the waiter that closes the flight returns. *)
InterruptedOnlyFirst(c) ==
    /\ pc[c] = "wait"
    /\ flight[ref[c]] = "dead"
    /\ holder = None
    /\ inFlight = ref[c]
    /\ FinishRefresh(ref[c], NoAnswer)
    /\ Leave(c)
    /\ UNCHANGED <<cache, tasks, life>>

(* The channel closed without an outcome: RefreshInterrupted. *)
Interrupted(c) ==
    /\ pc[c] = "wait"
    /\ flight[ref[c]] = "dead"
    /\ holder = None
    /\ FinishRefresh(ref[c], NoAnswer)
    /\ Leave(c)
    /\ UNCHANGED <<cache, tasks, life>>

------------------------------------------------------------------------------
(* The detached login task. *)

LoginAdmitted(f) ==
    /\ flight[f] = "queued"
    /\ SlotFree
    /\ flight' = [flight EXCEPT ![f] = "air"]
    /\ UNCHANGED <<cache, coordinator, outcome, life, callers>>

(* The login ends without a token. *)
LoginFails(f, failure) ==
    /\ flight' = [flight EXCEPT ![f] = "failed"]
    /\ outcome' = [outcome EXCEPT ![f] = failure]
    /\ UNCHANGED <<cache, coordinator, life, callers>>

(* No slot became free before the deadline: WorkBudgetExhausted. *)
LoginStarved(f) == flight[f] = "queued" /\ LoginFails(f, NoAnswer)

(* An error status, a transport failure or an unusable answer. *)
LoginRefused(f) ==
    /\ flight[f] = "air"
    /\ \E failure \in Failures : LoginFails(f, failure)

(* A usable answer. *)
LoginGranted(f) ==
    /\ flight[f] = "air"
    /\ flight' = [flight EXCEPT ![f] = "got"]
    /\ UNCHANGED <<cache, coordinator, outcome, life, callers>>

(* A token may be past its refresh_after when it is cached, because its    *)
(* life is counted from the start of the login.                            *)
CacheToken(f) ==
    /\ flight[f] = "got"
    /\ cache' = f
    /\ life' \in 0..MaxLife
    /\ flight' = [flight EXCEPT ![f] = "cached"]
    /\ UNCHANGED <<coordinator, outcome, callers>>

(* A failure is reported to the waiters as the cooldown it started. *)
Settle(f) ==
    /\ flight[f] \in {"cached", "failed"}
    /\ holder = None
    /\ FinishRefresh(f, outcome[f])
    /\ flight' = [flight EXCEPT ![f] = "settled"]
    /\ outcome' = [outcome EXCEPT ![f] = IF @ = None THEN None ELSE Cooldown]
    /\ UNCHANGED <<cache, holder, life, callers>>

(* Mutant of Publish: a failure is sent before finish_refresh has run. *)
PublishUnsettled(f) ==
    /\ flight[f] \in {"settled", "failed"}
    /\ flight' = [flight EXCEPT ![f] = "sent"]
    /\ UNCHANGED <<cache, coordinator, outcome, life, callers>>

Publish(f) ==
    /\ flight[f] = "settled"
    /\ flight' = [flight EXCEPT ![f] = "sent"]
    /\ UNCHANGED <<cache, coordinator, outcome, life, callers>>

(* The task is dropped while it waits for a slot or for Infisical. *)
TaskDies(f) ==
    /\ flight[f] \in {"queued", "air"}
    /\ flight' = [flight EXCEPT ![f] = "dead"]
    /\ UNCHANGED <<cache, coordinator, outcome, life, callers>>

------------------------------------------------------------------------------
(* send_json and what the caller makes of the response. *)

Send(c) ==
    /\ pc[c] = "slot"
    /\ SlotFree
    /\ pc' = [pc EXCEPT ![c] = "air"]
    /\ sent' = [sent EXCEPT ![c] = @ + 1]
    /\ UNCHANGED <<cache, coordinator, tasks, life, op, ref>>

Starved(c) ==
    /\ pc[c] = "slot"
    /\ Leave(c)
    /\ UNCHANGED <<cache, inFlight, cooldown, tasks, life>>

(* Any response other than an authentication rejection ends the operation. *)
Answered(c) ==
    /\ pc[c] = "air"
    /\ Leave(c)
    /\ UNCHANGED <<cache, inFlight, cooldown, tasks, life>>

Unauthorized(c) ==
    /\ pc[c] = "air"
    /\ Goto(c, "reject")
    /\ UNCHANGED <<cache, coordinator, tasks, life>>

(* Mutants of MayRepeat: repeat every operation, or without a limit. *)
RepeatAnyOperation(c) == sent[c] = 1
RepeatWithoutLimit(c) == op[c] = "read" /\ sent[c] <= 2

(* execute_read calls execute_get_once a second time after a first 401. *)
MayRepeat(c) == op[c] = "read" /\ sent[c] = 1

(* Mutant of Withdraw: only the repeating path drops the refused token. *)
WithdrawOnlyToRepeat(c) ==
    /\ pc[c] = "reject"
    /\ \/ /\ MayRepeat(c)
          /\ IF cache = ref[c] THEN cache' = None /\ life' = 0
                               ELSE UNCHANGED <<cache, life>>
          /\ pc' = [pc EXCEPT ![c] = "fast"]
          /\ ref' = [ref EXCEPT ![c] = None]
          /\ UNCHANGED <<op, sent, holder>>
       \/ ~MayRepeat(c) /\ Leave(c) /\ UNCHANGED <<cache, life>>
    /\ UNCHANGED <<inFlight, cooldown, tasks>>

(* invalidate_if_current, then the answer to the caller or the repetition. *)
Withdraw(c) ==
    /\ pc[c] = "reject"
    /\ IF cache = ref[c] THEN cache' = None /\ life' = 0
                         ELSE UNCHANGED <<cache, life>>
    /\ \/ /\ MayRepeat(c)
          /\ pc' = [pc EXCEPT ![c] = "fast"]
          /\ ref' = [ref EXCEPT ![c] = None]
          /\ UNCHANGED <<op, sent, holder>>
       \/ ~MayRepeat(c) /\ Leave(c)
    /\ UNCHANGED <<inFlight, cooldown, tasks>>

(* The caller's future is dropped at an await point. *)
Cancel(c) ==
    /\ pc[c] # "idle"
    /\ Leave(c)
    /\ UNCHANGED <<cache, inFlight, cooldown, tasks, life>>

Tick ==
    /\ cooldown' = IF cooldown = None THEN None ELSE RunDown(cooldown)
    /\ life' = RunDown(life)
    /\ UNCHANGED <<cache, inFlight, holder, tasks, callers>>

------------------------------------------------------------------------------
(* What a caller does on its own, once it is polled. *)
CallerStep(c) ==
    \/ FastPath(c) \/ Refuse(c) \/ Join(c)
    \/ \E f \in Flights : Launch(c, f)
    \/ LockAndRecheck(c) \/ Receive(c) \/ Interrupted(c)
    \/ Send(c) \/ Starved(c) \/ Answered(c) \/ Unauthorized(c) \/ Withdraw(c)

(* What a login task does on its own. *)
TaskStep(f) ==
    \/ LoginAdmitted(f) \/ LoginStarved(f) \/ LoginRefused(f)
    \/ LoginGranted(f) \/ CacheToken(f) \/ Settle(f) \/ Publish(f)

Next ==
    \/ \E c \in Callers, o \in Ops : Begin(c, o)
    \/ \E c \in Callers : CallerStep(c) \/ Cancel(c)
    \/ \E f \in Flights : TaskStep(f) \/ TaskDies(f)
    \/ Tick

Spec == Init /\ [][Next]_vars

(* Tokio polls a woken future again and a request ends by its deadline;    *)
(* fairness is strong because the refresh mutex may be taken and released  *)
(* by others again and again, but is handed over in FIFO order.            *)
Fairness ==
    /\ \A c \in Callers : SF_vars(CallerStep(c))
    /\ \A f \in Flights : SF_vars(TaskStep(f))

FairSpec == Spec /\ Fairness

------------------------------------------------------------------------------
TypeOK ==
    /\ cache \in Flights \cup {None}
    /\ inFlight \in Flights \cup {None}
    /\ cooldown = None \/ cooldown \in 0..MaxRetryAfter
    /\ holder \in Callers \cup {None}
    /\ flight \in [Flights -> FlightStates]
    /\ outcome \in [Flights -> Failures \cup {Cooldown, None}]
    /\ life \in 0..MaxLife
    /\ pc \in [Callers -> CallerStates]
    /\ op \in [Callers -> Ops \cup {None}]
    /\ ref \in [Callers -> Flights \cup {None}]
    /\ sent \in [Callers -> 0..2]

(* However callers come, wait, are cancelled or find the channel closed,   *)
(* Infisical never has two logins of this client to serve at once (the     *)
(* same_channel test of finish_refresh, and one in_flight slot).           *)
AtMostOneLogin ==
    \A f, g \in Flights :
        flight[f] \in {"queued", "air"} /\ flight[g] \in {"queued", "air"}
            => f = g

(* A caller that is handed a failed login cannot meet the same login again *)
(* when it retries at once: by the time the failure is published, the      *)
(* coordinator has closed that flight (docs/architecture.md: completion    *)
(* publishes the failed-refresh state before releasing callers).           *)
FailureClosedBeforePublished ==
    \A f \in Flights : flight[f] = "sent" /\ outcome[f] # None => inFlight # f

(* What in_flight names is the only login there is, and one that has not   *)
(* failed in public.                                                       *)
CoordinatorIsCurrent == AtMostOneLogin /\ FailureClosedBeforePublished

(* A mutation and an observable read reach Infisical at most once, a read  *)
(* at most twice, over all the waits and refreshes of one operation.       *)
ReplayBound ==
    \A c \in Callers : sent[c] <= (IF op[c] = "read" THEN 2 ELSE 1)

(* Every operation ends: no cancellation, interrupted task, exhausted slot *)
(* pool or lost race leaves a caller waiting for good.                     *)
EveryCallerIsAnswered ==
    \A c \in Callers : pc[c] # "idle" ~> pc[c] = "idle"

------------------------------------------------------------------------------
(* The client implements the gate that Infisical is promised. *)
Gate == IF inFlight # None THEN "running"
        ELSE IF Cooling THEN "cooling" ELSE "open"
LG == INSTANCE LoginGate WITH gate <- Gate
GateSpec == LG!GateSpec
==============================================================================

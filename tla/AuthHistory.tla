----------------------------- MODULE AuthHistory -----------------------------
(***************************************************************************)
(* AuthClient with history variables: which tokens were withdrawn, which   *)
(* token a read was refused with, and how long Infisical is owed a pause.  *)
(* They observe the steps of AuthClient and restrict none of them.         *)
(***************************************************************************)
EXTENDS AuthClient

VARIABLES
    refused,    \* the token that the caller's first attempt was refused with
    rejected,   \* tokens that some caller has withdrawn after a 401
    penalty     \* ticks Infisical is still owed since the last failed login

hvars == <<vars, refused, rejected, penalty>>

(* The pause Infisical is owed after a failed login: the longer of what it *)
(* asked for and 30 s after refused credentials, 5 s otherwise.            *)
Owed(failure) ==
    AtLeast(IF failure.kind = "refused" THEN RejectionCooldown
                                        ELSE FailureCooldown,
            failure.retryAfter)

HInit ==
    /\ Init
    /\ refused = [c \in Callers |-> None]
    /\ rejected = {}
    /\ penalty = 0

ObserveWithdraw(c) ==
    /\ Withdraw(c)
    /\ rejected' = rejected \cup {ref[c]}
    /\ refused' = [refused EXCEPT ![c] = IF MayRepeat(c) THEN ref[c] ELSE None]
    /\ UNCHANGED penalty

(* The identity f now stands for another token. *)
ObserveLaunch(c, f) ==
    /\ Launch(c, f)
    /\ rejected' = rejected \ {f}
    /\ refused' = [d \in Callers |-> IF refused[d] = f THEN None ELSE refused[d]]
    /\ UNCHANGED penalty

ObserveFailure(f) ==
    /\ \/ (LoginStarved(f) \/ LoginRefused(f)) /\ penalty' = Owed(outcome'[f])
       \/ TaskDies(f) /\ penalty' = Owed(NoAnswer)
    /\ UNCHANGED <<refused, rejected>>

ObserveTick ==
    /\ Tick
    /\ penalty' = RunDown(penalty)
    /\ UNCHANGED <<refused, rejected>>

OtherStep ==
    \/ \E c \in Callers : \/ \E o \in Ops : Begin(c, o)
                          \/ FastPath(c) \/ LockAndRecheck(c) \/ Refuse(c)
                          \/ Join(c) \/ Receive(c) \/ Interrupted(c) \/ Send(c)
                          \/ Starved(c) \/ Answered(c) \/ Unauthorized(c)
                          \/ Cancel(c)
    \/ \E f \in Flights : \/ LoginAdmitted(f) \/ LoginGranted(f)
                          \/ CacheToken(f) \/ Settle(f) \/ Publish(f)

ObserveOther ==
    /\ OtherStep
    /\ refused' = [c \in Callers |-> IF pc'[c] = "idle" THEN None
                                                       ELSE refused[c]]
    /\ UNCHANGED <<rejected, penalty>>

HNext ==
    \/ \E c \in Callers : ObserveWithdraw(c) \/ \E f \in Flights : ObserveLaunch(c, f)
    \/ \E f \in Flights : ObserveFailure(f)
    \/ ObserveTick \/ ObserveOther

HSpec == HInit /\ [][HNext]_hvars

------------------------------------------------------------------------------
(* Once a caller has withdrawn a token after a 401, the cache never holds  *)
(* that token again, whatever logins and withdrawals are still under way.  *)
WithdrawnTokenStaysOut == cache \notin rejected

(* No login starts before the pause owed for the last failed one is over,  *)
(* even if a waiter of an older, interrupted flight settles it late.       *)
LoginRespectsPause ==
    [][\A f \in Flights :
          flight[f] # "queued" /\ flight'[f] = "queued" => penalty = 0]_hvars

(* The doc comment of execute_read (client.rs:302): a read refreshes its   *)
(* authentication before it repeats the request, so the repetition does    *)
(* not carry the token that was refused.                                   *)
RepetitionCarriesNewToken ==
    \A c \in Callers :
        pc[c] \in {"slot", "air"} /\ refused[c] # None => ref[c] # refused[c]

==============================================================================

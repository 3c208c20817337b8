# A TLA+ verification of mcp-infisical-rs

`mcp-infisical-rs` serves an Infisical instance to MCP clients. A request comes
in over HTTP or stdio, an executor call runs one typed operation, the operation
talks to Infisical over one authenticated client, and secret material leaves
either in the result or through an in-memory file plane. This directory models
the parts of it that keep state and run concurrently, and the operations of its
typed API as sequences of steps that one interpreter runs against a changing
Infisical. TLC checks them on small instances, and TLAPS proves the main results
for every value of the constants.

## 1. Inventory

```
 MCP client --HTTP/stdio--> infisical-server ----> infisical-mcp ----> infisical-api ----> Infisical
                            auth, limits,          catalog, calls,     token cache,
                            timeouts, sweeper      error facts         typed operations
                                 |                      |
                                 +---- file routes -> file plane
```

| Component | State it keeps | Operations | What is hard | What makes it correct |
|---|---|---|---|---|
| Universal Auth client (`infisical-api/src/client.rs`) | cached token, one refresh coordinator with the current login and the last failure, request slots | `access_token`, `send_json` with three replay policies, the detached login task, `finish_refresh` | callers are cancelled while a login they started runs on; waiters settle logins late; a token is used over an await without a lock | one login at a time, a pause after a failure, a withdrawn token never comes back, only idempotent reads are repeated and only once, every caller returns |
| Secret file plane (`infisical-mcp/src/files.rs`, `files/budget.rs`) | three maps under one mutex (staged, tickets, received), a reserved count, a shared byte budget | reserve, stage, authorize and serve a download, authorize, claim, complete and redeem an upload, sweep | promises are kept outside the maps, counters move by saturating steps and in drop handlers, the sweeper is late | exact accounting, both limits hold, one redemption per value, only the newest descriptor works, nothing expired is used, nothing stays for good |
| Identity verification (`infisical-server/src/auth.rs`) | key cache, unknown-key deferral and failure pause behind one tokio mutex | `decoding_key`, fetch | requests are cancelled at the await inside the mutex; key ids come from unverified headers; the provider rotates keys | fetches are spaced, withdrawn keys expire, new keys become known, every request is answered |
| Executor calls (`infisical-mcp/src/tools.rs`, `execution_error.rs`) | per call: slots it holds, upload it spent, value it staged, error facts | dispatch, reserve, resolve delivery and uploads, run, stage, measure, answer | one error type for failures before and after the action; capacity needed after the action; cancellation anywhere | no reply invites a replay of something done, capacity is decided before the action, one-shot values stay reachable |
| Typed operations (`infisical-api/src/*.rs`, their handlers in `infisical-mcp/src/*.rs`) | none in the process; Infisical's resources | 234 operations: conversion of the arguments, confirmation, preflight reads, at most a few requests that act, comparison of the answer, reads back, delivery as a file | the upstream changes between preflight, action and check; answers are lost, late or those of others; the checks are spread over handler, constructors and async function; the tier is written by hand beside the operation | nothing with wrong arguments is sent and nothing is read without confirmation, an act is only sent inside the project the caller named, a result fits the call, an error is honest about the effect, a tier covers what the operation does |
| Collections (`pagination.rs`, list operations) | none; offset and limit travel with the caller | `PageRequest::new`, `next`, `clamped_to`, `Page::new`, local cut | routes cut the page size, totals come or not, others add and remove between pages, offsets have limits | every item that stays is shown once, traversals end, a refusal has its reason |
| HTTP ingress (`infisical-server/src/server.rs`, `main.rs`) | permits of two concurrency limits | routes, timeout layers, sweeper task, shutdown | a dropped future releases what it held | permits come back, a stalled transfer cannot starve the rest |
| stdio (`stdio.rs`) | one bounded line buffer | read, dispatch | oversized lines | a line too long does not end the session or grow the buffer |
| Catalog, profiles, discovery, runtime report | immutable tables | search, list, describe | none at run time | a tier or profile refuses what it does not contain |
| Configuration | none after start | parse and validate the environment | - | - |
| Host client (TypeScript), scripts, coverage data | outside the server | - | - | - |

Interactions: a call awaits the authentication client inside its operation; the
file plane is shared by calls, by the two file routes, and by the sweeper; the
timeout layer drops the future of a call or a transfer, whose drop handlers give
back slots and bytes; identity verification runs before a call exists and shares
nothing with it but the permits of the router.

`PROJECT.json` lists every component with its sources, and under `hazards` the
lines where this code is hard to test.

## 2. Modules

| Module | Models | Composes |
|---|---|---|
| `LoginGate` | abstract: logins one at a time, none during the pause after a failure | - |
| `AuthClient` | `client.rs`: callers, login tasks, coordinator, permits | refines `LoginGate` |
| `AuthHistory` | `AuthClient` with history variables: refused tokens, remaining penalty | extends `AuthClient` |
| `ValueLife` | abstract: the life of a value in the file plane, which only goes forward | - |
| `FilePlane` | `files.rs`, `budget.rs` and the file routes | refines `ValueLife` |
| `ToolCall` | one executor call from arguments to reply | instance of `FilePlane` whose requests are the slots of calls and the transfers; refines it, `ValueLife` and `HonestCall` |
| `JwksCache` | the key cache of `auth.rs` with the provider and the clock | - |
| `SqlLease` | `dynamic_secret_sql.rs`: creation of one SQL lease and the revocation of a lease whose answer is refused | refines `HonestCall` |
| `HonestCall` | abstract: an operation takes effect at most once, success and refusal are true for good | - |
| `CertificateLifecycle` | `pki_certificates.rs`: import, renewal, revocation, renewal configuration, deletion | refines `HonestCall` |
| `Traversal` | `pagination.rs`: reading a collection page by page while others change it | - |
| `WorkflowSteps` | the vocabulary of operations: checks, reads, requirements, acts, files, and the classes of `client.rs` errors | - |
| `ErrorFacts` | `execution_error.rs`: effect, recovery and observations of every error | extends `WorkflowSteps` |
| `ResourceInputs` | the validated newtypes of `resources.rs` | - |
| `ProjectOperations`, `SecretOperations`, `KmsOperations`, `CaOperations`, `SshOperations`, `PolicyOperations`, `CertificateOperations`, `SignerOperations`, `IdentityOperations`, `MembershipOperations`, `DynamicOperations`, `AutomationOperations`, `RotationOperations` | one family of operations each: its wire requests, its async functions as steps, what the handlers and input types check, tiers | extend `ErrorFacts`; use each other where the code does |
| `Workflow` | one call of one operation, step by step, with Infisical and other clients | interprets the tables, which are its constants; refines `HonestCall` |
| `MC...` | instances for TLC: symmetry sets, views, operation sets, the union of the tables | |
| `...Proofs` | theorems and their proofs | |

How state and actions correspond to the code is in the head comment and the
variable comments of each module; the `map` of `PROJECT.json` gives the lines of
every definition. The choices that matter:

* **AuthClient.** A flight is one login task; its identity stands for the task,
  for the watch channel (`same_channel`) and for the token it brings
  (`Arc::ptr_eq`), and is reused only when nothing refers to it any more. The
  coordinator mutex is a lock with an explicit `holder`. Steps between two awaits
  are atomic; the two locks a login touches, the token cache and then the
  coordinator, are two steps. Cancellation of a caller, loss of the login task
  and expiry of tokens are actions.
* **FilePlane.** One action per method under the state lock, its opening sweep
  included. A stage slot, an upload claim or a response body is what a request
  `holds`; drop handlers that release the count and the bytes at different
  moments are two actions.
* **ToolCall.** Slots are the holders of the plane. The upstream action (`Act`)
  is separate from sending and from verifying, so that a loss of the answer, a
  rejection and a cancellation can fall on either side of it. After the action,
  building the result can still fail (`FailToBuild`): a handler's before it stages
  its material, and a whole result that is to become a file when it is larger than an
  envelope (`CountingWriter`, `docs/http-configuration.md`). It does not fail where
  material is concerned, which comes from one response, and an envelope holds what one
  response can bring (the assertion at `files.rs:75`); its mutant shows what would be
  lost. Two steps cannot fail in the code and do not in the model: the wrapper of a
  file result, a reference and two bounded identifiers, is never oversized, and serializing a JSON
  value into a counter of bytes has no error of its own.
* **JwksCache.** The mutex is held over the fetch; the answer of the provider is
  separate from its reading, so the key set can change in between.
* **SqlLease.** Infisical's configurations and leases are state; other clients may
  give the requested name to another configuration between any two steps. An
  answer is the truth about the lease that was made with parts that cannot be
  read, or an answer about a lease of another name. That an answer meant for another
  call is never about a lease of the same name is an assumption on Infisical (`Crossed`):
  the code could not tell such a lease from its own. The order of the checks
  matters only for what is revoked, so they are one condition (`Usable`). A request
  that fails or is cancelled on its way may be performed later (`MakeLate`,
  `RevokeLate`), when the name has changed hands and the caller has been told.
* **CertificateLifecycle.** A request is `flying` until Infisical performs or
  rejects it, also after its caller was answered. `own` is the record that a
  request has made or changed; the code never sees it, the properties do. The
  comparison of certificates byte by byte is the comparison of serial numbers and
  kinds; a lookup by id or serial number is one read.
* **Operations as steps.** An async function is the sequence of its steps in the
  order of the code; a function that calls another is the concatenation. A wire
  operation (an impl of `ReadOperation`, `ObservableReadOperation` or
  `MutationOperation`) names the object it addresses, the facets that the request
  fixes and those that the answer shows; whether an object is addressed by a bare
  identifier or inside the scope of the request decides whether its project has to
  be proved. Strings, numbers and payloads are facets that fit or do not.
  Comparisons are the facets that the code compares, grouped by the error they
  raise. Where a function goes different ways (with and without an optional
  argument, inline or bulk), each way is an operation of its own.
  `create_sql_dynamic_secret_lease` is the one operation that is not in the tables:
  it alone acts twice, creating a lease and revoking it when its answer is refused, and
  `SqlLease` models it. What its errors advise is therefore not judged by
  `AdviceIsTrue`: a revocation that Infisical refuses ends in the errors of any refused
  request, of which some say to correct the request while a lease may be left, which is
  the kind of advice that the finding of `operations_advice` is about.
* **Workflow.** One action per kind of step. Reads of one `join` arrive in any
  order and the first failure ends them. An act is sent once, may be performed
  after its call is over, refused, lost, or answered with the answer of another
  request; a call may be cancelled at every step. Other clients change any facet
  of any object between two steps, except that an object does not move to another
  project or organization. That is an assumption on Infisical: no operation of this
  API moves one.
  `Promised` holds what the schema and the input types of a tool promise to refuse,
  `Trusted` what is handed on although the call has fixed it: projects, folders,
  tags, identities and memberships come back much as Infisical answers them, as do the
  validity and path length of a signed certificate; KMS, SSH, policies, rotations,
  dynamic secrets and automations compare everything and have empty entries. A fact
  on that list that the code does compare makes the run fail.

## 3. Runs

| Run | Question | Instance and why it is enough |
|---|---|---|
| `auth_safety` | `CoordinatorIsCurrent` (a single login, failures closed before they are published), bounded replay, withdrawn tokens stay out, logins respect the pause, the client implements `LoginGate` | 2 callers, 3 flights, 1 request slot, Retry-After 0 or 2, with the history variables: a stale flight, the current one and a successor coexist; one slot makes login and requests compete |
| `auth_live` | every caller returns | 2 callers, no symmetry, all timers 1 |
| `auth_repeat` | *expected violation*, see Findings | as `auth_safety`, without Retry-After |
| `files` | `PlacesAreAccounted`, `BytesAreAccounted` (exact counts and both limits), `TicketsServeOnce` (one redemption, newest descriptor), nothing stale is used, every entry goes | 3 requests, 3 values, both limits tight: a slot, a claim and a body coexist, two of them may want the last place |
| `jwks` | `ProviderIsSpared` (fetches are spaced, also after failures and cancellations), `KeysFollowProvider` (withdrawn keys expire, new keys become known), every request is answered | 2 requests, 2 keys, cache life 2, cooldowns 1: a cache can outlive a deferral and a fetch can straddle a rotation |
| `calls_safety` | `RepliesAreTrue` (no reply invites a replay, a refusal for capacity costs nothing), `SlotsFollowTheCall`, staged values are named, refinement of `FilePlane` | 2 calls, each a reveal or a change with an uploaded value, a transfer, 3 values, 2 places: a call that wants two places, an upload and a download compete |
| `calls_live` | every call ends | 2 calls competing for 2 places |
| `sql_lease` | credentials are of the right configuration and of a lease no other call has made, compensation, other leases untouched, also by requests that are performed after their call has given up | 2 calls, 2 leases, 3 configurations of which 2 are SQL databases, 1 under another name: the name can go to a configuration of the same or another kind, and a lease of one call be named to the other |
| `certificates` | all five operations implement `HonestCall`; which record an import reports, and when it has to give up | 2 calls, 3 records, 1 serial number: an older, the own and somebody else's import of one certificate coexist, and two calls work on one record |
| `operations` | for every operation of the tables: wrong arguments stay local (`FlawsStayLocal`), errors are honest (`AdviceIsTrue`), acts stay in scope (`ScopeIsProved`), a result means that all acts were performed and that nothing seen contradicts the call (`ResultsFit`), tiers are true (`TierIsTrue`), and the conditions that the proofs need (`CallsAreDisciplined`) | the real tables: 233 of the 234 operations, all but `create_sql_dynamic_secret_lease`, and 13 further ways through them, one call each, since operations share no state in the process; one argument wrong, or one facet at a time not as the caller believes (see below) |
| `operations_advice` | *expected violation*, see Findings | as `operations` |
| `traversal` | `EveryItemOnce` (nothing missed, nothing twice, refused only if too long), every traversal ends | limits 1, 2, 3 and 9 against a ceiling of 2, offset limits of 4 and 2, up to 7 items: page sizes below, at and above the ceiling, full last pages, and collections that pass each limit |

In `operations` one thing is wrong at a time (`AtMostOne`): a second one could only
matter to a condition that the first one has already broken, and the theorems
of `WorkflowProofs` are stated on the same model. Facts do change between steps, so one
object can be wrong when it is read and another when the act is performed.

Bounds that cut the state space: `Flights` (identities are recycled),
`MaxTickets` (authorizations per value), `Names` (values ever minted), `Long`
(ages saturate beyond every threshold). Time is a `Tick`; durations are small
numbers of ticks that keep the order of the real ones. `Leases` and `Ids` bound
how many leases and records are ever made; identities are not used again.
`MaxItems` bounds the items of a collection. `CertificateLifecycle` stops when all
calls have ended and the records are used up, `Workflow` when the call is over and
`Traversal` when its reader has ended, so their runs do not check for deadlock.
`CertificateLifecycle`, `SqlLease` and `Workflow` promise no progress: nothing in
them waits for anything but an HTTP exchange, and that such a wait ends is the
property of `auth_live`. `WithoutDebris` is a VIEW
that hides what is left of a flight nobody refers to; symmetry is used in safety
runs only. Every property of a passing run has a mutant in the model, a plausible
mistake in the code that makes TLC report that property.

### Fairness

* `AuthClient`: strong fairness of every step of a caller and of a login task.
  tokio's mutex and semaphore are FIFO, so who waits for them is served; HTTP
  exchanges end by the client's timeout. No login has to succeed, no token to
  stay fresh.
* `FilePlane`: the clock ticks, the sweeper's interval fires, and requests end
  (the timeout layer), dropping what they hold. Nobody has to fetch, complete or
  redeem anything.
* `ToolCall`: a received call runs, and its upstream request ends by the
  client's timeout. Transfers and uploads are not fair: a call waits for none.
* `JwksCache`: strong fairness of a request's own steps (FIFO mutex, HTTP timeout
  of the fetch). The provider need not answer, keys may rotate for ever.
* `Traversal`: a caller that was given a continuation follows it. Additions and
  removals are not fair and need not stop, but for `MaxItems`.

## 4. Proofs

All theorems hold for any number of callers, values, keys, calls and any limits
that satisfy the ASSUMEs named in the modules (naturals, finiteness, order of
the cooldowns, sentinels outside the sets). Each safety proof goes through an inductive
invariant, a conjunction of named parts, one step per action.

* `AuthClientProofs`: `TypeCorrectness`, `SingleLogin`, `FailureClosed` (together
  `CurrentCoordinator`), `BoundedReplay`, `ImplementsGate`; of `AuthHistory`,
  `WithdrawnStaysOut` and `PauseRespected`. The invariant says that a login task which
  still has to settle is the current one (`UnsettledIsCurrent`), that a settled
  one is no longer current (`SettledIsClosed`), that a recorded failure excludes
  a login (`FailureMeansNoFlight`), who holds the lock (`LockInDecide`), that
  outcomes match states (`OutcomeMatches`) and how often a caller in each phase
  has sent (`SentSoFar`). "At most one login" is not inductive: a late waiter
  clears the coordinator, and only `UnsettledIsCurrent` shows that what it clears
  is over.
  For the history, `TokensWereCached` ties a token in use to a flight that can no
  longer write the cache; `PauseIsCovered` bounds the penalty by the coordinator's
  remaining cooldown. `RefusedStaysWithdrawn`, `RepetitionIgnoresCache` and
  `RepetitionJoinsUnsettled` draw the line around the finding of run `auth_repeat`: a
  repeated read can be given the token that was refused only as the outcome of
  its flight, and only if it joins after the task has written the cache and before
  `finish_refresh`. `NoCircularWait` is about progress, see below.
* `FilePlaneProofs`: `TypeCorrect`, `ExactReservations` and `CeilingRespected`
  (together `PlacesAccounted`), `ExactBudget` and `BudgetRespected` (together
  `BytesAccounted`), `SingleRedemption` and `NewestTicketOnly` (`TicketsOnce`),
  `NothingStale`, `LivesGoForward`. The value invariant says that a name is in
  one place only, unredeemed while it is in a map or claimed, claimed by one
  request, and that tickets are the newest; the count invariant carries the
  cardinalities, with lemmas on sets that gain or lose one element.
  The budget is a sum over all entries and all requests (`ByteInv`): staging returns
  what a promise is too large by, so it must be known that a slot holds a whole
  envelope, and that what is absent or idle is charged nothing. The library's
  induction theorems cannot be used here, so the facts about sums are proved
  by smallest counterexample (`SmallestSubset`, from the well-foundedness of strict
  inclusion): a fold is such a table of sums as its definition chooses, a table
  exists, two tables agree, any element can be taken out first (`TotalTakesOne`),
  and a sum changes by what was cleared (`TotalCleared`).
  `LivesGoForward` reads the life of every value off the maps, the claims and the
  history: each step moves at most one value forward, and loses others by its sweep.
  `NoValueIsRenewed` adds that what stays in its map keeps its size and never gets
  younger, whatever tickets are written for it.
* `JwksCacheProofs`: `TypeCorrectness`, `Spacing` and `FailurePause`
  (`ProviderSpared`), `KeyExpiry` and `KeyAdmission` (`KeysFollow`). The code marks a failure before it fetches and clears the mark
  afterwards; `FetchReserved` and `TroubleIsPaused` state that reservation,
  `LastIsCovered` and `BeforeIsCovered` relate the ages of past fetches to the
  timers, and the key invariants bound how old a key in the cache, in an answer or
  behind a deferral can be. `MutexFollowsFetch` ties the mutex to the fetch, also when a
  request is dropped, and with it `NoCircularWait` holds.
* `ToolCallProofs`: `NoReplay` and `CapacityIsFree` (`TrueReplies`),
  `PlacesReserved` and `PlacesReturned` (`PlacesFollow`), `StagedValuesAreNamed`,
  `ImplementsPlane`, `TypeCorrect`, `PlaneKept`, `NothingStaleServed`, `ValuesGoForward`,
  `CallsAreHonest`. Three invariants: what each phase knows of mark, upload and
  reply, which slot each phase owns, and that a staged name was minted before the
  name of a wrapper, which therefore is another, and for a call with material, whose
  result always fits. `ImplementsPlane`
  shows that every step of calls, transfers, sweeper and clock is a step of
  `FilePlane` or a stutter. `PlaneProofs` is the module `FilePlaneProofs` with calls and
  transfers for its requests; the steps of its invariants, cited along that
  refinement, give `PlaneKept`, `NothingStaleServed` and `ValuesGoForward`, the guarantees of
  the plane when calls use it, and with them the types. `CallsAreHonest` takes the mark a call leaves upstream for its
  effect: a refusal for capacity or before the action is final, a result or a
  report of an oversized one is told after the mark is there. `CallsNeverWait` reads off
  the slots each phase owns that a full plane stops no call that it has let in;
  `NoCallRenewsAValue` is `NoValueIsRenewed` along the refinement.
* `SqlLeaseProofs`: `TypeCorrectness`, `CredentialsBound`, `Compensation`,
  `OthersUntouched`, `CallsAreHonest`. `MadeOnce` says that no lease is made by two calls. `AnswerIsKnown` says that an answer is about the lease of the
  call or about one that was made for another name, `NamedIsOwned` that a lease
  named in an answer cannot be made once more; with them the two conditions of
  `CleanupTarget` are enough to exclude leases of others.
* `CertificateLifecycleProofs`: `TypeCorrectness`, `ImportIsOwn`,
  `ImportIsRecognised`, `OperationsAreHonest`. `RecordsAreKnown` says that an import makes its record
  after its first look, so that an active own record is among the new ones and a
  single new one is the own; `ResultIsTrue` that a refusal leaves nothing flying.
  `TakesApplies` and `EndsTells` map steps to the abstract operation.

* `TraversalProofs`: `ItemsComeOnce`, for any page sizes, ceilings and offset
  limits and collections of any length. The invariant orders everything: items
  are ascending in the collection and in what the caller has, and whatever lies
  behind the offset is newer than all that the caller has (`OldestFirst`), which
  removals, moving items to the front only, cannot spoil; what lies in front of
  the offset has been given out unless something there was removed (`Covered`).
  `TypeCorrectness` needs besides how far the offset can be (`OffsetInv`) and what the
  reader has been given (`ItemsInv`); `PagesGoForward` follows from the former.
* `WorkflowProofs`: `TypeCorrectness`, `LocalFlaws`, `TrueAdvice`, `ProvedScope`,
  `FittingResults`, `ActsInOrder`, `TrueTiers`, `OperationsAreHonest`, for any table of operations, of any length. Their
  hypothesis is `[]CallsAreDisciplined`, the very invariant that run `operations`
  checks: the operation that is called satisfies `Disciplined`,
  a condition on its steps alone (checks come before acts and confirmations before
  requests; an error with a strong message is only raised where it is known to be
  true; an act by a bare identifier is preceded by a fetch and a comparison of the
  object's project; whatever is shown is compared or trusted; the tier fits). That
  the tables of this repository satisfy it is what TLC checks, so the theorems hold of
  every operation listed, and of one added later that keeps to the discipline:
  `TablesAreEnough` says that it is a matter of the table and not of the course of a
  call (`Discipline`: every operation is `Disciplined`). The invariants: a call past a check has
  no flaw that it finds (`FlawHalts`), a trace has a step that left it
  (`TraceHasCause`), what a call has fetched is what it has seen (`ScopeIsSeen`), a
  wrong scope, once seen, stays wrong and stops the call (`ScopeHalts`), everything
  seen waits for its comparison (`Pending`), sent acts lie behind (`Places`), a call is
  past an act only when that was performed (`ActsAreDone`) and the
  reply records where the call ended (`Recorded`). `OperationsAreHonest` reads the effect
  off the acts that were performed; a call is said to be refused when its error has
  not started, or is to be corrected and is neither one of the errors of the first
  finding nor a refused look back.

`HonestCall` is thus what four components promise: executor calls, every operation of
the tables, creation of SQL leases, and the certificate operations. Run `certificates`
checks it for the last; the other three are proved without a run.

A liveness property under fairness is out of the prover's reach, but what keeps it from
failing can be stated as safety, and is proved for every instance where TLC has
checked one:

| Liveness (TLC) | Theorems | What they say |
|---|---|---|
| `EveryCallerIsAnswered` | `AuthClientProofs!NoCircularWait`, `OperationsAreShort`, `LoginsAreShort` | a caller that cannot go on waits for the holder of the mutex, or for a login task that can go on; an operation takes at most 14 steps, a login at most 5, and nobody else's step adds to them |
| `EveryRequestIsAnswered` | `JwksCacheProofs!NoCircularWait` | a request that cannot go on waits for one that fetches, and a fetch can always end |
| `EveryCallEnds` | `CallsNeverWait`, `CallsAreShort` | a call that was let in waits for no place, transfer or other call, and takes at most 24 steps |
| `EveryEntryGoes` | `NoValueIsRenewed` | the age of an entry only grows, so the sweeper finds it expired at last |
| `TraversalEnds` | `PagesGoForward` | every page ends the traversal or moves its offset forward, within the limit of the route |

In the first three "can go on" is the guard of an action of the model, written as a
predicate, since ENABLED is out of the prover's reach too; TLC confirmed for
`AuthClient` and `JwksCache` that predicate and ENABLED agree. The condition in the
first and the third that an identity is left is about the recycled names of the model.
What is not proved is the last step, from "can always go on, and only so often" with
fairness to "does end": that stays with TLC.

Every safety invariant and action property of the runs that pass is proved, but one.
Only model-checked are the liveness properties `EveryCallerIsAnswered`,
`EveryEntryGoes`, `EveryRequestIsAnswered`, `EveryCallEnds` and `TraversalEnds` with their
fairness, and `CallsAreDisciplined`, a statement about
the tables of this repository that TLC evaluates in full. The two violated properties
are counterexamples and need no proof.

## 5. Findings

`operations_advice` (code against documentation): `docs/tool-surface.md:1084` says
that `effect: "unknown"` requires reconciliation. The scope and state errors
(`execution_error.rs`, `from_resource`) have effect unknown and the recovery
`correctRequest`, and the same errors are raised when the answer to a change that
was performed does not fit. In the run an SSH authority is created, the answer
names another project, and the caller is told to correct its request and send it
again, which creates a second one. `CorrectableIsUnchanged`, a part of
`AdviceIsTrue`, is what remains true: such advice after an act comes only from
those errors, or from a refused read that looks at the object after the act.

`auth_repeat` (code against comment): `client.rs:302` says of `execute_read` that
it retries "refreshing authentication and retrying exactly once when Infisical
rejects the first access token". The flight puts its token in the cache before it
leaves the coordinator. A caller that takes the token there, is refused and
withdraws it finds the flight still current, joins it and is handed the refused
token again: its one retry is spent without a refresh. The result is a 401 that
the next call does not see; nothing wrong is cached.

## 6. Not modelled

* **Pure functions of one value**: schemas, wording, selected output fields,
  receipts, size estimates; parsing of PEM, certificates and requests; TLS and
  proxy construction; configuration parsing. They keep no state and interleave with
  nothing. Where an operation depends on what one of them decides (a certificate
  that does not match, an answer that does not parse, a result that is too large),
  the decision is a facet or a step of the model.
* **Registry, catalog, discovery, runtime report**: immutable tables and searches
  over them. The declared tiers are in the model, since `TierIsTrue` is about them.
* **HTTP ingress**: the order of timeout and concurrency layers and the permits of
  the two routers are tower's, configured once; a model would be one of tower. That
  a timeout drops a future anywhere is in `ToolCall`, `FilePlane`, `JwksCache` and
  `AuthClient`. The bounded reader of stdio is a loop over one buffer in one task.
* **Checks on one request** in `auth.rs` (hosts, origins, JWT claims): conjunctions
  over one token, without state.
* **Values that Infisical offers no version for**: approvers are validated against
  lists read before the policy is replaced (`code_signer_governance.rs:2305`). In
  `Workflow` such a fact can change between the read and the act, and no property
  promises otherwise.
* **Two operations at once**: operations share nothing in the process but the
  authentication client and the file plane, which have modules of their own; what
  another client does in between is in `Workflow`. The two components with
  compensation or with answers that depend on other writers, SQL leases and the
  certificate inventory, run two calls together.
* **Host client, scripts, coverage data**: outside the server.

What could follow: the permits of the ingress with the wait of a request counted
against its deadline.

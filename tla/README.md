# Verification of the SpecWire Bridge

SpecWire's Bridge (`src/bridge`) accepts GitLab webhooks, matches them to published
Flows, runs each Flow as a durable job and projects the result to Multica issues. This directory holds
TLA+ modules for its control plane, its ingress, its runtime and the legacy bridge, the TLC
configurations that check them, and TLAPS proofs of their invariants and action properties. `PROJECT.json` maps every
definition to the lines it models.

## 1. Inventory

| Part | State | Operations | Hard behaviour | Correct when |
| --- | --- | --- | --- | --- |
| Job queue and runtime tables (`internal/store/runtime.go`, `runtime_retention.go`) | `jobs`, `flow_executions`, `node_executions`, `inbound_events`, `correlations` in SQLite | accept, enqueue, claim, complete, fail, requeue, checkpoint writes, retention sweep | leases without renewal, crash between writes, rows written back as read | an unfinished execution always has a job; a final outcome stays |
| Worker and Executor (`internal/runtime/executor.go`) | goroutines (at most the concurrency of the semaphore), a mutex per Connection, in-memory copy of the execution | claim loop, `runJob`, `ExecuteInWorkspace`, automatic retry (5 attempts) | two runs of one job after a lease expired; retry from checkpoints; store errors | runs of one Connection do not overlap; success is backed by checkpoints; everything settles |
| Issue output connectors (`executor.go`, `internal/provider`) | `correlations`, Multica issues, GitLab Issues | `createIssue`, `completeIssue` (complete and cancel) | lost answers, crash between provider and table, partial completion | one issue per Flow and change; terminal projections agree with Multica and stay; Issues close last |
| Operator API (`internal/httpapi/integration.go`) | none of its own | retry, repair, replay, attention | reads, decides, then writes beside the worker | a request neither reopens nor strands an execution |
| Webhook ingress (`internal/runtime/ingress.go`, `live_service.go`) | locals of a delivery; inbound events, executions | list routes, verify, match, fan out, accept; live tests | partial acceptance, redelivery, republication in between | what is answered with 202 is complete; an execution has the payload of its action |
| Flow publication (`internal/flow/service.go`, `internal/store/repository.go`) | drafts, immutable versions, status, hook routes | save, publish, pause, archive, the reserved abandon Flow | two requests for one Flow, a failed activation, a disable of the Connection, a crash in the middle | one active version, the newest; at most one route; what is published is routed |
| Hook reconciler (`internal/controlplane/hooks.go`) | `hooks` row, stored secrets, GitLab's hook | ensure, activate, pause, rotate with rollback | lost answers, overlapping rotations, crash between GitLab and the row | the row's secret verifies what GitLab signs |
| Connection onboarding (`internal/controlplane/connection.go`) | operations, checkpoints, Connections, managed resources, objects of both providers | resumable run, disable | crash between effect and checkpoint, overlapping runs, taking over a Connection | bindings one to one, no second project, managed means created here |
| Flow graphs (`internal/domain/flow.go`, `internal/flow/validation.go`, `simulation.go`) | none | validate, order, walk | joins, dangling and parallel edges, unregistered behaviours | exactly the cycles are refused; a join waits for its branches |
| Legacy bridge (`handler.go`, `store.go`, `multica.go`) | `events` and `issue_links` rows, cards | publish, archive, project map at each use | redelivery, overlapping deliveries, crash at "processing" | one card per key, a created row stands, Issues close after the card |
| Legacy administration (`admin.go`, `config.go`) | configuration pointer, token index, env file, state file, hooks | add, remove, create hook, rotate, apply, restart | overlapping requests, stale file writes, lost answers | indexed tokens are accepted; the map covers the allowlist |
| Credentials, endpoints, selectors, registry, probes | rows with versions | single-statement changes | stale references | not modelled (section 7) |
| Authentication (`internal/auth`) | accounts, sessions | login, refresh of the CSRF token, logout, expiry | tabs that refresh beside each other | not modelled (section 7) |
| Vault, HTTP rendering, user interface | - | - | - | not modelled (section 7) |

Interaction: publication writes versions and routes and lets the hook reconciler put a signing token
into GitLab and into the `hooks` row; ingress reads routes, verifies the token, reads Flow and version
again and inserts events, executions and jobs, one transaction per action; operators insert jobs too; the
worker claims jobs and calls the Executor; the Executor calls the providers and writes
checkpoints, outcomes and correlations. Database rows are the only shared state besides the
per-Connection mutexes. All goroutines of a process share one worker ID, and one process runs at a time.
In the legacy bridge the webhook handler loads the configuration that the administration exchanges.

The hazards this leads to are listed in `PROJECT.json`, each at the line where it bites.

## 2. Modules

| Module | Extends | Models |
| --- | --- | --- |
| `FlowRuntime` | - | queue, worker, executor, operators |
| `ExecutionLedger` | - | the abstract promise of the queue; refined by `FlowRuntime` |
| `IssueProjection` | - | output connectors, call by call, with both providers |
| `HookReconciler` | - | hook, row and secrets of one source project |
| `FlowPublication` | `HookReconciler` | Flows, versions, routes; drives the reconciler |
| `DeliveryRules` | - | matching, trailers and identities of deliveries (pure) |
| `WebhookIngress` | `FlowPublication`, `DeliveryRules` | deliveries and live tests beside the control plane |
| `ConnectionOnboarding` | - | onboarding with its checkpoints |
| `FlowGraph` | - | validation, order and walk of a graph |
| `LegacyAdmin` | - | administration of the process-level bridge |
| `LegacyBridge` | `LegacyAdmin` | its webhook handler, composed with the administration |
| `FlowRuntimeProofs`, `IssueProjectionProofs`, `FlowGraphProofs`, `LegacyAdminProofs`, `ConnectionOnboardingProofs` | the module they are about | theorems |
| `FlowPublicationProofs` | `WebhookIngress` | theorems on Flows, routes and hooks, beside ingress |
| `WebhookIngressProofs` | `FlowPublicationProofs` | theorems on deliveries and live tests |
| `LegacyBridgeProofs` | `LegacyBridge`, `LegacyAdminProofs` | theorems on the legacy handler |
| `MC...` | the module of the same name | small instances for TLC |

* **FlowRuntime**. `jobStatus`, `leasedBy`, `leaseExpired`,
  `available`, `attemptCount` are columns of `jobs`; `status`, `attention` of `flow_executions`;
  `nodeStatus` is the latest attempt of each node; `purged` says whose input checkpoint lost its
  `output_snapshot`. A goroutine's `pc` stands between two database writes, so that crashes and
  other actors come in between: `ClaimNextJob`, `LockConnection`, `Load`, `Start`, `EnterNode`,
  `ExecuteNode`, `RecordNode`, `SettleExecution`, `FinalizeJob`. `gStatus` and `gAttention` are
  the in-memory copy which `UpdateFlowExecution` writes back. `overrun` is history: the jobs whose lease expired under a
  run that is still at work. Operator requests read
  (`ReadExecution`) and write (`RequeueFlowExecution`, `updateExecutionAttention`) in two steps.
  `replayExecution` only copies an existing execution, so it is one step.
  `Crash` loses goroutines, mutexes and requests; `Restart` draws a new worker ID.
* **ExecutionLedger** - what the queue promises, without jobs, goroutines or attempts: an
  execution is recorded, becomes pending, gets outcomes only while it is pending, stops being
  pending only with an outcome, and keeps a final outcome. FlowRuntime implements it with
  `pending` = executions that have a live job row.
* **IssueProjection** - `createIssue` and `completeIssue` call by call, with the correlation rows
  and the issues of both providers. `step` is the next call. A provider call can succeed, be
  refused, lose its answer after the effect, or be lost before it. Runs come one at a time
  because FlowRuntime proves `Serial` for a Connection. `UpsertCorrelation` may fail in its read-back, after its write.
* **HookReconciler**. `hookRef` is the reference in the `hooks` row, `secrets` the stored secrets with
  the alias each was stored under, `gitlabToken` what GitLab signs with. `ensureHook` is `GetHook`, `PutSecret`,
  `EnsureProvider`, `UpsertHook`; `RotateSigningToken` is `Rotate`, `PutRotated`, `RotateProvider`,
  `UpsertHook` or `Rollback`. Every statement and call may fail; an answer may be lost after the effect, and `UpsertHook`,
  which reads its row back, may fail with the row written.
* **FlowPublication**. `flowStatus`, `activeVersion`, `draft`, `versionStatus`, `graph` and `routes` are
  tables. `Publish` is `GetFlowDraft`, `ReadNextVersion`, `SaveFlowVersion`, the reconciler,
  `ActivateRoute`, `RecordHook`, and `PauseAfterFailure` when the activation failed;
  `Pause` and `Archive` disable routes and then set the status; `EnsureAbandonFlow` publishes the first Flow of the
  reserved name or, finding none, creates one with a new id: `ReservedFlows` are the rows there may be.
  `DisableConnection` disables the Connection and all its routes in one transaction, and an onboarding run that ends
  later sets the status again (`UpdateConnectionStatus`). Only the transactions of the store are atomic.
* **WebhookIngress**. A handler is between two reads or transactions: `ListRoutes`, `VerifyRoutes`,
  `TakeRoute`, `CheckVersion`, `AcceptPayload`. `Deliver` may repeat any delivery at any time.
  `StartLiveTest` and the steps after it are the live tests.
* **ConnectionOnboarding**. A run goes through `Onboard` one statement or provider call at a time; its
  operation's checkpoints survive it (`targetOf`, `done`), and a new request with the same operation id
  resumes from them. Of a disable it has the Connection's row; the routes are FlowPublication's.
* **FlowGraph**. `Validate` with its traversals, `Order` (Kahn's algorithm, map iteration order
  nondeterministic) and the walk of `Simulate` that the executor repeats, checked against definitions by
  reachability.
* **LegacyAdmin** and **LegacyBridge**. Requests load one configuration and edit a copy under the handler's mutex;
  index and files are written separately. A delivery claims its key in `events`, creates the
  card, links the Issue, and reads the project map again at each use.

Operators named as "Mutant" in a comment are plausible bugs of the definition that follows them;
they are used only to show that a property can fail.

### Abstractions

* Time is abstract. A lease expires and a backoff elapses by actions of their own, and
  `ORDER BY available_at, created_at, id` is kept as the relation `before`.
* A node's work is its outcome: the classes which `classifyNodeError` and
  `isRetryableExecutionError` tell apart. In FlowRuntime a Flow is the path the event takes, with the input
  connector first and the output connector last (`NodeCount`); FlowGraph has the joins.
* `attempt_count` saturates at `MaxAttempts`: beyond it the code does not tell values apart.
* A change has at most one linked GitLab Issue; Multica identifies an issue by its card (project,
  title, description), as the search of `reconcileIssueCreate` does. `RejectsDuplicates` is the
  refusal of an active duplicate, the conflict that `CreateIssue` handles.
* A draft is valid or not; a secret is its reference, since a token is never stored twice. All Flows of
  a publication instance belong to one Connection and so have one source project and one hook.
* A commit message is the values of its SpecWire trailers. A live test of a version has one row,
  however often it is repeated.
* Of an onboarding operation, running, blocked and failed are one status that no code tells apart.
* Error categories and messages, labels, provider request IDs and audit rows are left out.

## 3. Runs

Every cfg says `CHECK_DEADLOCK FALSE`: with no delivery and no request the system is idle for ever,
and the bounds on jobs, crashes and retries end behaviours that go on in reality.

| Run | Instance | Shows |
| --- | --- | --- |
| Recovery | 1 execution with up to 3 jobs, a path of 3 nodes, 2 goroutines, 2 attempts, an operator, expiring checkpoints, 1 crash | `TypeOK`, `NoStrandedExecution`, `OutcomeIsFinal`, and that the queue implements the ledger |
| Faults | 2 executions of one Connection, leases expire under live runs, every executor write may fail, replay, 1 crash | `SerialPerConnection`, `LeaseProtectsRun`, `CheckpointIsKept`, `SuccessIsCheckpointed` |
| Attention | 1 execution, 2 operators who retry, repair, acknowledge and reopen, 1 crash | `AttentionMatchesStatus` |
| Liveness | 2 executions contending for one mutex, replay, 1 crash, fair | `ExecutionSettles`, `JobsEnd` |
| Projection | 2 Flows, 1 change, archive and abandon, 2 attempts, 1 operator retry, 1 crash, all faults | `OneProjectionPerFlow`, `SuccessIsCorrelated`, `TerminalMatchesIssue`, `TerminalIsFrozen`, `ClosedAfterProjections` |
| LostClose | violation: 1 Flow, 1 change, 2 attempts, 1 operator retry | a GitLab close that failed is never tried again, and success is reported |
| Publication | 1 Flow (the reserved one) with 2 drafts and 2 versions, 2 requests, 2 secrets, 1 fault, crash or disable of the Connection, live tests | `ControlTypeOK`, `ActiveIsNewest`, `OneActiveRoute`, `RouteIsVerifiable`, `PublishedIsRouted`, `HookTokensAgree`, `VersionsAreImmutable` |
| Ingress | 2 Flows with 2 versions, 1 request, 1 handler, a push archiving two changes and an abandoned Issue, delivered again and again, 1 fault, crash or disable | `AcceptedCompletely`, `ExecutionsCarryTheirAction` |
| Onboarding | 2 overlapping runs, an operation that creates its target and one that chooses an existing project, 2 Connections, a resource that exists already, 1 fault or crash | `TypeOK`, `OneToOne`, `OneProjectPerSource`, `ManagedIsOurs`, `ConfiguredIsComplete` |
| Graph | all graphs with up to 4 nodes and 4 edges, 3 nodes and 4 parallel edges, and dangling ones | `CycleIsFound`, `AcceptedHasOrder`, `OrderRespectsEdges`, `PathsAreTerminated`, `InputsAreFinal` |
| Legacy | 2 deliveries of an Issue and of an archive beside an administration request, 2 cards, 1 lost answer, 1 crash | `OneCardPerKey`, `CreatedStands`, `ClosedAfterDone` |
| Administration | 2 projects, 2 requests, 2 shared and 2 new tokens, 2 restarts | `IndexedIsAccepted`, `MapCoversAllowlist` |

**Bounds.** In the runtime two executions are enough for every pairwise interference (one mutex, one order, two
jobs); two goroutines are needed for a job that runs twice; three jobs of one execution are an
automatic retry beside two operator requests; two attempts give one retry and one exhausted
retry; one crash falls between any two writes, and a path of three nodes has an inner node, which alone may skip.
In the control plane two versions give a publication over a published version, and a race of two requests
for the same number; two secrets give one rotation, whose rollback needs the first fault; one fault falls
on any statement, call or answer, or is a crash or a disable of the Connection (`MaxFaults` bounds them together). Ingress has one request and one handler because their
interference is pairwise: every statement of a publication falls between any two reads of a
delivery, and a redelivery after a failure is the same handler again. Onboarding needs three
projects: one that exists, one to be created, and one that a wrong retry would create. Four tokens in
Administration are a dedicated one per project beside two shared ones, and two restarts reload a file that an older
request has written over. Four nodes make a join of two branches with a predecessor. Goroutines, requests, runs, operations' requests and
handlers are symmetric where the cfg says so; the liveness run uses no symmetry. The proofs of section 5 remove
the bounds.

**Fairness** (`FairSpec`). Weak fairness of `Claim` (the poll loop ticks every 200 ms and fills free
slots), of every goroutine's steps (Go's scheduler runs them and every provider call has a timeout),
of `BackoffElapses` and `LeaseExpires` (clocks advance) and of `Restart` (a supervisor restarts the
container). Strong fairness of `LockConnection`: a `sync.Mutex` goes into starvation mode and then serves its
longest waiter, but it is not continuously free. Deliveries, crashes and operators are not fair.
No other module states liveness: a publication, an onboarding or a delivery that fails
waits for a person or for GitLab, whom nothing in the code obliges to come back.

**History.** Some properties name what happened before. `flowSuspect` and `crowded` (Flows whose
requests overlapped or were cut short, or whose Connection was disabled, since their last complete publication), `hookSuspect` and `entangled`
(the same for the hook), `raced` and `mixed` (onboarding), `overrun` (jobs that outlived their lease) are such variables; no action reads them in a guard.

## 4. What holds only under a condition

Runtime. `NoStrandedExecution` needs runs shorter than the two minutes of a lease (`SlowRuns = FALSE`), to which
nothing in the code holds them, and a store without errors (`StoreErrors = FALSE`). `LeaseProtectsRun` needs neither:
it says that a run which outlives its lease does its harm to its own job alone. `OutcomeIsFinal` and the ledger need that nobody acknowledges (`"attention" \notin
OperatorActions`); `SuccessIsCheckpointed` needs that no checkpoint expires before a retry
(`RetentionEnds = FALSE`). Each condition is necessary. To see why, change the constant and check:

| Expectation | Constants | What happens |
| --- | --- | --- |
| `NoStrandedExecution` | `SlowRuns = TRUE` | a run whose lease expired fails the row its own process has claimed again (`runtime.go:697`, `executor.go:786`); a crash then strands the execution |
| `NoStrandedExecution` | `StoreErrors = TRUE` | a failed status write ends the job and leaves the execution running (`executor.go:915`) |
| `AcknowledgementKeepsOutcome` | `OperatorActions = {"attention"}` | an acknowledgement writes an old failure over a success (`integration.go:1673`) |
| `ConnectionWorkIsOrdered` | two executions of one Connection | jobs of one Connection may take its mutex out of order (`executor.go:787`, `897`) |
| `SuccessIsCheckpointed` | `RetentionEnds = TRUE` and an operator | a retry after the retention sweep reports success without running the output (`executor.go:102-107`) |
| `HookCanBeRetried` | Publication | a failed publication leaves its secret's alias taken, and every later one fails (`hooks.go:242`, though `service.go:203` expects a retry to succeed) |
| `IndexedIsAccepted` | `SharedTokens = 1` | a rotation without a dedicated token replaces the only secret, which may be another project's (`admin.go:555`) |
| `OneReservedFlow` | Publication, `Flows = {f1, abandon}`, `ReservedFlows <- TwoReserved`, 1 version, `MaxFaults = 0` | two onboarding requests of a Connection install two abandon Flows, which the abandon label then starts both (`service.go:93`, whose comment at 70 calls it idempotent) |
| `RollbackRestores` | Publication | `UpsertHook` fails after its write, and the rollback parts row and GitLab (`store/hooks.go:47`, `controlplane/hooks.go:180`) |
| `ProcessingIsServed` | Legacy | a row left at "processing" by a crash or a failed `MarkError` answers every redelivery as a duplicate (`store.go:15`) |

The expectations that do not hold are defined beside the properties and checked by no run.
`LostClose` is the one disagreement with a run: a finding in `PROJECT.json` quotes the line it disagrees with.

Also met while modelling, and allowed by the models:

* a retry that starts after the failure beside it was acknowledged stores its own failure as acknowledged
  (the spec of integration-flow says `open`); two Flows whose issues have the same card adopt
  one Multica issue, which a partial abandon and a later archive turn from cancelled to done.
  `OneProjectionPerFlow` rests on Multica's refusal of active duplicates;
* two publications of one Flow may activate their routes in the other order, so that the older version stays
  routed and ingress, which also asks for a published version, accepts nothing; an archive beside a
  publication may end with a published Flow; a failed publication pauses a Flow that another one has just activated.
  `PublishedIsRouted` therefore excepts Flows whose requests overlapped;
* a disable of the Connection disables the routes and leaves the Flows published, also beside a publication that has
  activated its route; when an onboarding run brings the Connection back, its Flows are published and
  unrouted until somebody publishes them again. `PublishedIsRouted` excepts them until then;
* two rotations, or a rotation beside a publication, may leave the row and GitLab with different tokens
  (`hooks.go:120-125`), as may an answer that is lost or a row that is reported as failed after it was written.
  `HookTokensAgree` therefore excepts them, until the next
  reconciliation that runs alone;
* a redelivery after a republication gives a second execution, since the version is part of the
  idempotency key; a second abandon or publication of a change with the same head is dropped as a duplicate;
* a crash between the two inserts of `EnsureAbandonFlow` leaves a reserved Flow without a draft, which no later
  start repairs (`persistent.go:177-180`);
* onboarding brings a disabled Connection back; a resource that was created before a crash is
  recorded as adopted by the next run; two runs that list projects at the same time create two (`raced`);
* in the legacy bridge, an apply with an empty allowlist writes a file the process does not start
  with; an older request may write its state over a newer one; a lost answer of GitLab leaves a hook with a
  token nobody accepts. `LatestCreatedIssue` orders by claim, not by creation.

## 5. Proofs

All theorems hold for every value of the constants, from the named assumptions of the modules and the conditions in
their statements. Together they state every invariant and action property of the passing runs and the
refinement. A run of a conditional theorem's property has constants that meet the condition. `RoutedInv`, `ProjectInv` and
`FitInv`, which say the most beyond their property, were also checked by TLC on the runs' instances.

### The runtime (`FlowRuntimeProofs`)

| Theorem | Statement | Argument |
| --- | --- | --- |
| `TypeCorrect` | `Spec => []TypeOK` | `TypeInv`: the types and `Linked` - a present row has an execution, a busy goroutine a present row, a request an execution. Types alone are not inductive, since actions apply functions to these links. |
| `Serial` | `Spec => []SerialPerConnection` | `MutexInv`: a goroutine in the executor owns the mutex of its Connection. It needs that the job of a goroutine never changes its execution (`RunStays`). Holds with expired leases and store errors. |
| `OutcomesStand` | `"attention" \notin OperatorActions => (Spec => OutcomeIsFinal)` | `RunInv`: a goroutine between its load and its outcome works on an execution that is not final, and holds `running` in memory. Another goroutine cannot have finished it (`Serial`), a requeue refuses final statuses. |
| `LeasesProtect` | `Spec => []LeaseProtectsRun` | `LeaseInv`: the row of a busy goroutine is running, leased by this process, unexpired and nobody else's, unless its lease has expired under a run that has not returned (`overrun`). A late `FinalizeJob` writes only the row of its own job, which is in `overrun` as long as it matters. |
| `NothingStranded` | `~SlowRuns /\ ~StoreErrors => (Spec => []NoStrandedExecution)` | `StrandedInv`: a goroutine about to settle its job has left its execution neither queued nor running, or another live job exists. A row ends only in `FinalizeJob` of the goroutine that holds it (`RowEnds`, by `Leased`, which is `LeaseInv` while nothing overruns). |
| `AttentionFollows` | `Spec => []AttentionMatchesStatus` | with `Acknowledging`: a request about to acknowledge holds the actionable status it has read. |
| `CheckpointsStay` | `Spec => CheckpointIsKept` | `NodeInv`: the attempt a goroutine records is the one it has inserted. A goroutine enters a node only when it has not succeeded, and `Serial` keeps every other one out until it records (`NodeWrites`). Also with expired leases and store errors. |
| `SuccessesAreCheckpointed` | `~RetentionEnds => (Spec => []SuccessIsCheckpointed)` | `SuccessInv`: a run starts at the input connector, is past it only with its checkpoint, and reports success only with those of all connectors (`RunsInOrder`). |
| `RuntimeImplementsLedger` | `~SlowRuns /\ ~StoreErrors /\ "attention" \notin OperatorActions => (Spec => ImplementsLedger)` | `RowInv`: an execution with a row has been accepted. every step is a step of the ledger or a stutter (`EveryLedgerStep`), with a lemma for each kind of write: `SamePending`, `MorePending`, `ExecutorRecords`, `FinalizeDrops`. That a row ends only with an outcome is `StrandedInv`; that outcomes stand, `RunInv`. |

### Projection (`IssueProjectionProofs`)

`OwnCard` says that keys with the same card are one key: every change of every Flow has a card of its own.

| Theorem | Statement | Argument |
| --- | --- | --- |
| `ProjectionTypes`, `SuccessesAreCorrelated` | `Spec => []ProjectionTypeOK`, `Spec => []SuccessIsCorrelated` | `ProjectionInv`: the types; a run in hand has its key (`Framed`); a correlation names an issue with its card (`Correlates`); `createIssue` goes on only while the correlation is missing (`CreatesOnce`). |
| `ClosesLast` | `Spec => ClosedAfterProjections` | `CompletesAll`, in `ProjectionInv`: `completeIssue` still has to do all active projections, and has none left when it reaches the GitLab Issue. |
| `TerminalStands` | `OwnCard => (Spec => TerminalIsFrozen)` | a status is set for an active projection in hand, or on creation (`IssueWrites`), and no other projection names its issue (`OwnTarget`). |
| `TerminalAgrees` | `OwnCard => (Spec => []TerminalMatchesIssue)` | a projection ends after its issue was given the status; then `TerminalStands`' argument. |
| `ProjectsOnce` | `RejectsDuplicates /\ OwnCard => (Spec => []OneProjectionPerFlow)` | an ended issue belongs to a key that is correlated (`EndedIsCorrelated`), so that nobody creates for it again, and Multica refuses a second active one. |

### Publication and hooks (`FlowPublicationProofs`), deliveries (`WebhookIngressProofs`)

`Spec` is that of WebhookIngress in both: the theorems of publication hold beside deliveries and live tests.

| Theorem | Statement | Argument |
| --- | --- | --- |
| `NewestIsActive` | `Spec => []ActiveIsNewest` | `VersionInv`: a Flow has versions `1 .. activeVersion`, and a request about to save holds a number that is stored already or the next one; `SaveFlowVersion` refuses the former. |
| `VersionsKeepTheirGraph` | `Spec => VersionsAreImmutable` | the only insert is of a number that is absent (`VersionKinds`). |
| `RoutesAreUnique` | `Spec => []OneActiveRoute` | `RouteInv`: two routed versions of a Flow are one. |
| `RoutesAreVerifiable` | `Spec => [](RouteIsVerifiable /\ HookSecretIsStored)` | `HookInv`: a request about to write a reference refers to a stored secret, one about to activate a route has seen the row written; rows and secrets are never removed. |
| `TokensAgree` | `Spec => []HookTokensAgree` | whatever statement, call, answer or read-back fails. `TokenInv`: of the requests in the reconciliation none or all are entangled (`Together`), a rotation that is not works alone (`RotatesAlone`), and what such a request holds is the row's reference or a new one GitLab has (`SameSecret`, `Tokens`). |
| `PublishedFlowsAreRouted` | `Spec => []PublishedIsRouted` | `RoutedInv`: a disable of the Connection marks the Flows it unroutes and the requests whose route it takes (`ConnectionKeepsRouted`); requests of a Flow that overlap mark it (`Crowded`); of an unmarked Flow one request is in flight, holding its active version (`Alone`, `HoldsActive`); unless that one is between status and route, a published Flow is routed (`Calm`). |
| `AnsweredIsAccepted` | `Spec => []AcceptedCompletely` | `HandlerInv`: each route a handler has listed is still to do, in progress (of what the delivery announces to it, all that is not executed is still among the payloads), or complete. What is not live does not become live again (`Stays`), so complete stays complete. |
| `PayloadsAreTheirOwn` | `DistinctIds => (Spec => []ExecutionsCarryTheirAction)` | `CarryInv`: events with one identity are about one action, as `DistinctIds` says that GitLab names its deliveries uniquely, and none like a live test. |
| `ControlTypes` | `Spec => []ControlTypeOK` | with `HandlerInv` and `TokenInv`. What is not shape: a version that was executed, or is about to be tested, is stored (`ExecutedStored`, `TestedStored`), though routes and Flows are read before. |

Each module first shows which steps leave its variables alone (`StepKinds`, `VersionKinds`, `HookKinds`,
`AcceptKinds`), so that the argument is about the few that do not. `NextRefIsFree` and `LastPosition` rest on
the well-foundedness of the naturals: the next reference is a minimum, the newest trailer the last of its value.

### Onboarding (`ConnectionOnboardingProofs`)

| Theorem | Statement | Argument |
| --- | --- | --- |
| `OnboardingTypeCorrect` | `Spec => []TypeOK` | with `RowsLinked`: a row refers to a Connection that exists, which has a target. |
| `ConnectionsAreOneToOne` | `Spec => []OneToOne` | `RunsOK`: a run has a Connection, a target and a step wherever it uses them; a row becomes active in two places, and both ask the indexes (`StaysOneToOne`). |
| `OnlyOursIsManaged` | `Spec => []ManagedIsOurs` | `RowsManaged` also of checkpoints, and `RunsOK` of what a run has been answered; nothing at a provider is removed (`Grows`). |
| `SourcesHaveOneProject` | `Spec => []OneProjectPerSource` | `ProjectInv`: unless `raced`, one run at a time is between the listing and the creation, and no project has its source's title. |
| `FinishedIsComplete` | `Spec => []ConfiguredIsComplete` | `FitInv`: an operation that is not mixed has one run (`OneRun`); a checkpoint names the object of the operation's Connection, ready there (`OperationFits`); a run agrees with its row and has made ready all steps it has passed (`RunFits`). Connections' ends, objects and rows are kept (`Kept`). One lemma per action. |

### Graphs (`FlowGraphProofs`)

| Theorem | Statement | Argument |
| --- | --- | --- |
| `CyclesAreFound` | `Spec => []CycleIsFound` | `SearchInv`: the stack is a path of gray nodes, and a black node's edges lead to nodes finished before it, so that an edge to a gray node closes a cycle and the black nodes have none. |
| `AcceptedGraphsHaveOrder`, `OrdersRespectEdges` | `Spec => []AcceptedHasOrder`, `Spec => []OrderRespectsEdges` | `SortingInv`: what is left of a node's indegree are its edges from nodes not ordered yet, and the queue holds those that have none left. A graph that passed the search cannot run out of them. |
| `WalksTerminate`, `InputsStayFinal` | `Spec => []PathsAreTerminated`, `Spec => InputsAreFinal` | `WalkInv`: what was passed was visited exactly when a value had arrived, and some path has ended or goes on ahead. |

### The legacy bridge (`LegacyAdminProofs`, `LegacyBridgeProofs`)

| Theorem | Statement | Argument |
| --- | --- | --- |
| `AdminTypeCorrect` | `AdminSpec => []AdminInv` | the types, and a request that writes a token has one. |
| `MapCovers` | `AdminSpec => []MapCoversAllowlist` | inductive with the types. |
| `IndexAccepted` | `SharedTokens >= 2 => (AdminSpec => []IndexedIsAccepted)` | `TokenInv`: shared tokens are never removed, tokens in index, saved files and requests are dedicated and pairwise different, so a rotation only removes the token of its own project. With one shared token it is false (section 4), so the run has two. |
| `BridgeKeepsAdmin` | `Spec => AdminSpec` | the steps of the handler leave the administration alone; the three theorems above hold beside deliveries. |
| `OneCard` | `Spec => []OneCardPerKey` | `BridgeInv`: one delivery at a time has claimed a row (`OneClaim`), and a row that may be tried again has only cards whose answer was lost (`Counted`). |
| `CreatedRowsStand` | `Spec => CreatedStands` | a delivery about to mark a row has claimed it while it was not created, and no other one has (`OneClaim`); a claim refuses created rows (`CreatedRowsStay`). |
| `ClosesAfterDone` | `Spec => []ClosedAfterDone` | `Archives`: a push of an archive lists and closes Issues only after its card is done, and only of its own change. |

### Only model-checked

`ExecutionSettles` and `JobsEnd` (run Liveness): they rest on fairness, and `ENABLED` is out of the prover's reach. The violation
of `LostClose` is a counterexample that TLC finds.

## 6. Plan

In this order:

1. Proofs: weaker conditions than `OwnCard`, for Flows whose issues share a card, and than `~RetentionEnds`,
   for executions without a sweep between failure and retry; abstract specifications of onboarding (one complete
   Connection per source) and of publication (a Flow and its one route), with the refinements from
   `FitInv` and `RoutedInv`.
2. Modules: sessions (`internal/auth/local.go`, `internal/store/auth_repository.go`), with the CSRF tokens that
   several tabs refresh beside each other; the rotation of group credentials beside the Flows that use them.
3. Detail: `available_at` and `lease_until` as the RFC 3339 texts they are compared as (`runtime.go:649`),
   which drop trailing zeros of a fraction, so that text and time may order differently within a second.
4. Larger instances: two handlers in Ingress, two source projects in Publication, two sources in Onboarding.

## 7. Not modelled

* **Vault** (`internal/security`): encryption of single values; a stored secret is present or absent.
* **HTTP** (`internal/httpapi`): decoding, authorization checks and rendering around the services, which keep no
  state between requests. Handlers that change state are the requests of the modules.
* **Authentication** (`internal/auth`): every statement on accounts and sessions is one transaction of its own;
  the OIDC provider is constructed by its tests only. Sessions are next in the plan.
* **Credentials, endpoints, selectors, registry, probes**: single-statement writes and lookups; `disable` of a
  Connection is in ConnectionOnboarding and, for its routes, in FlowPublication.
* **Templates, redaction, mappings**: text. A rendered card is the key it is found by.
* **Configuration**: parsing of environment and files, apart from what LegacyAdmin writes and reads back.
* **User interface, installers, scripts, the one-off importer of legacy data, generated and vendored code**.

In the mounted server the persistent ingress answers `/gitlab/specwire` (`main.go:72`); the legacy `webhookHandler` is
constructed by the tests, and the legacy administration is mounted when the bridge is not persistent-only.
LegacyBridge and LegacyAdmin are models of that code as it stands.

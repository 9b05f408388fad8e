# Verification of CommerceVision's durable execution

CommerceVision runs long AI workflows over product images. Its API, scheduler and
Celery workers share nothing but MySQL, RabbitMQ, an object store and a vector
store, and its reliability does not rest on the broker: it rests on MySQL rows
that processes claim, lease, fence, settle and recover. This directory models
that core in TLA+, checks it with TLC on small instances, and proves its main
properties with TLAPS for every value of the constants.

Contents: [inventory](#1-inventory), [modules](#2-modules-and-plan),
[transport](#3-transport-messaging), [durable operations](#4-durable-operations-durableoperation),
[tool node](#5-the-tool-node-toolnode), [assets](#6-assets-assetlifecycle-uploadsession-vectorindex),
[generation](#7-image-generation-generation), [records](#8-the-record-services-records),
[briefs](#9-product-briefs-productbrief-visionanalysis), [planning](#10-planning-planning),
[proofs](#11-proofs), [findings and observations](#12-findings-and-observations),
[what is left out](#13-what-is-only-model-checked-and-what-is-left-out).

## 1. Inventory

Paths: `A/` is `src/packages/application/src/commercevision_application/`, `P/`
is `src/packages/persistence/src/commercevision_persistence/`, `D/` is
`src/packages/domain/src/commercevision_domain/`, `G/` is
`src/packages/agent-core/src/commercevision_agent_core/`, `W/` is
`src/services/worker/src/commercevision_worker/`.

| component | state | operations | what makes it hard | what makes it correct |
|---|---|---|---|---|
| transport (`A/reliability.py`, `P/repositories.py`, `W/runtime.py`, `W/celery_app.py`) | `outbox_events`, `inbox_messages`, `dead_letter_messages`, RabbitMQ queue | add, claim_ready, publish, mark_published, mark_publish_failed; claim, mark_processed, schedule_retry, mark_permanent_failed | lost confirmations, duplicate and early deliveries, locks and leases that expire under their holder, crashes between two transactions | one handler can settle; settled is final; nobody is admitted before `available_at`; an event is lost only with a delivery the broker discards; dead letter iff dead |
| durable operations (`A/operations.py`, `A/operation_recovery.py`, `D/operations/`) | `durable_operations`, `dead_letter_replays`, recovery events | claim, start, succeed, fail, wait for human, reconcile, exhaust, cancel, replay, terminal callback, scan | an external call whose outcome is unknown; late results; scanner, workers and replays over one row | no blind re-execution; late results settle nothing; terminal states stay; budgets; failures have letters |
| workflow node execution (`A/execution.py`, `G/graph.py`, `D/workflow/`) | `workflows`, `workflow_steps`, `workflow_attempts` | begin_node, begin_attempt, complete_attempt, complete_node, fail_node | lease loss between transactions, crash after the call, cancellation in between | one tool call of unknown outcome at a time; run follows step; the node settles |
| workflow recovery (`A/reliability.py`, RecoveryService) | the same rows | recover_once: expired leases, stale workflows | racing retry, run and recovery events | the node still settles |
| asset validation, rights, deletion (`A/assets.py`, `A/asset_*.py`, `D/assets/`) | asset, objects, evidence, rights record, deletion operation, object storage | validate, review, promote, grant, revoke, expire, delete | two executors of one validation promote; a storage call fails; rights and deletion in between | nothing offered before it is validated and promoted; the recorded version stays; a deleted asset has no object |
| asset upload (`A/upload_*.py`) | session, stored answers, quarantine | create, finalize, abort, expire, clean up | finalize requests repeated and overtaken; a URL that outlives the session, and cleanups of few attempts | one asset per session; an abandoned upload leaves something only where its cleanup gave up or an object slipped through its last pass |
| indexing (`A/indexing.py`, `P/indexing.py`) | embedding records, search documents, Milvus | request, execute, remove, delete a vector, reconcile, replay | late workers write vectors of old generations; rights lost meanwhile, also between the check and the claim | INDEXED has its vector; removed stays hidden |
| image generation (`A/generation_*.py`, `P/generation_*.py`, `W/generation.py`) | batches, slots, operations, candidates | start, dispatch, submit, publish, continue, evaluate | a paid call of unknown outcome behind a fence; the last candidates of a batch at once | nothing paid for twice; a candidate is whole; a complete batch continues |
| idempotency keys (`A/asset_idempotency.py`) | stored responses | claim, complete | two requests with one key | one effect per key |
| catalog, prompt registry, brand profiles (`A/catalog.py`, `A/prompts.py`, `A/brand_profiles.py`) | versioned records, pointers, pins | create, change, publish, invalidate | READ COMMITTED transactions over several rows | no lost update, no deadlock; the pointer is production; an active profile is live |
| provider control plane, router (`A/provider_control_plane.py`, `A/model_router.py`) | heads, versions, observations, decisions | publish, observe, route | a decision from several rows while they change | a route is chosen from current rows |
| collection rebuild (`A/collection_rebuild*.py`, `P/collection_rebuild*.py`) | rebuild row, placements, active collection | request, provision, fill, replay, rescan, validate, activate, retire | facts recorded meanwhile, commands repeated, stale workers | the snapshot is kept; the rebuild goes on (refuted, section 12) |
| retrieval (`A/retrieval.py`, `P/retrieval_*.py`) | runs, preview tokens | query, exchange a token | many statements, authority changing between any two | nothing unauthorised; a result that calls itself complete is (but for one moment, section 12) |
| product briefs (`A/product_briefs.py`, `A/product_brief_artifacts.py`) | versions, operations, intents, calls, artifacts | request, revise, confirm, execute, reconcile, cancel | paid calls, object store and rows that disagree; workers judging what others left | nothing unknown is submitted again; ledger, brief, operation and workflow agree |
| agent graph, checkpointer, approvals, plans (`G/`, `A/workflows.py`, `A/creative_plans.py`, `P/checkpointer.py`) | checkpoints, plan versions, approvals, generations | run, interrupt, decide, edit, resume, recover | checkpoints and rows are two stores; reviewers and planner race | plans follow the confirmed brief; only the approved head is executed |
| tool authorization and runtime, dead-letter administration (`A/operators.py`) | letters, replays | authorize, list, replay | replay of an outdated letter | only the last letter reopens |
| workflow events, SSE (`A/workflow_events.py`) | event log, cursors | append, read from cursor | appends during a read | no gap, no repetition |
| scheduler orchestration (`src/services/scheduler`) | none | run every maintenance task | one task's failure | the others still run |
| API, MCP, provider adapters, object storage, evaluation, observability, web | none of their own | mapping and I/O | | |

Interaction. A command stores its rows and an Outbox event in one transaction.
The scheduler's dispatcher claims due events, publishes them and records the
confirmation. A worker claims the delivery in the Inbox, runs a handler of many
transactions (an operation, or a run of the agent graph), and settles the
delivery in a further transaction. The scheduler also scans for rows whose lease
has expired and stores recovery events for them. No process holds state across
transactions that another must trust: it holds tokens and versions, and every
later transaction compares them with the row.

The hard places, each at its line, are the "hazards" of `PROJECT.json`.

## 2. Modules and plan

| module | stands on | models |
|---|---|---|
| `Messaging`, `DeliveryContract` | | transport and its abstract specification |
| `DurableOperation` | the contract | one operation with workers, scanner, replay |
| `ToolNode` | the contract | the node that makes an external call |
| `UploadSession`, `AssetLifecycle`, `VectorIndex` | operations reduced to what executors see | an asset from upload to deletion, and its vectors |
| `Generation` | the same | batches, paid calls, candidates |
| `Idempotency` | | transactions with keys and row locks; base of the six services below |
| `Catalog`, `PromptRegistry`, `BrandProfiles`, `ControlPlane`, `CollectionRebuild`, `Retrieval` | `Idempotency` | one record service each; `Retrieval` over `CollectionRebuild` |
| `Records` | all of these | composition, one service per behaviour |
| `ProductBrief` | | the brief and its reviewers' commands |
| `VisionAnalysis` | `ProductBrief` | executor, ledger, reconciliation of a brief's analyses |
| `Planning` | `ProductBrief` | from the confirmed brief to the approved plan |

Each `MC` module instantiates the module of its name. Proofs are in
`...Proofs` modules, which hold theorems and lemmas only.

What the plan still has: the inductive invariants of `SnapshotKept` and
`HonestHybrid`, of `VectorIndex` and of `Planning`; a model of the event stream's
cursors.

## 3. Transport: `Messaging`

`Messaging.tla` has seven variables: `outbox`, `inbox` and `deadLetters` are the
tables, `queue` counts the ready copies of each message in RabbitMQ (external),
`dispatcher` holds the claims a dispatcher has not disposed of, and `worker` the
delivery a Celery process holds unacknowledged; `discarded`, a history, is the
events the broker has thrown a delivery of away since their last publication. One
action is one transaction or one step between two.

| code | actions |
|---|---|
| `OutboxRepository.add`, `claim_ready` | `Add`, `ClaimReady` |
| `OutboxDispatcher.dispatch_once` | `PublishConfirmed`, `PublishRefused`, `MarkPublished`, `MarkPublishFailed`, and their lost-lock outcomes `...Conflict` |
| `process_event`, `InboxCoordinator.claim` | `Receive`; `Look`, `LookEarly` (the Outbox row is read, without a lock); `ClaimNothing`, `ClaimConflict`, `ClaimExhausted`, `ClaimMessage` (the Inbox row is locked) |
| handler and settlement | `Handle`, `MarkProcessed`, `ScheduleRetry`, `MarkPermanentFailed`, `SettleConflict`, `Acknowledge`, `RejectDelivery` |
| faults | `DispatcherCrash`, `WorkerCrash`, `TransactionFails`, a refused publication the broker has in fact accepted |
| time | `Tick` |

A column that holds an instant is kept as the time left until it. A token is
only compared with the token of its own row, so a fresh one is any value that no
claimant of the row still remembers.

Two things are as the code has them and not as one would wish. The claim reads
`available_at` and takes the Inbox row afterwards (`A/reliability.py:136-139`), so a
retry or a failed publication may be recorded between the two: `overtaken` marks a
worker to which that happened. And a task that raises, be it for a lease conflict
(`ClaimConflict`) or a transaction that did not commit, is rejected without requeue
and no dead-letter exchange is declared (`W/celery_app.py:51-62`): `RejectDelivery`
always discards its delivery. Only the delivery of a process that dies returns.

`DeliveryContract.tla` is what callers may rely on: an event is `absent`, `waiting`,
`handling`, `processed` or `dead`, is started at most `MaxAttempts` times and settled
once. Every start belongs to a claimant that was admitted while the event was due;
nobody is admitted during a delay, but an admission outlives a delay recorded after
it. `Phase` is the refinement mapping and `KeepsContract` the refinement. The
contract promises no delivery: `NoLostEvent` says that an event without a future
(`Lost`) had a delivery discarded, `EventuallySettled` that every other one is
processed or becomes a dead letter.

| run | instance | shows |
|---|---|---|
| `messaging` | 1 event, 1 dispatcher, 2 workers, 3 tokens, budget 2, 2 copies (82,907 states) | `SingleAuthority`, `NoEarlyHandling`, `NoLostEvent`, the refinement `KeepsContract`, `EventuallySettled` |
| `lost_event` | the same with 2 dispatchers and 3 copies | that `AtLeastOnceDelivery` is violated (section 12) |

Why these bounds are enough: rows of different events share nothing but the
dispatcher's batch, whose members are disposed of one by one; one dispatcher can have
its lock expire and its row be reopened by a retry while it publishes, and two workers
give every race of a stale handler against its successor; two copies are a delivery and
its duplicate; a budget of 2 has a first, a last and an exhausted claim. A dispatcher
overtaken by another one, and more copies, are in `lost_event`'s instance and in the
proofs, which show the safety properties for any number of dispatchers, workers and
copies; liveness is checked on the smaller instance.

Fairness: time passes; a dispatcher and a worker that can step do, because the
scheduler polls in a loop and Celery keeps its pool alive; a delivery is received
in the end. `SF` for the dispatcher, as a claim may be disabled again and again by
the lock of a crashed one; `SF` for `Receive`, as the copy may be taken by the
other worker. Faults cease eventually: with a crash after every step nothing
could be promised.

## 4. Durable operations: `DurableOperation`

The variables are the columns of one `durable_operations` row, its outbox events,
the `dead_letter_replays` lifecycle of each, the failures its target aggregate
was told of (`converged`), the workers, and the Inbox holder of each event. The
transport is reduced to the contract above: an event is handled again until a
handler returns or its budget is exhausted (`GiveUp`).

| code | actions |
|---|---|
| `execute`, claim, start, succeed, fail, human wait, entry into reconciliation | `ReadOperation`, `ClaimExecution`, `Start`, `Succeed`, `Fail`, `WaitForHuman`, `RequireReconciliation`, `LateExecution`, and the refusals |
| `reconcile`: claim, confirm, defer, exhaust | `ClaimReconciliation`, `ConfirmSuccess`, `ConfirmFailure`, `DeferReconciliation`, `WaitForHumanAfterReconciliation`, `LateReconciliation`, `Exhaust` |
| replay of a dead letter: prepare, claim, complete | `ApplyReplay`, `ReplayMoot`, `ResumeReplay`, `ClaimReplayWork`, `JoinReplayWork`, `ClaimReplayFailed`, `ReplaySuperseded`, `CompleteReplay`, `PrepareTerminal`, `CompleteTerminal` |
| terminal-failure callback | `Converge`, `RecordConvergence` |
| `OperationRecoveryScanner.recover_once` | `RecoverClaimed`, `RecoverRunning`, `ScanReadyRetry`, `ScanReconciliation` |
| operators | `Replay`, `Cancel`, `CompleteHumanWait` |
| faults | `WorkerCrash`, `HandlerFails`, `Overtake`, `GiveUp`, the deadlines |

Abstractions. The version is compared only for equality with the one a worker
read, so a worker keeps whether what it read is still current. Instants are kept
as their relation to now. A lease token is the counter its claim increments. What
an executor or a provider query returns is any result its type admits.

| run | instance | shows |
|---|---|---|
| `operation` | 2 workers, `max_attempts` of 1 or 2, 2 queries, 4 events, 1 fault | `NoBlindReexecution`, `ExecutorOwnsRow`, `RowRecoverable`, `FailedHasDeadLetter`, `OneGeneration`, `ReplayBudget` |

Why these bounds are enough: a race needs a stale worker and its successor; with
a budget of 2 there is a retry that is not the last, and with 1 a failure that is
final at once; four events are the first event, a recovery event, a replay and a
terminal failure, so that the failure and its callback can both be replayed and
overtake each other. The constraint `LastEvent` reserves the fourth event for the
behaviours in which the callback of a terminal failure is replayed. No fairness is assumed, and deadlock is not checked because a
settled operation with its events spent stops.

## 5. The tool node: `ToolNode`

The `execute_tool` node is the one that makes an external call. The variables are
the workflow (`wf`, from approved to done with the node), `resumed` (the human
step of the approval), the `workflow_steps` row with its lease, the status of the
`workflow_attempts` row, the unsettled events of the workflow, the workers, and
`lost` (a call whose caller is gone) and `faults` (how many there were, and whether
one hit the last attempt of the step).

| code | actions |
|---|---|
| `process_event`, run and resume of the graph | `Deliver`, `Resume`, `Return`, `Absorb`, `Publish`, `Overtake` |
| `DurableNodeLifecycle` | `BeginNode`, `BeginAttempt`, `CompleteAttempt`, `CompleteNode`, `FailNode` |
| tool gateway | `ToolReturns` |
| `RecoveryService.recover_once` | `RecoverExpiredLease`, `RecoverStaleWorkflow` |
| `WorkflowApplicationService.cancel` | `Cancel` |
| faults | `WorkerCrash`, `LeaseExpires` under a slow worker, `Overtake`, `TransactionFails` |

`attempt_count` is compared only with `max_attempts`, so one value stands for all
larger counts and needs no bound. A slot of a settled event is reused. A retry
event may be published at any time; the step's `due` guards the claim, as it does
in the code. The stale-workflow scan leaves one slot free, so that the bound on
slots never disables a worker.

| run | instance | shows |
|---|---|---|
| `node` | 2 workers, 3 slots, 2 attempts, 1 fault of any kind | `OneCall`, `WorkflowFollowsStep`, `NodeSettles` |

Two workers are a stale one and its successor; three slots hold an approval, a
retry and a recovery event at once; two attempts give a retry and an exhausted
step; the instance has 141,378 states. `NodeSettles` promises nothing for a call whose
worker died (nobody can tell its outcome), nor for a step that `recover_once` made
RETRYABLE_FAILED after a fault of its last attempt (section 12). A fault of an earlier
attempt excuses nothing: the event that follows it has to settle the node, whichever of
the racing ones it is.

Fairness: workers that can step do; a stored event is published (`WF`) and, if it
keeps being deliverable, delivered (`SF`); both scans of `recover_once` run again
and again and a batch reaches the row in the end (`SF`, since a worker may disable
them in between); the clock runs. Nothing obliges a user to cancel or a fault to
happen.

## 6. Assets: `AssetLifecycle`, `UploadSession`, `VectorIndex`

**`AssetLifecycle`** follows one asset after its upload: the asset row, the two
object rows, the evidence of each validation attempt, the validation operation,
the deletion operation, and, external, the object storage. Transactions lock the
asset row first, so each is one step; calls of the storage happen between them.

| code | actions |
|---|---|
| validation executor | `Load`, `BeginValidation`, `Download`, `RunStage`, `ReuseResult`, `MarkPendingReview`, `Reject`, `CleanupRejected` |
| promotion | `StatDestination`, `CopyIfAbsent`, `DeleteSource`, `PersistVerified`, `ReconcileDestination` |
| retention inside the executor | `MarkCleanupPending`, `DiscardDestination`, `DiscardSource`, `ExpireRetention` |
| the operation around it | `Claim`, `Settle`, `Crash`, `LeaseExpires`, `Reconcile`, `TerminalFailure`, `Replay` |
| `AssetRightsApplicationService` and its scans | `Grant`, `Revoke`, `AdministratorBlock`, `ActivateRights`, `ExpireRights` |
| deletion | `RequestAdministratorDeletion`, `ExpireDue`, `PrepareDeletion`, `DeleteQuarantined`, `DeleteControlled`, `DeletionFails`, `CompleteDeletion` |
| external, the client | `LatePut` |

A stage returns what its checks can return (`RunLocal`, `RunMalware`,
`RunContentSafety`, `RunProvenance`), a missing reference is either retried or
terminal (`ReferenceRefused`). The verdict NOT_APPLICABLE of assets that are no
images counts as PASS. Vectors, search documents and provider artifacts are left
to the other modules. The retention deletes the copies version by version until a scan
finds none, then the upload, and the storage may fail before each
(`asset_promotion.py:112-130`); the deletion removes what its rows name, one object
after the other. The presigned URL outlives the upload: whenever the quarantine is
empty its holder may put the same content again, during and after the retention or the
deletion, and a conditional delete that looked earlier misses that object
(`AfterDelete`). `DeletedHasNoObjects` speaks of the validated upload and the recorded
version; section 12 says what it cannot promise.

**`UploadSession`** follows one session: its row, the answers stored under its
clients' keys, the object in quarantine with its version, the assets created, and
the cleanup operation. A finalize request is three transactions with a stat and a
read between them (`ClaimLease`, `Stat`, `Read`, `Commit`, `Release`, `Reject`);
`RequestDies` may end it anywhere. `Put` uses the presigned URL as long as it is
valid, after the session's end too, and a transfer that began in time may land until
the reconciliation window is over. The cleanup is an operation of `MaxPasses` attempts:
a pass deletes what is stored (`Cleanup`) and only then reads the clock and decides
(`Decide`) whether the window is over, the next pass waits an interval (`WindowAges`),
or no attempt is left; it may fail with or without having deleted (`CleanupFails`), or
lose its worker before it decides (`PassIsLost`), and is then tried again or given up,
which is a choice, since the retry's delay and the operation's deadline are not kept.
`AbandonedIsCleaned` promises an empty quarantine but for two ends the code has:
`GaveUp` (a pass failed and the attempts ran out) and `Slipped` (an object arrived
between the last deletion and its decision). That failures are needed to give up is the
settings' doing: they demand more attempts than the window has intervals
(`UploadAssumption`, `config.py:1129-1168`). A worker that lost its lease and deletes
late is left out: it could only remove more. Fairness (for `AbandonedIsCleaned` only):
the scheduler's expiry scan and the worker's cleanup run again and again and the clock
runs; no client is obliged to do anything.

**`VectorIndex`** follows the embedding records of one asset, their search
documents, operations and events, and the vectors of Milvus. `Step(w)` is the
executor: the check of eligibility on rows it does not lock (`Authorize`), the claim
under the locks of collection, operation and record (`Claim`), which compares state and
generation with what was checked but does not check again (`indexing.py:919-924,
1170-1178`), the provider's answer (`Answers`, `Wire`, `Concluded` say what the
adapter makes of each), `RecordProviderResult`, `Upsert`, `Commit`. Around it are
the requests (`RequestIndex`, `RemoveIndex`, `RequestNotApplicable`), the exact
deletion of one generation (`DeleteStep`, `DeleteAgain`), reconciliation, replay,
and the deletion of the asset. A removal committed between check and claim leaves a
PROCESSING record over a STALE or DELETE_PENDING document: `over` marks that attempt, and
`DocumentAgrees` says that its document stays removed until the attempt ends, and that
every other document follows its record.

| run | instance | shows |
|---|---|---|
| `asset_lifecycle` | 2 workers, both retention classes, 2 stages, 2 attempts, 2 versions of the copy, 1 rights record, 1 fault (3,752,262 states) | `ValidatedBeforeUse`, `ControlledContentKept`, `DeletedHasNoObjects` |
| `upload_session` | 2 requests, 2 keys, 3 puts, a window of 1 interval, 3 passes (724,546 states) | `OneAsset`, `AbandonedIsCleaned` |
| `vector_index` | 2 workers, 2 records, 2 operations, 2 generations, 1 replay, 1 fault, 2 changes (3,179,718 states) | `IndexedHasVector`, `RemovedStaysHidden`, `DocumentAgrees` |

Two workers are an overtaken executor and its successor. Two stages are one that
judges the bytes and one that needs an external verdict and a reference; two versions
are the recorded copy and the loser's. The constraint `RightsRunOut` follows an
asset into its deletion only with rights that have ended or none: nobody reads them there,
and their phase may pass in any earlier state, so nothing else is left out. Three puts
replace the object before, between and after the stat and the read, or arrive after the
end, within a pass and after it; three passes are one within the window, one that fails
and one after it. Two generations
are the one a late worker still writes and the current one.

## 7. Image generation: `Generation`

The variables are the batches and slots of two directions, their operations and
dispatches, the results in the object store, the candidates, the continuation
events and, external, what the provider was paid for.

| code | actions |
|---|---|
| the start command with its key | `StartOnce`, `StartExisting`, `CreateBatch`, `ConvergeLogicalWinner`, `StartRefused` |
| executor and dispatch fence | `Take`, `Prepare`, `Claim`, `ClaimUnknown`, `AdapterUnavailable`, `Submit`, `SubmitLost`, `RecordOutcome`, `RecordUnknown`, `Finish` |
| adapters | `Wire` (what arrives), `Kuaipao` and `Wan` (what each concludes) |
| publication | `Publish`, `Commit` and their unknown and refused outcomes |
| the operation around it | `Recover`, `ReconciliationDisabled`, `Replay`, `Crash` |
| continuation | `Continue`, `Evaluate`, `SettleReady`, `DecideResults`, `Close` |
| authority | `ChangeRights`, `Observe` |

`generation` (2 workers, 2 keys, directions of 2 and 1 candidates, a synchronous and
an asynchronous route, 2 attempts, 1 replay, 1 fault, 1 change; 972,671 states)
shows `PaidOnce`, `CandidateIsWhole`, `ReadyNotLost`: a paid call can be lost, late
or refused on either adapter, its worker overtaken, and the last two candidates of
a batch commit in any order. `ADR-009-candidate-slot-durable-operation.md:29` is
the document that `PaidOnce` states.

## 8. The record services: `Records`

`Idempotency` is the transaction all of them share: it claims a key, locks rows one
statement after the other under READ COMMITTED, keeps what it read when it locked
them (`view`), and commits rows and key together. `Owing` is the next row a
transaction asks for. A service adds its rows, what each command locks, and
what it decides. `Records` chooses one service at the beginning: they share the
key table only, whose scopes differ by service.

| module | commands and actions |
|---|---|
| `Catalog` | `CreateProduct`, `UpdateProduct`, `DeleteProduct`, the same for SKUs, with their external identities |
| `PromptRegistry` | `CreateRevision`, `SubmitForReview`, `Stage`, `Publish`, `SelectProduction`, `Deprecate` |
| `BrandProfiles` | `CreateProfile`, `UpdateDraft`, `PublishProfile`; the handlers `InvalidateAsset` and `InvalidateDeletion`; external, the members' rights (`AssetNext`) |
| `ControlPlane` | `RegisterProvider`, discovery candidates, publication and rollback of capabilities and policies, observations, `Route` |
| `CollectionRebuild` | `RequestRebuild`; the runner's provisioning, three batch phases, validation and retirement; the administrator's `RequestValidation`, `ReplayLateFacts`, `Activate`; external, the records (`IndexEmbedding`, `RevokeEmbedding`, ...) |
| `Retrieval` | one query in its statements, its run, the exchange of a preview token, against changing authority and a switch |

`records` (2 clients and keys, up to 3 commands of a service, 2 assets, 3 providers
of which one is unregistered, one rebuild of 2 records with 1 fact and 1 fault, 2
changes of authority of one of two versions; 747,396 states) shows `OnceEach`, `NoDeadlock`,
`SnapshotKept`, `PointerIsProduction`, `ActiveIsLive`,
`NothingUnauthorised`, `HonestHybrid`, `RouteIsCurrent`. Two transactions at a time
give every two-sided race; a batch of one record leaves a rebuild between two
batches; three eligible versions, two to a chunk, leave a query between two chunks, where
a switch may fall.

Abstractions. Time in a rebuild is the number of facts recorded, and watermarks are
such numbers: two facts of one microsecond, and commits that become visible late,
are not told apart. A rebuild transaction locks the rebuild row first and is one
step. The rebuild's retirement delay is the arrival of its RETIRE command; the
recall check is one bit; indexing and removal are one step each, with one record
per asset. Time in retrieval is the number of changes of authority; scores are
left out, a ranking is a set.

The worker's handler is part of the model as it is deployed: `Take` removes a command
whose trace is not its operation's id (`Routable`) as a dead letter. That is every
command of the control plane, so a rebuild makes no progress at all that way, which
`rebuild_stuck` shows from the start: the request commits, its first command is refused,
nothing is left. `SnapshotKept`, and `HonestHybrid` across a switch, would hold for no
better reason than that; with `Driven` the `records` run lets the runner be given such a
command itself (`Drive`), as the integration test
`test_collection_rebuild_mysql_milvus.py` does, so they say what the runner guarantees
once its commands reach it.

`HonestHybrid` is not promised to a `torn` query, one that a switch overtook between two
chunks of its rows: the rows of the rest are no longer found in the collection it reads
and are not missed (section 12).

## 9. Product briefs: `ProductBrief`, `VisionAnalysis`

`ProductBrief` has the workflow, the brief with its versions, its operations and
the reviewers' commands (`RequestAnalysis`, `Revise`, `Confirm`, `CancelWorkflow`,
expiry). `VisionAnalysis` adds the ledger: submission intents, recorded calls,
artifacts, and, external, the object store and what was submitted. An executor
stores the request's bytes, records an intent, submits, stores the answer, records
the call, and publishes; whoever finds an attempt of another worker judges it from
the ledger (`Decision`, inspection of the artifacts).

`vision_analysis` (2 workers, 2 operations, 2 versions, 2 attempts, 1 repair, 2
faults; 311,825 states) shows `NoBlindResubmission`, `SubmissionKeepsWorkflow`,
`LedgerSound`, `StatesAgree`. Two operations are the analysis of a version and the
one that supersedes it; two attempts are one that is lost and the one that follows;
one repair is a malformed answer and its repetition. `ShortLease` is the refusal of
`_assert_submission_lease`, which asks for the reserve not only before a submission but
again before the answer is stored and before a malformed one is recorded
(`A/product_briefs.py:2159`, `2321`, `2532-2551`); it may strike at each, the refusal is
retryable, and `dropped` remembers the answers given up that way. `NoBlindResubmission`
allows such a resubmission and no other: what was paid is then known to be paid. The product catalog's version check and storage conflicts are folded
away, a lost PUT does not land later, and an inspection looks at all artifacts of
an attempt in one step.

## 10. Planning: `Planning`

From the confirmed brief to the approved plan: the nodes `retrieve_references`,
`create_plan` and `approve_plan` with their steps, the checkpoints of each
generation, the plan versions and their head, approvals, edits, the events that
start or resume the graph, and the recovery scan. A run of the graph is one
worker's handling of one event it has claimed in the Inbox (`Receive`), and ends by
marking that event processed, dead or to be tried again (`Finish`), if the claim is
still its own; an error of the graph is dropped when the workflow is over or another
run was asked for (`JudgeError`). The graph hands a checkpoint to its saver after
each node; the saver puts them in order and a crash loses what is not put. The
checkpoint that is read is the one made last, whoever put it.

`planning` (2 workers, 2 operations, versions and generations, 1 rejected
iteration, 1 setback, 1 recovery, 2 deliveries, 2 claims of a step, 1 fault, 1
checkpoint its saver has still to put while a run goes on; 1,579,911 states) shows `PlanFollowsBrief` and `ExecutedIsApproved`. A setback is a
brief revised, a plan edited or a plan rejected; two generations are the one
overtaken and its successor; two deliveries and two claims are the first and its
retry, so that the last of each is reached; the checkpoint a crash loses is the
last one that was made. Without the bound on what a saver still has to put the
instance has 3,196,504 states and shows the same.
Abstractions: an event that is over is processed or dead; the end of the handler puts what its saver still has in one step;
whether an event that asks for no run has been published is not seen by anybody, so
it can be claimed at once; the recovery scan takes its rows one at a time; the
policy of the tools is a choice of its verdict; `revise_plan` (the node) is part of
the decision; prompt resolution and drafting are part of the append; the planner
asks for no brand profile and no citations; the model ends with `execute_tool`'s
claim, where `ToolNode` and `Generation` go on.

## 11. Proofs

The proof modules hold for any number of events, workers, clients, slots and
attempts. The assumptions are those the modules name (`MessagingAssumption`,
`OperationAssumption`, `NodeAssumption`, ...): positive budgets, finite or disjoint
sets, null values that are no real values. In each module an inductive invariant
is proved of the initial states and of every action, first as a lemma per action or
per shape of step, and the properties follow from it.

**`MessagingProofs`.** `SafetyInv` is inductive: types, the shape of a worker
(`WorkerShape`), `DistinctLeases`, `DeadLetterMatchesInbox`, `DueRows`.
`DistinctLeases` is needed because `SingleAuthority` alone does not survive a
claim: the fresh token must differ from what stale workers remember. `DueRows`
(a published or locked row is due) carries `NoEarlyHandling` over a dispatcher
that records a publication after the retry was scheduled. Theorems:
`SafetyInvariant`, `Authority`, `DeadLettersAgree`, `SettledStays`,
`NoHandlerBeforeDue` and `TransportKeepsContract` (the refinement), which need in
addition that a worker between look and claim saw the event due or was overtaken since
(`LookedBeforeDelay`), and `NothingLost`, from `DeliveryInv`, which adds
`ConfirmedIsCarried`: a published event that is not settled is in the queue, in a
worker's hands, or had a delivery discarded. Nothing is assumed of the broker but that
the delivery of a dead process returns.

**`DurableOperationProofs`.** Every transaction is shown to be one of a few
shapes: a change of the row, of the events, of one worker. `OperationInv` is kept
by each shape. The strengthening is there for one step: a replay reopens a failed
operation for execution or for reconciliation according to the reason in its
event, so `NoBlindReexecution` needs that the letter is the one of the last failure
(`FailedHasDeadLetter`), that its reason says whether the outcome was unknown
(`ReasonRemembers`), and that a confirmed success never failed
(`SuccessIsFinal`). Theorems: `OperationInvariant`, `NeverReexecutedBlindly`,
`AlwaysRecoverable`, `FailuresHaveLetters`, `VersionIsAuthority`, `TerminalStays`.
`GenerationsInOrder` proves `OneGeneration`: a generation is emitted only by a step
that finds the one before consumed, so the events that carry them are in order and
one at most is outstanding. `ReplaysBuyOneEach` proves `ReplayBudget`: a replay
that reopens a row uses up the failure its letter names, so attempts never exceed
the initial budget by more than the replays that took effect.

**`ToolNodeProofs`.** `NodeInv` is the types, `StepInv` (`WorkflowFollowsStep` and
the shape of the lease) and `CallInv` (`OneCall`, and that a worker which fails
without an open call has seen the attempt `SUCCEEDED`; without it `fail_node`
could be thought to discard a recorded result). Theorems: `NodeTypes`,
`NeverCalledTwice`, `RowsAgree`, `SettledForGood`.

**`UploadSessionProofs`.** `OneAsset` is not inductive: a commit creates an asset
from what its request read some steps earlier. `UploadInv` adds `VerifiedObjectStays`
(the object a committing request has verified is the one in quarantine as long as
no cleanup is allowed) and `CleanupFollowsEnd` (a cleanup exists only once the
session has ended without an asset). Theorems: `UploadInvariant`,
`SessionYieldsOneAsset`, and `RowsFit`, that the rows satisfy the CHECK constraints
of their tables, for which `LeaseFits` is added.

**`GenerationProofs`.** An operation may be attempted again only while its slot is
`Free`: nothing of it is paid and nobody is busy on it. A busy executor holds the
latest attempt alone (`OneExecutor`); nothing is paid before the slot was submitted
(`UnpaidUntilSubmitted`); results are stored before they are committed
(`StoredBeforeCommit`); attempts stay within the budget. The executor's steps before
the commit share one lemma (`ExecutorMove`), those of the operation alone another
(`SlotChange`). Theorems: `GenerationInvariant`, `PaidAtMostOnce`,
`CandidatesAreWhole`, `ReadyKept`.

**`VisionAnalysisProofs`.** One worker executes an attempt; when its lease has ended
the attempt is only inspected and never runs again; the ledger of an attempt decides
its operation the same whoever reads it; an operation settled for a retry has an
outcome for every submission. Steps that leave the ledger alone (settling, crashes,
ended leases, replays, reviewers, cancellation) share the lemma `Quiet`, executor
steps `ExecutorMove`, claims and inspections have theirs. `NoBlindResubmission` then
follows from the invariant: only `SendRequest` submits, and an earlier submission
that still counts is of the same attempt (whose malformed calls this executor
recorded itself), of an earlier attempt (resolved, or there were no retry), or of a
later one (then this executor's own attempt would be resolved). An answer
given up for a short lease counts as resolved, and its attempt is executed by nobody
any more (`DroppedIsOver`). Theorems: `VisionInvariant`, `LedgerIsSound`,
`StatesTellOneStory`, `SubmissionKept`, `NoBlind`; none assumes anything of the lease.
**`AssetLifecycleProofs`.** An executor goes on for several steps with what it has
seen, while others overtake it. `Forward` says why that is safe: what it holds on to
only grows (the stages passed, the upload gone, the deadline over, the row of the
controlled object). A worker that does not move keeps its invariant over every
`Forward` step, so each action has its own worker and `Forward` to show.
`ValidatedBeforeUse` needs that the stages an executor has behind it are recorded
(`StagesInOrder`), and that a grant on an asset never promoted finds it blocked for
good (`RightsFollowPromotion`); `ControlledContentKept` that a copy without a row
stays until the deadline, and that the loser of two promotions holds another version
(`CopyKept`), and that a running deletion has marked what it deletes
(`TargetsMarked`); `DeletedHasNoObjects` that whoever is about to record an object as
gone has seen it go, object by object and version by version (`RowsFollowStore`,
`SeenGone`), and that no version is given twice (`VersionsIssued`). `asset_lifecycle`'s instance
satisfies `AssetInv`. Theorems: `AssetInvariant`, `AssetTypes`, `UsableIsValidated`,
`ContentIsKept`, `DeletedIsGone`.

**`RecordsProofs`.** All services share `TxInv`: a row belongs to one transaction, and
what an open command knows of its key is so until it ends; `OnceEach` follows
(`CommandsTakeEffectOnce`). Each command of each service is shown to be one of five
shapes (`TxStep`), so this part is proved once. `NoDeadlock` follows from an order of
the rows (`Rank`: profile, assets by id, key, then the rows the key guards) in which
whatever a command still needs is above all it holds (`RowsAreTakenInOrder`); the
publication of a profile is the hard case, since it learns its list of assets from
the first row. `RegistryInv` and `AuthorityInv` say what an open command may rely on:
a row it has locked is as it was read, since whoever writes it would hold it too.
From them follow `ProductionIsResolved` and `RoutesAreCurrent`. `BrandInv` carries
`ActiveIsLive`: a handler has the active profiles of its asset under lock, and a
profile published after it looked is live or is found out by a later event. Events of
one asset are ordered by version, which is what keeps two handlers at once from
consuming each other's witness. `RightsInv` carries `NothingUnauthorised`
(`RetrievalIsAuthorised`): the moments recorded only grow and the last is the
present, so a version that is eligible now is authorised in a moment that stays
recorded, and the question was asked in it or before; the versions a query carries
from statement to statement stay versions, whatever its channels add, and a rebuild
beside it changes none of them. `PromptAssumption` says that the null value is neither a revision nor a pointer.

## 12. Findings and observations

Two statements of the repository are refuted by runs.

`rebuild_stuck` shows that the worker's handler refuses the first command of every
requested rebuild, because it wants the operation's id as trace id and the request
stored another (`W/runtime.py:1567`; `docs/runbooks/collection-rebuild.md:22` says that
the worker creates the candidate and fills it). The trace is the whole story: the
request commits, its command is refused, and the rebuild stays REQUESTED.

`lost_event` shows that an event can be lost: a worker dies, its delivery returns while its
Inbox lease is still live, the task raises a lease conflict, and the broker rejects it
without requeue (`W/celery_app.py:51-62`). The Outbox row is published, no copy is left
and no dead letter tells an operator, where `W/celery_app.py:1` speaks of "reliable
at-least-once delivery" and
`docs/04-engineering/reliability-security-and-governance.md:75` expects the transport to
redeliver what raises. `NoLostEvent` and `EventuallySettled` say how far the promise
does reach.

The following were met while modelling, or found by TLC on instances that are not
kept as runs. They are notes for the team, not results of this project.

Operations and nodes. A replay is completed without its callback by a late confirmed
result (`A/operations.py:1060`). An outstanding generation suppresses the
TERMINAL_FAILURE event (`A/operation_recovery.py:68`). `exhaust_reconciliation`
does not read the budget again (`A/operations.py:587`). `claim_recoverable` skips
operations with unpublished recovery events (`P/operations.py:214`). A late executor
that saves its request id takes the authority the comment at
`D/operations/entities.py:917` leaves with the reconciler (`:798`). A worker killed
during the tool call leaves an attempt without a legal transition
(`A/execution.py:1242`; `docs/06-roadmap/implementation-roadmap.md:67`). The tool is
still called after a cancellation between `begin_node` and `begin_attempt`
(`:1224`). A database error inside the node's try is final
(`G/graph.py:805`; `docs/01-architecture/workflow-state-machine.md:105`). A fault
that uses the last attempt leaves the workflow in GENERATING.

Transport. A retry, or a failed publication, that commits between a worker's read of
`available_at` and its claim is overtaken: the handler starts during the delay
(`A/reliability.py:136-139`;
`docs/04-engineering/reliability-security-and-governance.md:62-76`).

Assets. A replaced rights record revives an asset whose deletion is prepared
(`D/assets/entities.py:836`; `CONTEXT.md:36`). The deletion of an asset with vectors
names them by the bare record id and fails (`A`/`P/asset_deletion_cleanup.py:616`).
An overtaken worker whose stat of the destination comes late finds the source gone
and blocks the asset (`docs/runbooks/asset-validation.md:217`). A crash after the
copy and an administrator's deletion leave an orphan copy. A block on an expired
asset under deletion makes the deletion fail. Rights granted for a period already
over give RIGHTS_EXPIRED with no deletion. PENDING_REVIEW has no resolver. After
FINALIZED a valid URL can recreate the quarantined object, for which no cleanup is
scheduled: also after the asset is DELETED, since the deletion names only rows that are
not (`asset_deletion_cleanup.py:228-239`), and a copy no row ever named stays for the
same reason. An object put between the deletion of an upload's last cleanup pass and its
reading of the clock stays under CONFIRMED_SUCCESS
(`W/asset_cleanup.py:52-63`).

Indexing. Eligibility is read without locks and not read again under them
(`P/indexing.py:919-924`): a claim may leave PROCESSING over a document that was removed
in between, and its provider call is made for an asset already withdrawn. A worker past `record_provider_result` may write after its generation's
deletion: an orphan vector. A superseded operation whose request comes later stays
PENDING. A crash between the operation's claim and `claim_for_submission` reconciles
to a permanent failure. An execution replay of a failed PRODUCT_FUSED record is
always refused.

Generation. The Wan adapter always ends in UNKNOWN; the adapters' query and cancel
are called by nothing. When batches of two directions run on one workflow version,
the first complete one moves the workflow on and the other's paid image is refused
at its commit. One permanently failed slot leaves the workflow in GENERATING. A
renewed rights grant denies the remaining slots for good. Each slot's dispatch asks
quota for the whole batch.

Records. The router reads `now` before its locks (OBSERVATION_STALE) and locks heads
and providers in one joined statement whose order the database chooses, so
`NoDeadlock` leaves it out. `resolve_production` reads pointer and revision in two
statements. The second of two first publications of a prompt fails on insert.
`set_enabled`, `archive` and `next_fallback` are called by nothing.

Rebuild and retrieval. Facts between `replay_watermark` and `validation_watermark` are
neither replayed nor counted as late, so a record indexed then is lost with the
source, and a revocation then leaves a vector
(`docs/runbooks/collection-rebuild.md:24`). `commit_work_batch` does not ask whether
the batch belongs to the phase. `_retire` drops the source before
`complete_retirement` asks for `retire_after`. The index executor always writes to
the first collection's name. `commit_indexed` and `activate` lock collection and
embeddings in opposite orders. A switch between two chunks of a query's rows
leaves it to search a part and call itself complete, where
`docs/02-data/memory-and-retrieval.md:140-141` promises that no channel is silently
empty. A retained run outlives a deleted
asset. A query that reads the pointer before and the collection after a switch
raises instead of degrading. The lexical text is bounded by 1024 bytes, the contract
by 4096. `result_limit` may cut a required brand member.

Briefs and planning. With a lease shorter than an answer and the reserve (default
300 s; `config.py:1450` admits 70 s) the answer of a request is refused, or the record of
a malformed one, and the request is sent again (`A/product_briefs.py:2544`), which
`docs/runbooks/product-brief.md:394-396` and `415-418` rule out. A failed analysis
leaves the brief in DRAFT and refuses a new request. `reconcile_batch` is called by
nothing. A decision between `complete_node(create_plan)` and the checkpoint's put
finds no checkpoint and becomes a dead letter (`G/graph.py:1367`;
`docs/00-product/user-workflows.md:129`). Recovery after a lost resume interrupts
again and stays until a cancellation. An overtaken retrieval worker goes on in its
generation, and two generations match a resume. `planning_write` has no source check,
so an edit during `create_plan` makes the planner fail the workflow.

## 13. What is only model-checked, and what is left out

Only checked by TLC: the liveness properties `EventuallySettled`, `NodeSettles` and
`AbandonedIsCleaned`, since the prover handles neither fairness nor ENABLED; the
properties of `VectorIndex` and `Planning`, and of `Records` the properties
`SnapshotKept` and `HonestHybrid`, whose inductive invariants are the
next part of the plan.
`PlanningTypes`, `BriefTypes` and `RecordTypes` were checked as invariants and are the
typing part of those proofs.

Left out of the modelled components: listings, telemetry, error texts, descriptive
fields, scores; the nodes of the graph without rows of their own; the ProductBrief
generations of `ToolNode`'s workflow, which `Planning` has; `reconcile_only` replays of
an analysis, which `DurableOperation` has; the expiry of idempotency records after
30 days.

Not modelled: the event stream and its cursors; the scheduler's loop that isolates
one task's failure; and for good the web application, HTTP and MCP mapping, provider
adapters, object storage, evaluation, observability and configuration, which keep no
protocol state.

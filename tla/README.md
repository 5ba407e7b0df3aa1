# A TLA+ model of ShadowOps

ShadowOps audits the database migrations of a repository: an audit run takes a
snapshot of the repository, finds its Alembic revision graph, analyses it,
plans, provisions a shadow PostgreSQL in Docker, applies the migrations there,
checks, rolls back, collects evidence and reports. The run survives dead
workers, lost messages and late cancellations because PostgreSQL holds the
truth and everything else is redelivered, fenced and compared before it writes.
That protocol is what these modules model, check with TLC and prove with TLAPS.

Paths below are relative to `src/src/shadowops/` unless they start with `src/`.

## 1. Inventory

| Component | State it keeps | Operations | Properties that make it correct | Model |
|---|---|---|---|---|
| Run aggregate (`domain/runs.py`) | state, version, cancel_requested_at | transition, request_cancel | the history grows by allowed edges only; a terminal state is the last | `RunStates`, `RunLifecycle` |
| Run execution service (`application/run_execution.py`, `worker/tasks.py`, run/step/outbox repositories) | run row, step rows, outbox rows | claim, heartbeat, get_run_for_claim, finalize, fail | one producer per version, one event per version, one owner per step, a superseded owner writes nothing | `RunExecution` |
| Run service (`application/runs.py`, `api/routes/runs.py`) | run row, outbox row | create (idempotent), get, cancel | one run per idempotency key, and answers that agree; cancellation is honoured | create in `RunCreation`, cancel in `RunExecution` |
| Outbox dispatcher (`worker/outbox.py`) | published_at, publish_attempts, available_at | dispatch_batch | every unpublished event is sent at least once | `RunExecution` |
| Reconciler (`worker/reconciler.py`) | the same rows | reconcile_batch | a run does not stay stuck; a live owner is left alone | `RunExecution` |
| Timeline and event stream (`application/run_timeline.py`, `api/routes/run_events.py`) | cursor of a connection | get, stream_events | each version once and in order, to the end | `RunTimeline` |
| Celery application (`worker/celery_app.py`, `worker/runtime.py`) | messages in Redis | publish, deliver, redeliver, periodic tasks | - | `broker` and the fairness of `RunExecution` |
| Sandbox manager (`sandbox/docker_manager.py`) | environment row, execution rows, labelled Docker resources | provision, execute, finalize_run, sweep_expired | a stage is left only with its stored result; a runner meets its environment's database only; what was cleaned stays gone | `ShadowSandbox` |
| Dynamic audit stages (`application/dynamic_audit.py`) | - | one handler per stage | an environment is released when a stage fails | `ShadowSandbox` |
| Runner (`src/runner/src/shadowops_runner/`) | the shadow database | upgrade to baseline, apply target, load test data, smoke checks, rollback roundtrip | an upgrade stopped half way converges; coverage is not overstated; the roundtrip's verdict says what happened | `Runner` |
| Evidence (`evidence/`, `worker/tasks.py`) | item rows, artifact files named by their hash | collect, put | a row never refers to an artifact that is not whole; a completed run has each item once; collecting again converges | `Evidence` |
| Revision graph (`repository/alembic.py`) | - | discover, build graph | a supported graph is one linear history with contiguous changes above the baseline | `RevisionGraph` |
| Plan validator (`agent/validator.py`, `agent/catalog.py`) | - | validate | an accepted plan can only be executed in the catalog's order | `PlanValidator` |
| Snapshot and git (`repository/snapshot.py`, `git.py`) | artifact directories named by their hash | select, copy, verify, publish | the stored snapshot is a published artifact and never changes; mixed content is not published (violated: finding 6) | `StageResults` |
| Rule engine (`rules/engine.py`, `rules/service.py`) | - | analyze, evaluate | the risk is the severity of the first finding and is justified by a changed revision or by the graph | `StaticRules` |
| Audit planning agent (`agent/runtime.py`, `gateway.py`) | invocation row, plan row | plan, with one repair; save_result | invocation and plan belong together; the stage ends as the two answers say | `AgentPlanning` |
| Discovery, static analysis and planning stages (`application/discovery.py`, `static_analysis.py`, `planning.py`) | one snapshot, graph, report and plan row per run | one handler per stage | all results of a run belong to its one snapshot; repeated executions converge | `StageResults` |
| API wiring, CLI, configuration, health, logging | - | - | - | not modelled: no protocol |

How they interact. The API writes the run and its first event in one
transaction. The dispatcher sends the identifiers of unpublished events to
Redis. A Celery worker that receives one claims a step, executes the stage with
heartbeats as checkpoints, and finalizes: step row, run row and next event in
one transaction. Cancellation sets a field of the run and wakes the event. The
reconciler looks for published events whose run has not moved and that no live
step protects; it reopens them or fails the run. The timeline reads the
finished step rows as the history of the run.

What is hard. Workers, API, dispatcher and reconciler interleave between any
two transactions; a message may arrive twice, late, or never; a worker may die
or pause anywhere, its lease may run out under it, and another worker may hold
its step when it wakes up. `PROJECT.json` lists each of these at its line,
with the properties that would catch it going wrong.

## 2. Modules

| Module | What it models |
|---|---|
| `RunStates` | `RunState`, `MAIN_STATE_PATH`, `TERMINAL_STATES`, the edges of `transition` |
| `RunLifecycle` | abstract specification: the history of a run and its allowed edges |
| `StageDelivery` | abstract specification: what the handlers of the stages may rely on, and what they must expect |
| `RunExecution` | the reliable-run core for one run: rows, workers, API, dispatcher, reconciler, Redis |
| `RunTimeline` | the event stream over `RunLifecycle`, with a client that reconnects |
| `ShadowSandbox` | the shadow environment of a run: Docker resources, their rows, the stage handlers, the sweeper |
| `StageResults` | the stages before the sandbox: the snapshot of a tree that is being edited, and the results derived from it |
| `RunCreation` | creating runs under idempotency keys |
| `RevisionGraph` | the revision files of a snapshot, and the graph built from them |
| `PlanValidator` | which proposed plans are accepted |
| `DepthFirst` | the search for a cycle that `RevisionGraph` and `PlanValidator` share |
| `AgentPlanning` | the planning stage from the inside: two answers of the provider, the invocation, the plan |
| `StaticRules` | the findings of the content rules and of the graph, their order and the risk |
| `Runner` | the five actions of the runner on the shadow database, and their repetition |
| `Evidence` | execution rows, artifacts and item rows of a run, and every place that collects them or does not |
| `RunExecutionProofs` | the inductive invariant of `RunExecution`, its safety theorems, and that it implements `RunLifecycle` and `StageDelivery` |
| `ShadowSandboxProofs` | the inductive invariant of `ShadowSandbox`, its safety theorems, and that it implements `StageDelivery` |
| `StageResultsProofs` | the inductive invariant of `StageResults`, its safety theorems, and that it implements `StageDelivery` |
| `OutcomeProofs` | the inductive invariants of `RunTimeline` and `Evidence`, their safety theorems, and that `Evidence` implements `StageDelivery` |
| `RunnerProofs` | the inductive invariant of `Runner`, and its safety theorems |
| `ReportAndPlanProofs` | the inductive invariants of `AgentPlanning` and `StaticRules`, their safety theorems, and that `AgentPlanning` implements `StageDelivery` |
| `AdmissionProofs` | the inductive invariants of `RunCreation`, `RevisionGraph` and `PlanValidator` and their safety theorems, with what `DepthFirst` computes |
| `Intervals` | lemmas for `AdmissionProofs` and `RunnerProofs`: induction, recursive functions and counting over an interval of numbers |
| `MCRunExecution`, `MCShadowSandbox`, `MCEvidence` | instances of one module for TLC |
| `MCRunToEnd` | one instance for how a run comes to its end, `RunExecution` with fairness, and how that end comes to a client, `RunTimeline` |
| `MCStages` | one instance for `StageResults`, `AgentPlanning`, `StaticRules` and `Runner` |
| `MCBeginAndEnd` | one instance for what a run begins with, `RunCreation`, `RevisionGraph` and `PlanValidator`, and for what it ends with, `Evidence` |

The modules that share an instance do not interact: each behaviour of the instance has one of
them as its subject and leaves the others as they begin, so TLC checks the sum of their states,
not the product.

How the modules fit together. `RunExecution` is the delivery protocol in full: claims, leases,
fence, outbox. The modules of the stages (`ShadowSandbox`, `StageResults`, `AgentPlanning`,
`Evidence`) repeat of it what a stage can notice: a worker claims, may be superseded at any
moment, notices at a checkpoint or when it finalizes, and may die anywhere. What that is exactly is
a specification of its own, `StageDelivery`, and all five modules implement it: `RunExecution` shows that the
protocol gives the handlers no worse surprises than it names, and the others that their
handlers move the run as it allows and in no other way. `RunTimeline` reads
the history that `RunLifecycle` specifies and `RunExecution` is shown to implement. `ShadowSandbox`
says when a runner action is executed again; `Runner` what that does to the database.
`StageResults` takes the report and the plan as functions of the snapshot; `StaticRules` and
`AgentPlanning` say what they are.

### RunExecution

State: `run` is the `audit_runs` row (state, version, whether
`cancel_requested_at` is set); `steps` the `run_steps` rows by step key;
`events` the `outbox_events` rows by aggregate version; `broker` the versions
of which at least one message is in Redis; `pc` and `claim` what each worker is
doing and holds in memory; `recon` the event the reconciler has locked.
`inserted` orders the rows by `started_at`.

| Code | Actions |
|---|---|
| `RunService.create` | `Init` |
| `RunExecutionService.claim` | `ReadRun`, then `ClaimNewStep`, `ReclaimStep` or `ClaimRefused` |
| `heartbeat` and `get_run_for_claim` in `process_run_event` | `Begin`, `Beat`, `HandlerReturns` |
| a handler that raises `RepositoryInputError` | `HandlerFails` |
| `finalize` | `FinalizeRead`, `Finalize` or `WriteLost` |
| `fail` | `FailRead`, `Fail` or `WriteLost` |
| process death or an exception nobody catches | `Crash` |
| `RunService.cancel` | `Cancel` |
| `OutboxDispatcher.dispatch_batch` | `Dispatch`, `DispatchFails`, and `DispatchUncommitted` when it dies before its commit |
| `RunReconciler.reconcile_batch` | `ReconcileLock`, then `ReconcileReopen`, `ReconcileGivesUp` or `ReconcileReleases` |
| `lease_expires_at` passing | `LeaseExpires` |
| `publish`, and Redis losing a message | `Publish`, for a `Lossy` version |

Choices a reader should know:

* Atomicity. A transaction runs at READ COMMITTED. It is one action when what it
  read cannot change before its conditional writes, and two when it can.
  `finalize` and `fail` read the run without a lock, so their read and write are
  two actions, and the write carries the copy of `cancel_requested_at` that was
  read. In `claim`, `get_current` and the `INSERT ... ON CONFLICT` are one
  action: the row is re-examined by the insert itself. A fenced
  update keeps its row lock to the commit, so step, run and event change together.
* One run. Every action touches rows of one run; the only coupling between runs
  is the reconciler's batch, which rolls back as a whole: `ReconcileReleases`.
* Cancellation and the reconciler. `cancel` updates the run row and then the
  event row, so it waits while the reconciler holds that event row
  (`recon # run.version`). An aborted cancel is a cancel that did not happen.
* Messages. `broker` is a set: a message that was sent may be delivered any
  number of times (`acks_late`, `reject_on_worker_lost`), at any time, or be lost.
* Time is not measured. Leases expire, deliveries become stale and retries come
  due at any moment, so the results hold for any value of the durations.
* A claim token is a random UUID in the code; here it is any member of `Token` that neither a
  row nor a worker still holds (`FreshTokens`). A step may be reclaimed any number of times: a token that nobody
  holds any more is used again, so the state space is finite and no counter stops the reclaims.
* Celery's own redelivery is not counted. With `acks_late` and `reject_on_worker_lost` Redis keeps the message of a
  worker that died and delivers it again; the claim that follows reclaims the row, and its new lease holds off the reconciler. `publish_attempts`
  counts what the dispatcher sends and nothing else, so the recovery budget does not bound these redeliveries. The liveness properties
  say exactly that.
* A stage handler is one phase that may take checkpoints, return, raise or die.
  What a cancelled stage cleans up may fail (`CLEANUP_FAILED`) and then fails the
  run: `CleanedUp`.

### StageDelivery

`stage`, `outcome` and `asked` are the run as a handler sees it; `at` what each worker works on
and what it has decided to do with the run; `holders` the workers that may still move it.

| In `RunExecution` | Here |
|---|---|
| `Begin` passes: the first heartbeat and read after the claim | `Start` |
| `ReclaimStep` by another worker | `Supersede` |
| `FinalizeRead`, `FailRead` | `Decide` |
| `Finalize`, `Fail` | `Move` |
| a claim that is lost, a compare-and-set that fails, `Crash` | `Leave` |
| `Cancel`, `ReconcileGivesUp` | `Ask`, `Exhaust` |
| all that happens to tokens, leases, events and messages; the handler's own work | `Unseen` |

* There may be two holders: one of the stage and one of its CANCELLED step. That is what finding 2 is about,
  and a handler has to live with it.
* A decision is taken on what was read; a request to cancel that comes after it is overwritten when the
  decision moves the run onwards (finding 1).
* A worker that is no holder any more goes on until it notices. Whoever works on an earlier stage is no holder.

### RunTimeline

`phase`, `cursor`, `timeline` and `batch` are the locals of `stream_events`, `wire`
what was sent and not received, `received` what the client has. `GetRun` and
`ReadSteps` are the two statements of `RunTimelineService.get`: the run may move
between them. A broken connection loses `wire`; the client comes back with the
last id it received. The run underneath is any behaviour of `RunLifecycle`,
which `RunExecution` implements.

### ShadowSandbox

State: `env` and `results` are the rows of `shadow_environments` and
`runner_executions`; `docker` the labelled resources that exist, a container with how far it is (`CREATED`, `UP`,
`SUCCEEDED`, `FAILED`); `anew` the volumes that Docker made for a name that was missing, without labels; `database` how
often each action succeeded on the current data volume; `pc` and `mem` where each
worker stands in a handler and what it holds; `run` and `owner` the delivery: the stage to
do, and who claimed its step and its CANCELLED step last; `faults` what may go wrong in this behaviour, chosen once.

| Code | Actions |
|---|---|
| `provision` | `Lookup`, `CreateNetwork`, `Populated`, `CreatePostgres`, `ConnectPostgres`, `StartPostgres`, `WaitReady`, `RecordEnvironment`, `UndoProvision` |
| the handler around it | `Provisioned` |
| `execute` | `RequireActive`, `RecallResult`, `FindNetwork`, `CreateRunner`, `StartRunner`, `RunnerReturns` or `WaitFails`, `VerifyClaim`, `StoreResult`, `RemoveRunner` |
| the runner's process | `RunnerEnds` |
| the evidence stage | `Collect` |
| `finalize_run`, called by every handler on its way out | `ReadEnvironment`, `CleanEnvironment`, `MarkEnvironment` |
| `_cleanup_by_labels` | `CleanupByLabels` at its last listing, `CleanMidway` before it |
| `process_run_event` | `Begin`, `Returned`, `FinalizeRead` as a part of these two and of the clean-up, `Finalize`, `Fail`, `Crash` |
| `sweep_expired` | `Sweep`, `SweepMark` |

* Claims. Any idle worker may claim the stage at any moment and supersede its
  owner: that is a lease that ran out and a message that came again. The fence of
  `finalize` and `fail` is `Holds`. `FinalizeRead` is what `finalize` reads and `Finalize` what it
  writes; a cancellation may be asked for in between, and is then lost. A run that is asked to cancel may be claimed under either
  key, because a message that was received before the request claims the stage. `RunExecution` has the
  rows and messages behind this.
* Names and ids. Docker refuses a second network or container of one name; ids say
  whose it is. An id is the worker that made it, which is exact because a worker makes
  a resource of one kind at most once while its environment has no row.
* Each call on a container is a step of its own: `execute` looks the network up by its id, creates the container with the
  network's name and starts it; `provision` creates the database container, connects it and starts it. Others may clean up, or
  make a network of that name, between any two of them. `containers.create` asks for no network, and makes a volume that is not there.
* What is merged: the network with the two labelled volumes (a provisioning that fails between
  them leaves the network and goes to the clean-up), and the loader container with the population it serves.
  `_cleanup_by_labels` succeeds when its last listing is empty, or leaves any set that Docker's
  own rules allow; what others may find while it is at work is any such set too (`CleanMidway`).
* A worker's exit (return, fail, cancel, lost) passes through `finalize_run` as the exception
  does in the code, and CLEANUP_FAILED takes its place.
* `FaultSets` says what may go wrong together in one behaviour: crashes, takeovers, failing calls, an
  exhausted recovery budget, clean-ups seen half done, and a sandbox whose lease runs out while its run executes, so that the
  sweeper comes (`expiry`). The instance lists four such sets; the theorems hold for every one.

### StageResults

`tree` is the content of the files a snapshot copies, `moments` every content the tree
has had; `artifacts`, `snapshot` and `results` are the published directories and the rows.

| Code | Actions |
|---|---|
| `DiscoveryStageHandler.execute` | `ExistingSnapshot`, the passes of `SnapshotService.create`, `SaveSnapshot`, `Saved`, then as below |
| `SnapshotService.create` | `ReadFile` (`git.select` hashes, `_copy_selection` copies, `git.select` hashes again), `Selected`, `Publish` |
| each handler's result | `Lookup`, `Compute`, `Computed`, `StoreResult` (`create_or_get`, `save_result`) |
| the owner of the repository | `Edit` |

* Claims are as in `ShadowSandbox`: any idle worker may supersede the owner, and a worker
  notices at a checkpoint only. A cancellation ends a handler as a lost claim does and is left out.
* A file is read at once: a change while `_read_worktree_file` reads it fails there, and
  a change between the passes fails at the comparison unless it is undone before it.
* `Edit` gives a file any other content, one that it had before included, as often as its owner likes. The comparison
  goes by content, so an edit that is undone between the passes is not noticed: finding 6.
* A result is written as the snapshot it was computed from: the graph, the report and the
  plan of the provider the worker is wired with are functions of it. Repositories that fail
  in themselves (no `alembic.ini`, too many files) are left out; they fail at every try.

### AgentPlanning

`answers` is what the provider says to the first request and to the repair request of this
run, `invocation` and `plan` are the rows of `agent_invocations` and `audit_plans`.

| Code | Actions |
|---|---|
| `PlanningStageHandler.execute` | `LookupPlan`, `PlanComputed`, `SaveResult`, and the claims as in `StageResults` |
| `AgentPlanner.plan` | `GatherContext` (the read-only tools), `Ask` (one turn of its loop) |
| `save_result` | `SaveResult`: the first invocation and the first plan stay, another plan is a conflict |

* An answer is either a plan the validator accepts or one of `Rejections`; `PlanValidator` says
  which plans are accepted.
* `Deterministic` says whether the provider answers one request always in one way. The worker is
  wired with a provider that does (`FakeAgentProvider`), and the two properties are checked and
  proved for such a provider. For another one they do not hold: `save_result` never compares
  the invocation, so a failed one may stand beside the plan of a later execution.

### StaticRules

A revision is the calls on `op` in its `upgrade()`, in order, and what its `downgrade()` is;
`Evaluate` is `StaticRuleEngine.evaluate`, one operator per rule (`DestructiveDdl`, `DirectNotNull`,
`NonConcurrentIndex`, `IrreversibleDowngrade`), and `Analyze` is `StaticAuditService.analyze`:
content findings of the changed revisions, structural findings, the sort and `Risk`. The sort is
stable and its keys tell two findings apart unless both are structural, so `Before` adds the place of a reason
among the graph's reasons (`structure` holds the node each names, 0 for none), and `Sorted` numbers each
finding by those before it.
A literal argument is told from a computed one because the rules do. Messages, excerpts and
the hash of the report are left out. The reference of `RiskIsJustified`, `Dangerous`, is written
from the design of M2, not from the rules.

### Runner

State: `database` is the revision and, for each table, its number of columns and rows;
`migrations`, `baseline`, `fixture` and `support` are the repository; `step` where the runner
stands; `before`, `observed` and `seeded` what it has measured and reported; `verdict` the last result.

| Code | Actions |
|---|---|
| `UPGRADE_BASELINE`, `APPLY_TARGET` | `UpgradeBaseline`, `ApplyTarget` |
| `LOAD_TEST_DATA`: `seed_database` | `LoadFixture`, `LoadSynthetic`, `SkipSynthetic` |
| `RUN_SMOKE_CHECKS` | `RunSmokeChecks` |
| `VERIFY_ROLLBACK_ROUNDTRIP` | `ObserveBefore`, `DowngradeToBaseline`, `UpgradeAgain`, `Compare`, `Recover` |
| a container that is stopped, or whose result is lost, and whose action is executed again | `Interrupt` |

* Alembic and the migrations are external. A migration creates or drops a table, adds or drops a
  column, inserts or deletes rows, does nothing, or raises. A command that raises leaves what it had
  reached or nothing new: the `env.py` of the audited repository decides which.
* The two schema fingerprints of the code compare columns here. Indexes, types and constraints
  change with the columns or not at all; that the code counts rows and does not read them is in
  the model.
* `support` of a table is what the generator of synthetic rows can do with it: fill it, leave a
  nullable column empty, or skip it for a required column or a foreign key.

### Evidence

State: `executions`, `items` are the rows of `runner_executions` and `evidence_items`; `store` the
artifact of each content (a content stands for its hash); `leftovers` the temporary files of dead
writers; `run` and `owner` the delivery, as in `ShadowSandbox`; `errors` counts failures of the
file system and the database.

| Code | Actions |
|---|---|
| the handlers of the runner stages | `Recall`, `VerifyClaim`, `StoreExecution` |
| `CollectEvidenceStageHandler` | `Report`, then as below |
| `DynamicEvidenceCollector.collect` | `Gather`, the puts, `AllPut`, `Save` |
| `put` of the artifact store | `FindArtifact`, or `WriteTemporary` and `Replace` |
| an `OSError` or a database error in it | `CollectionFails` |
| `process_run_event` | `Begin`, `Raise` (which collects for a stage of `_DYNAMIC_EVIDENCE_STATES`), `Returned`, `Finalize`, `Fail`, `Crash` |

* `FindArtifact` has both outcomes of the comparison; that it never finds part of an artifact is
  the point of `CollectionConverges`.
* The observation, stdout and stderr of an execution are items of `Output`; what the collector
  leaves out of them is a smaller `Output`. The size limit of an artifact is one of the errors.
* Nothing removes the temporary file of a worker that died: `leftovers` only grows. No document
  says otherwise.

### RunCreation

`runs` are the committed rows, `written` the uncommitted ones. `Lookup`, `Insert`, `Reread`
and `Commit` are the statements of `RunService.create`, `Rollback` the end of the process or its
connection. `Insert` waits for another transaction's row of the same key, as PostgreSQL does.

### RevisionGraph

`ParseRevision`, `SkipRevision` and `RefuseFile` are what a revision file may do to `nodes` and
`reasons`; `BuildGraph` is `_build_graph`, with the depth-first search (`DepthFirst`), the
walk from the head (`Walk`, in as many rounds as there can be) and the reasons. The heads are a set of places
among the nodes, so that two nodes with one id are two heads. Ids are numbered by first appearance, which
loses nothing because the code only compares them. `SkipRevision` leaves a file out with any complaints about its literals and labels, or
with none: a literal `revision` that is None or a sequence drops its file silently. Python's parser is taken as given.

### PlanValidator

`ProposeStep` adds any step the contract admits, `Validate` is `validate`. The error codes leave
out the names of steps. `HasPlanCycle` is `_has_cycle` by `DepthFirst`, and `AncestorCapabilities` pops
what is pending in as many rounds as there can be.

### DepthFirst

`Visiting` is one call of the inner function `visit` of either `_has_cycle`, given what the calls nested in it do, and
`VisitEach` a sequence of such calls up to the first cycle. `Visit` nests them as deep as there are ids: each nested call makes one more
id active, so that a deeper one would meet an active id. The definitions are recursive functions over
an interval and not RECURSIVE operators, so that they can be proved about. Python's own limit on nested calls, about a
thousand, is not modelled: a longer chain of revisions raises a RecursionError.

## 3. Runs

| Run | Question | Bounds |
|---|---|---|
| `run_execution_safety` | do the run, its steps and its events stay consistent under every interleaving of two workers, API, dispatcher, reconciler, crashes, redeliveries and expired leases? do the handlers see no more of it than `StageDelivery` says? | 2 workers, 3 versions, 2 deliveries, 3 tokens |
| `run_to_end` | does every run reach a terminal state, and if not, why? does the journal of its steps implement the lifecycle? does a client get each version once, in order, to the end? | 1 worker, 3 versions, every message may be lost, 2 tokens; histories of up to 4 versions, 2 broken connections, 3 kept ids |
| `sandbox` | do results, database, resources and the environment's row agree when workers die and take over, calls fail, clean-ups are seen half done and the sweeper comes? | 2 workers, 2 runner actions, 4 sets of faults |
| `stages` | do the rows that the stages leave agree with each other and with what was done, when the tree is edited, workers die and take over, and actions are repeated? | 2 workers; 1 file with 3 contents, any number of edits; 2 plans, 2 rejections; 2 revisions, 2 calls; 2 tables, 2 migrations or 3 that can be undone, 1 interrupt |
| `begin_and_end` | which requests, repositories and plans are let in? is the evidence of a run complete, and are its artifacts whole? | 3 clients, 2 keys, 2 requests, 2 tries; 3 revisions; 3 steps of a catalog of 3; 2 workers, 2 runner actions, 2 contents, 1 error |
| `lost_cancellation` | violated: see findings | 1 worker |
| `cancelled_beside_owner` | violated: see findings | 2 workers |
| `lease_preempted` | violated: see findings | 1 worker |
| `apply_replayed` | violated: see findings | 2 workers, 1 action, takeovers only |
| `left_after_cancel` | violated: see findings | 1 worker, no fault at all |
| `mixed_snapshot` | violated: see findings | 1 worker, 2 files with 2 contents |
| `ended_without_evidence` | violated: see findings | 1 worker, no fault at all |

The properties:

* `OneProducerPerVersion`: each version after the first was produced by exactly
  one step, claimed at the version before. The stage's step and the CANCELLED step
  have different keys, so no constraint of the database keeps them apart.
* `OneEventPerVersion`: an event for each version the run was unfinished in, and
  none for its end; an unfinished run always has an event to deliver or recover.
* `StateFollowsVersion`: retries and reclaims never skip or repeat a stage.
* `OneOwnerPerStep`, `SupersededNeverWrites`: the fence. Of all workers that
  claimed one step at most one can write, and the others change nothing.
* `FinishedIsFinal`: finished runs and finished steps never change.
* `CancellationIsHonoured`: a run with a requested cancellation leaves its version
  only into CANCELLED or FAILED, except through a finalize that had
  read the run before the request.
* `RunEndsUnlessReclaimed` (`EndsUnlessReclaimed` where the run is executed): lost messages, dead workers and refused claims never leave a run
  hanging. Only one thing can keep it from its end: that its step is reclaimed for ever, by redeliveries nothing counts.
* `BudgetEndsTheRun`: the recovery budget. A run whose delivery the reconciler selects again and again ends,
  however often it is reclaimed in between.
* `ImplementsLifecycle`: the journal only grows, along allowed edges.
* `ImplementsDelivery`: what the handlers rely on. At most one worker may move the run on from its stage and one may
  cancel it, none may from an earlier stage, and only a decision that was read before it overlooks a cancellation.
* `EachVersionOnceInOrder`, `EndMeansComplete`, `FinishedRunIsSeen`: the stream.

* `StagesLeaveResults`: the run leaves a runner stage only with the stored success of its action.
* `DatabaseInOrder`: on one database no action succeeds before all earlier ones have.
* `RunnersMeetTheirDatabase`: a runner gets its network by name, some calls after that network was found by its id; while there
  is a runner no database runs but that of the recorded environment.
* `CleanedStaysGone`: once the network of a recorded environment is gone, no worker brings it, or a running
  database of it, back under the row.
* `ReleasedBeforeTheEnd`: a worker that fails a run in a runner stage, or completes it, has
  released the environment or tried to. (Not so for a cancelled run: see findings.)

* `OneSnapshotForAll`: graph, report and plan belong to the one snapshot of the run, which is there to be read.
* `StagesLeaveRows`: the run leaves a stage only with its row.
* `RetriesConverge`: repeated and concurrent executions of a stage fail the run only if the
  tree has had more than one content. (An edit between two workers' copies is one way to fail: the first row stays.)
* `PlanOfItsInvocation`: there is a plan exactly if the stored invocation succeeded, and it is the
  output that invocation records, whoever of several workers wrote them.
* `EndsByItsAnswers`: the stage succeeds or fails with PLAN_INVALID as the two answers say, however often it is executed.
* `RiskIsJustified`: the risk is the severity of the first finding, none is above it, and it is
  HIGH exactly if a changed revision is dangerous or the graph is ambiguous.
* `RoundtripVerdict`: a stored success means the schema and row counts of the smoke checks are
  back; and a history whose downgrades undo its upgrades fails the roundtrip exactly if a table holds rows that is
  missing at some revision between baseline and target. (So synthetic data makes the roundtrip of an honest CREATE
  TABLE fail above a baseline, and so do rows in a table that is dropped and created again, which the baseline has.)
* `CoverageNotOverstated`: complete synthetic coverage means a row in every table and a value in every column.
* `UpgradesConverge`: upgrades stopped between two migrations and started again make what one undisturbed upgrade makes.
* `ItemsHaveArtifacts`, `CompletedHasEvidence`, `CollectionConverges`: evidence rows never precede their
  artifacts, a completed run has each item exactly once, and concurrent, repeated or broken-off
  collections fail a run only through an error of the file system or the database.

* `OneRunPerKey`, `AnswersAgree`: one run for a key, and every answer agrees with it.
* `SupportedIsLinear`: a graph is supported exactly if its revisions are one linear history with
  contiguous changes, and then `target_chain` is that history. The reference is a definition over all orders of the nodes.
* `ChangesAboveBaseline`: what is executed from the baseline up includes every changed revision.
* `AcceptedRunsTheCatalog`: a plan is accepted exactly if it can be executed in one order only, the catalog's.

Why the bounds are enough. Between QUEUED and COMPLETED all stages follow the same
protocol; three versions give a first claim, a claim after a commit and an end. A hazard
of the fence needs an old and a new owner: two workers. A token is the row's or one of a worker's, so three
(two for one worker) let each reclaim find a fresh one.
`MaxAttempts` 2 gives a delivery, a redelivery and an exhausted budget; the code
only compares `publish_attempts` with the limit, so the count stops there.
Two runner actions are the fewest that have an order; the other three stages of the
code are the same handler with another action. The four sets of faults of `sandbox` are what a run of some minutes can take; with every fault
at once the states are many times as many. The same properties were checked by hand for one action with crashes, takeovers
and failing calls together (7.8 million states) and with takeovers, failing calls, half-done clean-ups and the sweeper (1.8 million), for two
actions with crashes, takeovers and half-done clean-ups (9.0 million); what is proved holds for any set.
The liveness properties were checked for two workers and one stage by hand, too (445 thousand states). The main path of
`run_to_end` is the shortest that has an ordinary stage; with the approval states its histories have both kinds of end. `Lossy` is empty in the safety run because losing a message only
disables `ReadRun`; in `run_to_end` every message may be lost.

`stages`: the snapshot has one file there, because rows that disagree, or a retry that fails, take no second one; torn copies, which do, are the
matter of `mixed_snapshot`, and what is proved holds for any number of files. Three contents are the
fewest with an edit that is undone beside one that is not. Two workers are the fewest that race for a row or an artifact; two plans and two rejections the
fewest that tell a first answer from a repaired one. Two reasons are the fewest that tie in every key of the sort. Two migrations give a baseline with one table and a target
with a change, or an empty baseline and two changes; the second migration is any pair of a change and a downgrade, honest or
not, above one table. Three are the fewest with a table that is dropped and created again above the baseline: here every
downgrade undoes its upgrade. `MaxRows` 2 lets a seeded row be told from a migration's. One interrupt at every
point gives one repetition; a second repeats the first. Two contents shared by two actions are the fewest
in which an artifact is found that another action put. One error reaches every way a
collection may end. `begin_and_end`: two creates race and a third
comes late. Three revisions are the fewest with a cycle beside a chain, a changed, an
unchanged and a changed one in a row, or two parents; three steps the fewest with an ancestor that is no dependency.

Deadlock is not checked: a finished run whose messages are gone has nothing more to do,
and a client that saw the end of its stream stops.

## 4. Fairness

`RunExecution`: weak fairness of `Dispatch` and `ReconcileLock` because Celery beat
starts both tasks for ever (0.5 s and 2 s); of `LeaseExpires` because time passes and a
row that is not renewed runs out; of `HandlerReturns` because every wait of a stage has a
timeout; of `ReconcileReleases` because a transaction ends. Strong fairness of
`ReconcileReopen` and `ReconcileGivesUp`: a batch that rolls back is tried again and
does not roll back for ever. Nothing is asked of workers picking up messages or of Redis
keeping them, and crashes are unlimited.

`RunTimeline`: weak fairness of the server's loop and of the network; connections
break finitely often.

`MCRunToEnd` states the fairness of each of the two for the behaviours that have it as their subject; for
the others its conjuncts would be about steps such a behaviour never takes. No other module has a
liveness property: what a stage, a sandbox or the sweeper owes is always owed only to a worker that is not
stopped, and nothing in the code keeps workers, Docker or the broker from stopping.

## 5. Findings

1. `lost_cancellation`. `finalize` decides on the `cancel_requested_at` it read and
   saves with a compare-and-set on the version only. A cancel accepted in between keeps
   the version, so the save overwrites it and creates the next stage's event. The M1 plan
   says "Verify cancelled runs create no later stage event."
2. `cancelled_beside_owner`. The guard that keeps a redelivery from creating a CANCELLED
   step beside the in-flight owner holds only while the owner's lease is live. An owner
   that waits for a container without a checkpoint, longer than its lease, loses it. The
   comment at `application/run_execution.py:55` says it must not happen.
3. `lease_preempted`. The reconciler looks for a live step only when it selects the
   delivery; a worker that claims before RECOVERY_EXHAUSTED is written fails under its own
   live lease. `docs/handoffs/M1.md:15` says an active lease is not preempted.

4. `apply_replayed`. The wait for a runner takes no heartbeat (up to 210 s, the step lease is
   30 s). When the claim is taken over meanwhile, the worker drops its result and removes the container before the
   environment, so the successor, which finds no stored result, runs the action again on
   the same database. The unique key keeps the second result out, not the second
   execution. `docs/handoffs/M4.md:15` says apply is never repeated. (Alembic finds a committed revision applied;
   seeding and the roundtrip really run twice.)
5. `left_after_cancel`. A cancellation seen by a checkpoint of `provision` passes by its except
   clauses, and `finalize_run` finds no row and returns. The run ends CANCELLED with its network and
   volumes in place until the sweeper's lease is over. `README.md:27` and
   `docs/handoffs/M4.md:16` say the finalizer leaves nothing after a cancellation.

6. `mixed_snapshot`. `create` selects the files with the hashes of their content, copies them, selects again and
   compares. A working tree's selection compares content alone (`repository/git.py:97`), and the copied bytes are not compared with
   the hashes. An edit made after the first selection and undone before the second is therefore copied unnoticed, and with two
   files the copy may be a state the tree never had. The M2 design spec
   (`docs/superpowers/specs/2026-08-25-m2-agent-context-static-audit-design.md:87`) says: "If a file identity or metadata changes
   between inspection and completion, abort the snapshot instead of publishing mixed content."
7. `ended_without_evidence`. `process_run_event` collects what a failed stage left only for the stages
   of `_DYNAMIC_EVIDENCE_STATES` (`worker/tasks.py:24`), which begins with APPLYING. When the runner's upgrade to the baseline fails, its
   execution row is stored with stdout and stderr and the run ends FAILED without evidence; so does
   a run whose cancellation is found when a stage begins, or whose recovery is exhausted. `PRD.md:39` says of every task
   in a terminal state that its complete steps and evidence can be queried.

The first three do not corrupt the rows: the invariants of section 3 hold in the same model.

## 6. Proofs

TLAPS proves, for any number of workers, any main path that satisfies `PathAssumption`
and any values of the bounds that satisfy `BoundAssumption`:

* `RunExecutionProofs`: `TypeCorrect`, `OneProducer`, `OutboxComplete`, `StateFollows`,
  `OneOwner`, `SupersededWritesNothing`, `FinishedStaysFinished`, `CancellationHonoured`; and `Refinement` and
  `DeliveryRefinement`, that `Spec` implements `RunLifecycle` and `StageDelivery`;
* `AdmissionProofs`, for any clients, keys, requests and tries: `OneRun`, `ReplaysAgree`; for any number of revision
  files: `SupportedAlwaysLinear`, `ChangesAlwaysAboveBaseline`; for any catalog, any number of steps and of
  dependencies: `AcceptedAlwaysRunsTheCatalog`;
* `OutcomeProofs`, for any workers, any number of actions, any output and every fault
  (`EvidenceAssumption`): `ItemsAlwaysHaveArtifacts`, `CompletedAlwaysHasEvidence`, `CollectionAlwaysConverges`;
  and over every history the lifecycle allows, with any number of broken connections:
  `AlwaysEachVersionOnceInOrder`, `EndAlwaysMeansComplete`, `TimelineTypeCorrect`;
* `ReportAndPlanProofs`, for any workers, answers, crashes and takeovers, and a provider that answers a
  request always in one way (`Deterministic`, a hypothesis of these theorems): `PlanAlwaysOfItsInvocation`,
  `AlwaysEndsByItsAnswers`; and for any number of calls and of structural reasons: `RiskAlwaysJustified`;
* `StageResultsProofs`, for any workers, any number of files and any edits at any moment, restoring ones included:
  `AlwaysOneSnapshotForAll`, `StagesAlwaysLeaveRows`, `RetriesAlwaysConverge`, `StagesTypeCorrect`;
* `ShadowSandboxProofs`, for any workers, any number of runner actions, and every `FaultSets`, the
  sweeper's included: `StagesAlwaysLeaveResults`,
  `DatabaseAlwaysInOrder`, `RunnersAlwaysMeetTheirDatabase`, `CleanedAlwaysStaysGone`, `AlwaysReleasedBeforeTheEnd`, `SandboxTypeCorrect`;
* `RunnerProofs`, for any tables, any number and kind of migrations, any fixture and any number of interrupts
  (`RunnerAssumption`, which only says what a history and a fixture are): `RoundtripAlwaysJudgesRight`,
  `CoverageNeverOverstated`, `UpgradesAlwaysConverge`, `RunnerTypeCorrect`;
* that the modules of the stages implement `StageDelivery`, under the assumptions of each and for every fault:
  `SandboxDeliveryRefinement`, `EvidenceDeliveryRefinement`, `ResultsDeliveryRefinement` and, for every provider,
  `PlanningDeliveryRefinement`.

The invariants of section 3 are not inductive. `Invariance` proves their strengthening
`Inv`, whose parts are

* `TypeOK`;
* `StateInv`: the version tells the state, as in `StateFollowsVersion`;
* `OneEventPerVersion`;
* `RowInv`: what a step row may hold: a RUNNING row is not RECOVERY's and leads to the state of its key; a finished
  row produced the version after the one it was claimed at, no later than the run's, and the row of the run's
  version names the run's state; a RECOVERY row means that the run has ended;
* `ProducerInv`: each version has a producer and two rows never produced the same one;
* `ClaimInv`: what a worker knows of the row it claimed: the row is there and expects the version the
  worker read; and no two workers hold the same token of a row.

`ClaimInv` is what makes the fence work: it excludes that two workers hold equal tokens,
so the one that passes `Holds` is the last claimer, and its row still expects the version
against which the save compares. Each lemma takes one action and one part of `Inv`; the
theorems combine them by PTL. TLC checked `Inv` as an invariant of the safety
instance before it was proved. For the refinement the mapped history is
`Journal`, which reads the producer of each version; `ProducerInv` makes that choice unique,
and each action either leaves the journal alone or appends one state.

For `DeliveryRefinement` the invariant is `Inv` with `CurrentInv`: what a RUNNING row or a worker was claimed for
fits the run (`Fits`). If it was claimed at the run's version, the run is unfinished, and asked to cancel if the claim is the cancellation;
the key is that of the stage or CANCELLED. From `ClaimInv` there is then at most one holder for each key, from
`Fits` a holder's commit is the abstract `Move`, and a commit leaves no holder, because every claim is
older than the run afterwards. Of the steps only a commit or a request changes the run (`RunCases`); the others change a row
under a worker or one worker's place, and are a `Start`, a `Supersede`, a `Leave` or nothing to the handlers.

The four modules of the stages map in one way. Between the claim and the end of a handler, a worker's steps keep what
`StageDelivery` sees of it (it works, and has not decided), so the lemmas say which actions are work (`Works`, `SeesNoChange`)
and leave one abstract step for each of the claim, the read, the two writes, the request to cancel and
the ways to leave. The first attempt failed, and for a good reason: `ShadowSandbox` and `Evidence` did less than
`RunExecution` allows. A finalize read and wrote at once, so that no cancellation was ever lost; a run that was
asked to cancel could only be claimed for its cancellation; and `Evidence` had one owner for both keys. They have been made
to do what the code does, and their invariants hold of that, too.

`RunCreation`: the invariant adds to the two properties that a transaction holds its row exactly between insert and end, and
that the row an insert gave way to is committed.

`DepthFirst`: a cycle is what keeps a set of ids from being ranked, each above all it leads to (`Ranked`). One
direction: what a visit that finds no cycle has done is ranked, if what was done before was (`Sound`): the id whose visit ends goes on top of
those below it. So a search without a cycle leaves a ranking of all it visited (`NoCycleIsRanked`). The other: if
the ids are ranked, those that are active rank above the one that is visited, so no visit meets one of
them (`Quiet`, `RankedHasNoCycle`). Both are inductions over the depth to which visits are nested.

`RevisionGraph`: whether a graph is supported is decided when it is built, so the invariant is the property and the argument is about
`_build_graph`. If nothing is complained about, a ranking exists, hence a revision that is
nobody's parent (`SomeHead`), the only head. What the walk from it has passed is a chain of distinct revisions, each the only
parent of the next (`Linked`), no longer than the nodes are, so that it ends; it has every revision, and read backwards is
the linear order. Conversely a linear order ranks the revisions, its end is the only head, and the walk
meets its revisions one by one (`LinearIsWalked`).

`PlanValidator`: again the argument is about one step. If nothing is complained about, the
steps are as many as the capabilities, and a ranking exists. Whatever the ranking, what
`_ancestor_capabilities` finds ranks lower than the step (`AncestorsAreLower`), so that the steps in the catalog's order ascend, and that order can
be executed. Each order that can be executed is itself a ranking, in which the catalog's order ascends too: it is the same order
(`AscendingIsIdentity`). Conversely, if there is only one order to execute the steps in, each step depends on the one before it,
since otherwise the two could be swapped (`SwapIsOrder`); and what a step depends on directly is found, because the
search ends: what is pending and, `MaxDepends` times, what is not found yet become less in each round (`Work`).

`Evidence`: the invariant `EvidenceInv` relates three places. `RecordInv`: the store holds no part of an
artifact, no item has two rows, and every stage before the run's has its success. `WorkerInv`: what a collector has
found is either still to be put or in the store as a whole, so that it may write its rows when
nothing is left to put; the collector of REPORTING found everything, because all earlier stages had succeeded when it read them; and a
worker about to finalize has something to show for its stage (`Done`). What makes this stable while others
work is `Grows`: artifacts, successes, items, errors and the request for cancellation are never taken back, so a
worker that does not move keeps what it knows (`Others`), and each action needs only its own worker's part.

`AgentPlanning`: all executions of the stage compute one result, `Final`; the rows are that
result or absent (`RowsInv`), and a worker that holds a result holds this one.

`StaticRules`: line, path and entry determine a finding within one severity, so `Before` is a strict total order on the
findings of a report. The number of findings before one is then an injection of a finite set into
an initial segment of the same size, hence onto (`FS_Injection` and its like): every place of `Sorted` is taken, by
one finding, and the first is the one that none precedes. That a rule finds something HIGH exactly if the revision is `Dangerous` is
one lemma for each rule.

`StageResults`: two arguments that need little of each other. That rows, snapshot and artifacts agree does not depend on
what the tree does: artifacts and rows are only ever added, the first stored snapshot stays (`Grows`), and what a worker
read or computed belongs to the stored snapshot's content, whoever stored it (`DerivingInv`). That retries fail only after an edit is
about a tree never edited (`~Touched`): every pass read what is there (`ReadFromTree`), so the copy, the stored snapshot and the
tree are one, and no comparison can fail. How far a worker's passes have come is `Progress`.

`ShadowSandbox`: the invariant `SandboxInv` has five parts over the types. `DockerInv`: there is one network, since a second has no
name; a running database has its worker's network; and a runner was made after all actions before its own were stored.
`RowsInv`: while the network of the recorded environment exists, its database has each stored success. `RunInv` is two
of the properties. `PlaceInv` says where a worker may stand
given the stage it claimed, and `KnowledgeInv` what it knows there: the identifiers it made, the row it read,
the result it is about to store. `MeetInv` is what bridges the calls between looking a network up by its id and starting
a container in it by its name: if somebody has found the environment's network (`Around`), the run is beyond
provisioning, so a worker still at it is turned away by its next checkpoint; and if that
network goes, no database runs and none is about to be started, so the name cannot lead to another one.
As with `Evidence`, `Grows` names what no step takes back (rows are kept; a network that is gone does not
come back under its identifier), and the workers that do not move keep what they know.
The clean-up is the delicate step: it removes what another worker's knowledge is about, so that knowledge
is always of the form "if the network is still there, then".

`RunTimeline`: `ChainInv` says that `received`, `wire` and the events of the batch follow one another without a gap (`Follow`), with the
cursor at the last version sent; `EndInv` that a terminal timeline, once read, is the end of the
history for ever, because the lifecycle adds nothing to a history that has ended.

`Runner`: a command makes its migrations one after the other (`Repeated`), so its lemmas are inductions over the
number of migrations. The library's induction theorems take an operator as a parameter; `InductionOnSet` says the same
of a set (`Intervals`), and follows from the least number that is not in it. The reference is the path of an
undisturbed upgrade, `At(n)`: one more migration of any upgrade stays on the path, which gives `PathInv` however often
an upgrade is stopped. `ReversibleInv` says where a roundtrip has come to: at a revision r
the database has the columns of `At(r)` and the rows `Kept`, those it began with except in tables that some revision
visited so far does not have. Downgrading extends the set of visited revisions, upgrading again does not change the rows
(`DownStepIsAt`, `UpStepIsAt`), and the comparison at the end finds exactly what `Kept` left out.
The first attempt at this proof failed for a good reason: the property had said that only tables which the baseline does not have
lose rows, and a history that creates a table, drops it and creates it again refutes it; the instance has had such histories since.

TLC checked each of these invariants and refinements on the instance of its module before it was proved. The four
refinements of the stages are not among the runs' properties; they are defined in their modules and
can be added to a configuration as they are.

Every safety property of the passing runs is a theorem; `StagesTypeOK` is the conjunction of three, those of
`StagesTypeCorrect`, `RunnerTypeCorrect` and, as a part of its invariant, `PlanningInvariant`. Only model-checked is liveness
under fairness (`EndsUnlessReclaimed`, `BudgetEndsTheRun`, `FinishedRunIsSeen`), which this prover does not reach.

## 7. Plan

What would come next:

1. An abstract specification of what a stage promises (its row, once, of this snapshot), implemented by
   `StageResults` and by `AgentPlanning`, as `StageDelivery` is one of what a stage is promised.
2. A bound on redeliveries as a property, once a document says what `publish_attempts` is to count. It counts sends and not
   redeliveries, so that a step may be reclaimed for ever (`EndsUnlessReclaimed`).

## 8. Not modelled

Parsing of Python migrations, git's own work, limits on file sizes, the language
model behind the planning agent, configuration, health checks, logging, the CLI and the wiring of the
processes: they are stateless, or their only protocol is "one handler that returns or
fails", which `RunExecution` has. The row locks of PostgreSQL are not modelled one by one,
so the lock cycle between a cancel and the reconciler (which the database resolves by
aborting one) appears only as its outcome.

Of the modelled parts:

* `Runner`: the budgets of observations, fixtures and output; the checks of the fixture's form (a fixture is
  a map from tables to rows, or does not fit the schema); indexes, check constraints and the values of rows.
* `Evidence`: redaction and the order of an execution's items.
* `StaticRules`: aliases of `op` and other ways to hide a call from the rules; sources that
  do not parse are reasons of the graph.
* `DepthFirst`: Python's recursion limit.

What the models show of the code where no document says what it should be, and no property says it either:

* A roundtrip that was interrupted takes what the first attempt left for the state to come back
  to, and may be stored as SUCCEEDED after rows were lost (`Interrupt`; `RoundtripVerdict` asks for no interrupt).
* A migration that raises a `ValueError` in the roundtrip ends as INVALID_INPUT and not as
  ROLLBACK_FAILED (`ErrorCode`).
* Seeding from a fixture is always reported as complete, whatever tables the fixture leaves out
  (`LoadFixture`; `CoverageNotOverstated` is about synthetic data).
* A crash between the temporary file and its publication leaves the file (`leftovers`).
* Volumes that Docker makes anew for a name whose volume was removed carry no labels (`anew`), although
  `docs/handoffs/M4.md:11` says that the resources do; neither the finalizer nor the sweeper finds them. `ResourcesAreLabelled` says there are
  none, and TLC finds it violated after a takeover.
* The sweeper may mark CLEANED an environment that was recorded after its last listing, with its resources in place, and a worker may
  record an ACTIVE one whose resources another one removed (`SweepMark`, `RecordEnvironment`).

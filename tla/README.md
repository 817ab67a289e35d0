# A TLA+ verification of AxonFlow

AxonFlow is a governance layer for AI workloads: an *agent* in front of the
callers (policies, gateway mode, MCP connectors, audit) and an *orchestrator*
behind it (workflow control, plans, executions, LLM routing). Both are Go
services over one Postgres database. This directory holds TLA+ models of the
parts whose correctness depends on interleavings, failures and restarts, TLC
configurations that check them on small instances, and TLAPS proofs.

`PROJECT.json` lists the components, the runs, the mutants that show that each
property can fail, the map from definitions to source lines, the findings, the
hazards and the theorems.

## Inventory

| Component | State | Operations | What is hard |
|---|---|---|---|
| Workflow Control Plane (`orchestrator/workflow_control`) | rows of `workflows`, `workflow_steps`, `workflow_checkpoints` | StepGate, ApproveStep, RejectStep, MarkStepCompleted, CompleteWorkflow, AbortWorkflow, FailWorkflow, ResumeFromCheckpoint, ResumeFromLastCheckpoint | no lock and no transaction across statements: every handler acts on what it read earlier; errors that are swallowed half way |
| WCP approval queue (`hitl_wcp_community.go`, `wcp_policy_adapter.go`) | rows of `hitl_approval_queue` | CreateApproval, expiry sweep every five minutes | limit checked before the insert; sweep racing reviewers; stop in the middle of a sweep |
| Agent audit queue (`agent/audit_queue.go`) | two channels, workers' entries, metrics batch, fallback file, `closed` | Log*, worker, metricsBatcher, Shutdown, RecoverFromFallback | overflow, outages, lost acknowledgements, disk errors, shutdown under load, crash during recovery |
| Plans (`orchestrator/planning`) | rows of plans and plan versions | generate, claim for execution, complete, fail, cancel, update, rollback, cleanup | compare-and-swap against unconditional writes; expiry against execution |
| Execution tracker, event hub (`shared/execution`) | one row with a JSON array of steps per execution; subscriber channels | start, step start/complete/fail, complete, fail, cancel, publish, subscribe | read-modify-write of the array; count-then-create limit; events dropped |
| Idempotency cache (`shared/idempotency`) | rows keyed by org, tenant, key, endpoint | Lookup, handler, Store, Sweep | two retries that both miss; TTL |
| Plan execution handlers (`orchestrator/run.go`, `map_wcp_execution.go`) | a plan, its tracker row, a workflow of the control plane | execute, resume, cancel | three stores that no transaction ties together; a resume acts on one listing long after it |
| Decision chain (`agent/decision_chain*.go`) | queue and workers per agent, rows of `decision_chain`, an advisory lock per chain | RecordDecision, append and sign, verify, Shutdown | replicas append to one chain; lost acknowledgements; crashes, key rotation, requests served during shutdown |
| MAP with engine approvals (`hitl_execution.go`, `map_hitl_adapter.go`) | see `PROJECT.json` | | off unless an approval engine is configured |
| Policy engines, LLM routing, connectors, auth, rate limits, cost, webhooks, reports | see `PROJECT.json` | | mostly pure functions or I/O |

How they interact: the agent evaluates policies and logs every decision to the
audit queue. The orchestrator's StepGate asks the policy adapter for a decision;
in the Evaluation tier the adapter also queues an approval. StepGate then
upserts the step, advances the workflow's cursor, reads the row back and saves a
checkpoint; it notifies the execution tracker, the webhooks and the audit logger
on a best-effort basis. A reviewer approves or rejects through the control plane;
the sweep of the approval queue expires what nobody answered. A resume re-enters
StepGate from a checkpoint.

### What makes each component correct

* Control plane: no `allow` that nobody decided; an approval belongs to the
  decision it was given for; a completed workflow has nothing pending; a refused
  step stops its workflow; counters, keys and cursor survive races.
* Approval queue: the sweep never undoes what people settled.
* Audit queue: an accepted entry is never dropped in silence; the fallback file
  forgets nothing that is not stored; no duplicates without a fault; the queue drains.
* Plans: at most one execution of a plan, whatever cancels, updates or expires it
  meanwhile; the version history is true and complete.
* Plan execution: a plan that ended gives its slot of the tenant's limit back; a
  claimed plan ends; in step mode steps run once, in order, each after its approval.
* Execution tracker and streams: the steps shown are those the control plane
  reported; connections are counted exactly; a stream closes when its execution ends.
* Idempotency cache: one answer per key until it expires; a retry is served nothing
  but a complete earlier answer; retries one after the other run the handler once.
* Decision chain: every chain verifies, grows only at its end without a gap, and
  every decision settles; a shutdown leaves nothing queued behind.

## Modules

### `WorkflowControl`: one workflow of the control plane

Variables: `wf` (status, `current_step_index`, `total_steps`), `steps` and `cps`
(the step and checkpoint rows, by step id; decision `"none"` is "no row"), `hitl`
(pending queue rows per step), `sweep` (the expiry goroutine), `proc` (a local
record per request in flight, whose `pc` names the next SQL statement), `resp`
(the last answer per request slot). `allowed` and `approved` are history: which
steps an evaluation allowed or a reviewer approved. `calls` and `faults` count
towards the bounds.

One action is one SQL statement together with the Go code up to the next one, as
`database/sql` gives no more atomicity than that here:

* `Call` takes a request (operation, step, key, retry mode, and whether the caller
  owns the workflow).
* `ReadWorkflow`, `ReadSteps` are the two statements of `GetByID` with the checks
  that follow; `ReadStepForGate`, `ReadStepForReview`, `ReadStepForCompletion`,
  `ReadCheckpoint` are the other reads with theirs. The policy evaluation is any of
  the three decisions (`Evaluate`).
* A gate writes `CountPendingApprovals`, `EnqueueApproval`, `AddStep`,
  `UpdateCurrentStepIndex`, `ReadBack`, `CreateCheckpoint`, or, for a cached
  decision, `BumpGateCountCached`. The upsert's conflict clause is the operator
  `AddStepRow` with `GatedApproval`, `GatedKey` and `NextGateCount`.
* `ApproveStep`, `RejectStep` then `AbortRejected`, `CompleteWorkflow`,
  `AbortWorkflow`, `FailWorkflow`, `MarkStepCompleted`, `ResetStatus`,
  `IncrementResumeCount` are the other writes.
* `StatementFails` ends a handler with an error (also: the process died there);
  `BestEffortFails` is an error the code logs or ignores.
* `SweepExpire`, `SweepStep`, `SweepAbort`, `SweepStatementFails`, `SweepDies` are
  `expireEvalApprovals`, with the row that cannot be scanned among the failures.

Abstracted: texts, costs, tokens, policies, timestamps, the reviewer's name. The
workflow is created without `total_steps` (deprecated by the docs). When an approval
falls due is nondeterministic, except that a row never does while the gate that inserted it
is under way (`Young`, from the handler's field `queued`): rows expire after 24 hours
(`hitl_wcp_community.go:66-68`). The sweep's branch for rows without `workflow_id` and
`step_id` (:291-307, :326-343) is left out, because the policy adapter stores both in every
row (`wcp_policy_adapter.go:125-126`). Each handler's audit entry, webhook and execution
tracker call is left out: they change none of these tables. The tenant's pending
count is that of this one workflow.

### `AuditQueue`: the agent's audit queue over several lives of the process

Variables: `life` (starting, running, the stages of Shutdown, exited, dead),
`closed`, the channels `queue` and `metrics`, the tasks of `caller`s and
`worker`s, the `batcher`, the `recovery`, the fallback file (`disk`: what is at the
path; `orphan`: what was written through a descriptor whose file lost its name;
`renamed`: whether the descriptor is such a one; `replaced`: whether that ever happened),
the table `db` (rows per entry), and history. Actions follow the goroutines: `Log`, `LogSync`, `LogMetric`,
`CheckClosed`/`Send`/`WriteToFallback` (`queueEntry`), `Receive`/`WorkerWrite`/
`WorkerFallback`, `BatchMetric`/`StartFlush`/`FlushMetric`, `MarkClosed`/
`CloseQueue`/`CloseMetrics`/`Exit` (`Shutdown`), `NewAuditQueue`, `ReadFallback`/
`Replay`/`RewriteFallback`. Faults: `Outage`, a lost acknowledgement in `Exec`,
`Crash` between any two steps, `WriteToFallbackFails`, `WorkerFallbackFails`,
`ReadFallbackFails` (the file cannot be opened or scanned: the agent starts without
replaying it) and `RewriteFails` (truncating the file, creating, writing or renaming the
temporary one).

`Exec` is one attempt of `db.Exec`; the loops of `execWithRetry` and of the worker
count attempts. An entry without OrgID is refused before the database is asked
(`Unscoped`); an entry of a table with a unique id is refused once it is stored
(`Unique`). A panicking request stays in pc `"panic"`. A queue without a database
(`db == nil`) and the parsing of damaged lines are left out. The file is the set of
its entries: only what it contains matters to the properties.

### `PlanLifecycle` and `OneShot`: one stored plan

Variables: `plan` (status, version, content of the `plans` row), `due` (its TTL has
passed), `versions` (rows of `plan_versions`), `proc` (the handlers in flight), and
history: `claims`, `past` (every version and content the row had), `skipped`, `ahead`
(versions replaced by an update that had read an older one), `miscounts`. One action per SQL statement: `GetPlanForExecution`, `Claim` (the
compare-and-swap), `MarkExpired`, `FinishPlan`; `CheckCancel`, `CancelPlan`;
`CheckUpdate`, `CountForUpdate`, `UpdatePlanWithVersion`, `SaveUpdatedVersion`;
`CheckRollback`, `CountForRollback`, `FetchTarget`, `SavePreRollback`,
`RestoreVersion`; `CleanupExpiredPlans`. `StatementFails`, `CountFails` and
`PreRollbackFails` are the errors that end a handler and the two that it ignores.
The content of a plan is a model value; the version a caller expects is any of `Asked`,
also one that does not exist yet, as `UpdatePlan` accepts every positive number. The
organisation's limit of versioned plans is a nondeterministic refusal.

`OneShot` is what the two-step flow promises: a plan is offered once, taken by at most
one request, and never on offer again. `ExecutedAtMostOnce` says that
`PlanLifecycle` implements it, with `claims` for the takers and the status for the offer.

### `PlanExecution`: executing plans over three stores

Variables: `plan`, `exec` (the plan's row in `execution_history`), `wf` (the workflow
of a confirm or step plan: `cursor`, the steps gated so far in order of their index, those
that wait for approval, and whether its own tracker row is active; a resume takes the
first one waiting, `FirstPending`), `proc`, and history (`ran`, `approved`, `refused`, `faulty`,
`overlapped`, `miscounts`). It composes plans, tracker and control plane as the three
handlers do: one action per call to a store. What happens inside such a call is the
subject of `PlanLifecycle`, `ExecutionStream` and `WorkflowControl`. Actions follow
`executePlanHandler` (`ClaimPlan`, `CountActive`, `StartPlanExecution`,
`EngineCompletes`/`PlanFails`, `InsertWorkflow`, `CountForWorkflow`, `TrackWorkflow`,
`GateFirstStep`), `resumePlanHandler` (`GetPlan`, `ListWorkflows`, `RejectPlan`, `ApprovePending`,
`ExecuteSingleStep`, `CompleteWorkflow`, `GateNextStep`), `cancelPlanHandler`
(`CheckCancel`) and what all of them end with (`MarkPlan`, `SyncPlanStatus`). A failing
call takes the branch the handler has for it (`AfterFailure`); `Disconnect` ends a
handler between two calls. The deployment is one in which the control plane is
available to plans; approvals by an external engine are left out, and so is the TTL of
plans: that an expired plan is marked and answered 410 is a subject of `PlanLifecycle`.

### `ExecutionStream`: one tracked execution and its SSE streams

Variables: `tracked` (whether the row exists), `row` (status and the array of steps), `proc` (the tracker call of each
control-plane request), `stream` (the SSE handlers with their channels),
`connections` (the connection tracker's count), `ended`, and history (`told`, `gated`,
`announced`, `missed`, `overlapped`). `StartExecution` and `StartFails` are the INSERT after
the workflow has been created. `Call` is what the control plane may report and
the first read of the row; `UpdateSteps` writes the changed copy of the whole array
back, `UpdateStatus` the final status; `ReadForEvent` and `Publish` are
`publishEvent`, with a non-blocking send per subscriber. The streams take
`ResolveExecution`, `TryConnect`, `SendAndSubscribe`, `ReceiveEvent`, `ClientGone`. While
there is no row, a stream is answered with the workflow under its own id
(`wcp_execution_tracker.go:651`, `map_execution_tracker.go:378`) and listens on that
(`key`), where the hub publishes nothing. A workflow that the limit deletes again has no
execution and is not a behaviour here. Heartbeats, texts, costs and timestamps are left out.

### `Idempotency` and `AnswerCache`: the answer cache of POST requests

Variables: `row` (per key, the answer kept and whether it is live), `proc`, and history
(`runs`, `whole`, `replayed`, `made`, `overlapped`, `stale`, `faulty`). `Wrap` is
`Request`, `Lookup`, `RunHandler`, `Store`; time is `Expire`, the TTL goroutine `Sweep`;
`LookupFails` and `Dies` are the faults. An answer is the number of the run that wrote
it. Organisation, tenant, endpoint and key form one key here. `AnswerCache` is the
promise to readers: an answer, once kept, is not replaced until it is forgotten;
`KeepsFirstAnswer` says that `Idempotency` implements it, an expired row counting as
forgotten.

### `DecisionChain` and `Ledger`: the signed decision chain

Variables: `agent` (life and signing configuration of each replica), `queue` (its
channel), `pool` (its workers still in their loop), `dec` (each decision with the goroutine
that writes it), `rows` (the table), `lock` (the advisory lock per chain). Actions:
`RecordDecision` (queue, or synchronous when the queue is full or closed), `Receive` and
`WorkerLeaves` (`asyncWorker`), `Lock`, `ReadTail`, `Commit` of `recordToDB`; `TxFails`,
`AckLost`; `Start`, `Shutdown`, `Exit` (the wait for the workers is over),
`ShutdownTimesOut`, `Crash`. Before `Lock` the transaction sets its tenant
(`set_config`, `rls/scope.go:49`); under READ COMMITTED, Postgres' default, the tail is
read as of its own statement, so that this makes no difference. Rows are never removed. `VerifyEntries` is the verification an agent answers with, over the keys
of its own configuration. Hashes and signatures are free constructors: equal only if
everything that goes into them is. Decisions are numbered in the order of
`created_at`. A chain may begin with a row older than the migration that
introduced links and signatures. `Ledger` is the promise: numbered lists that only grow
at their end and take a decision once; `ChainsAreLedgers` says that the chains implement it.

### MC modules

`MCWorkflowControl`, `MCAuditQueue`, `MCPlanLifecycle`, `MCPlanExecution`,
`MCExecutionStream`, `MCIdempotency`, `MCDecisionChain` define the constants and the
symmetry sets: request slots and plan contents, and entries only where the
configuration treats them alike. No run with a liveness property uses symmetry.

### Proof modules

`WorkflowControlProofs`, `AuditQueueProofs`, `PlanLifecycleProofs`, `PlanExecutionProofs`,
`ExecutionStreamProofs`, `IdempotencyProofs`, `DecisionChainProofs`: one per component,
each extends its component's module. What they prove is described under Proofs.

## Runs

| Run | Shows | Bounds |
|---|---|---|
| `wcp_races` | `TypeOK`, `AllowIsBacked`, `ResumesWereGated`, `CursorNeverRetreats`, `KeyIsImmutable` under every interleaving of two requests | 2 slots, 3 calls, one failed statement: two racing gates after a third call that leaves a row |
| `wcp_expiry` | `QueueOvershootIsBounded`, `SweepKeepsSettled`, and `RefusalStopsWorkflow` under fairness, with a sweep that fails or dies | one step, two requests, 3 calls, one fault, queue limit 1, so that two gates can both count zero |
| `wcp_sequential` | `CompletedHasNoPending`, `ApprovalFollowsDecision`, `CheckpointFollowsStep`: what callers that wait for each answer may rely on | one slot, five calls over two steps |
| `audit_faults` | `TypeOK`, `AcceptedIsAccounted` | two callers, one worker, queue of one, one fault of each kind |
| `audit_recovery` | `StoredOnce`, `FallbackNeverForgets`, `QueueDrains`, `ShutdownEnds` | two crashes and two restarts: a crash in a recovery, then in the next one |
| `plan_races` | `TypeOK`, `SnapshotsAreTrue`, `HistoryComplete`, `OvershootIsBounded`, `ExecutedAtMostOnce` (refinement) | 3 requests in flight, 5 calls, 2 contents, version limit 2, one fault: an update and a rollback at the limit while a third request claims |
| `plan_execution` | `TypeOK`, `EndedPlansFreeTheirSlot`, `LimitOvershoot`, `StepModeInOrder`, `ClaimedPlanEnds` | one plan of each mode with two steps, 2 requests, 4 calls, 2 active executions, one fault: execute, two resumes and a cancel of one plan fit |
| `execution_stream` | `TypeOK`, `ConnectionsAreExact`, `StepsFollowWorkflow`, `StreamsEnd` | 2 writers, 2 steps, 2 streams for one connection, channel of one (16 in the code), the creation of the row and 2 operations, one fault: one event fills the channel and the next is dropped; two steps are gated, or one gated and reviewed, completed or finished. Longer sequences are left to the theorem `StepsFollow` |
| `idempotency` | `TypeOK`, `ReplaysAreOriginal`, `SequentialRetriesRunOnce`, `KeepsFirstAnswer` (refinement) | 2 keys, 3 requests in flight, 5 calls, one fault: two that race, then a retry before and one after the expiry |
| `decision_chain` | `TypeOK`, `ChainsVerify`, `QueueIsFlushed`, `ChainsAreLedgers` (refinement), `DecisionsSettle` | 2 agents, one chain, 3 decisions, queue of one, one worker each, 2 starts, one crash, one fault, three key configurations: worker, synchronous writer and a second replica meet on one tail. Several workers per agent, one leaving while another writes, are left to the theorems |

The bounds name every counter that would be infinite (`MaxCalls`, `MaxOps`,
`MaxDecisions`, `MaxFaults`, `MaxOutages`, `MaxLostAcks`, `MaxDiskFaults`, `MaxCrashes`,
`MaxRestarts`, `MaxStarts`). Retry loops of the audit queue are cut from three attempts
to `ExecAttempts = 2` and `WorkerRounds = 1`, enough for "failed, then succeeded" and
"failed for good". `MaxPending`, `MaxVersions`, `MaxActive`, `MaxConnections`,
`ChannelSize`, `QueueSize` are limits of the code, set low so that they are reached.
Deadlock is not checked where a behaviour may end because its calls are used up.

Some properties carry a condition because the code does not keep them without it.
Those of `wcp_sequential` are for one request at a time. `StepModeInOrder` and
`StepsFollowWorkflow` exclude calls that overlapped (`overlapped`); `ClaimedPlanEnds`
excludes plans refused at the limit; `EndedPlansFreeTheirSlot` excludes the failures of
confirm and step plans; `StreamsEnd` excludes streams that missed the terminal event or
listen on the workflow's id; `SnapshotsAreTrue` and `HistoryComplete` exclude versions that
somebody expected before they existed (`ahead`); `AcceptedIsAccounted` excludes entries
written to a file that a recovery has replaced (`Unreadable`).
What happens in the excluded cases is listed below.

### Runs that end in a violation

| Run | What the repository says | What happens |
|---|---|---|
| `wcp_sweep_approved` | hitl_wcp_community.go:200 "auto-EXPIRES timed-out pending approvals and aborts their workflows" | one gate, then its approval, one after the other: approving leaves the queue row pending; when it falls due later, the sweep aborts the approved workflow (`ApprovedIsNotAborted`) |
| `plan_confirm` | map_wcp_execution.go:48 "The client must approve each step before it executes." | gating `step_0` moves the cursor to 1, so the first resume approves step 0 and executes step 1; one request at a time |

### Also seen while modelling, without a run of their own

Control plane (`workflow_control/service.go`):

* :780 "both callers return the same decision": a call reads its own upsert back, then
  the other call replaces it.
* :679 the workflow "can't advance past a pending approval boundary": only the last step
  is looked at, so an earlier step re-evaluated to require_approval holds nothing back.
* :1589, :1611 a step gated with an idempotency key can never be resumed: the resume
  passes no key and always mismatches.
* Re-evaluating a step advances `current_step_index` although no row is added, so
  `total_steps` exceeds the number of steps.
* Complete, abort, fail, approve and reject check an earlier read and write without a
  condition: the last write wins, over a terminal status too (:965, :1274). A completion
  validated on an earlier read is recorded on a step that got a key since (:1413).

Audit queue (`agent/audit_queue.go`): a send that passed the closed check panics on the
closed channel (:421, :720); a recovery that could not store everything renames a new file
over the one the queue has open (:842), so what falls back later is written to an unlinked
file and is gone after the exit, although :200 says "Recovery: Automatic replay from
fallback on startup"; errors while writing the temporary file are ignored before it replaces the
original (:836); a line over 64 KB stops every later recovery (:780).

Plans: `UpdatePlan` accepts any `expected_version` of at least 1 (`planning/service.go:399`)
and does not compare it with the row it reads (:404). A request that expects 2 reads
version 1, another update makes it version 2, the first UPDATE succeeds and files version 1's
content under version 2 (:462-478, "Snapshot of the version before update"); the true
version 2 is never filed. The UPDATE of an update or a rollback checks the version, not the status, so a
plan claimed meanwhile is changed under its executor, and `GetPlanForExecution` returns
the plan as it read it before the claim. An execution answered 429 leaves its plan
"executing" for ever. In confirm and step mode a failure, a rejection and a cancellation
before the row exists never reach the tracker, so the slot leaks; a cancelled plan leaves
its workflow in progress; a step that failed is recorded as completed; two resumes at a
time rerun or skip steps; a resume between the creation of the workflow and its first
gate runs step 0 unapproved.

Tracker and streams: service.go's comment that `AddStep` is an upsert is not what
`shared/execution` does, so a step gated twice appears twice and only the first entry is
kept up to date; two writers lose each other's step; a terminal event between the read
and the subscription, or sent to a full channel, never reaches the stream;
cancelling a plan's execution through the unified endpoint always fails
(`unified_execution_handler.go:350`).

Idempotency cache: overlapping retries all run the handler and may be answered
differently; `store.go:149` calls that race impossible to observe. While an expired row
waits for the sweep, every retry runs the handler and its answer is discarded.

Decision chain: with a label in `AXONFLOW_AUDIT_SIGNING_KEY_ID`, records of a rotated key
no longer verify, because retained keys are always filed under derived ids
(`ChainsVerify` asks for derived ids); records written synchronously while main exits
are cut off; a chain with a legacy row never verifies; the cleanup of migration 025 and the
retention executor (`orchestrator/audit_cleanup.go:431`, on when
`AXONFLOW_AUDIT_RETENTION_ENFORCE` is set) delete rows of `decision_chain` by age, which
breaks the links of a chain that is only partly old enough.

## Fairness

Weak fairness of what runs on a goroutine that nothing blocks for ever; no strong
fairness anywhere, and no fairness of faults, of callers or of time.

* `WorkflowControl`: `Serve(p)`, a started handler; `SweepStep \/ SweepAbort`, a sweep
  under way. That an approval falls due is not assumed.
* `AuditQueue`: worker, batcher, the caller's own call, Shutdown once begun, recovery;
  nobody has to log, to stop the process or to restart it, and the database need not
  come back.
* `PlanExecution`: a handler under way, whose calls to the stores return.
* `ExecutionStream`: a tracker call under way and an SSE handler; a client need not leave.
* `DecisionChain`: `Write(d)`, `Work(a)`, `Stop(a)`: writers have a deadline, Postgres
  releases an advisory lock when its transaction ends, and main gives the shutdown six
  seconds. A writer may lose the lock to others; with finitely many decisions it is
  free in the end.

`RefusalStopsWorkflow` and `StreamsEnd` promise nothing once a statement has failed: the
code does not repair what a failed abort or a failed publication left undone.

## Proofs

Every invariant and action property that a passing run checks, and all three refinements,
are theorems: they hold for every set of requests, steps, keys, plans, agents and
entries and for every bound, not only for the instances of the runs. What TLC showed for
two requests the theorems show for any number; where a bound counts requests
(`Cardinality(Procs)`), their set is assumed finite.

All proofs have one shape. An *Effect* lemma per action (or per group of actions that
write the same) says what it does to the variables; a lemma per invariant says which
changes keep it; a lemma about `Next` combines them; the temporal step is PTL. Each
inductive invariant was checked by TLC on the runs' instances before it was proved.

### `WorkflowControlProofs`

* `TypeCorrect`: `Spec => []TypeOK`. Inductive invariant `TypeInv`: `TypeOK` with
  `HandlersOK`, which ties a handler's pc to its operation and says that an
  operation on a step holds a member of `Steps`. Without it, `steps[q.step]` could
  be applied outside its domain: `NoStep` is a legal value of the field.
* `AllowBacked`: `Spec => []AllowIsBacked`. `AllowIsBacked` speaks of answers only
  and is not inductive. `BackedInv` adds `RowsBacked` (a row that says allow is in
  `allowed`, an approved one in `approved`) and `HandlersBacked` (a handler that
  carries allow towards its answer is backed).
* `CursorMonotone`, `KeyStable`, `SweepSafe`: the action properties
  `CursorNeverRetreats`, `KeyIsImmutable`, `SweepKeepsSettled`.
* `ResumesGated`: `ResumesWereGated` says nothing of a resume whose gate is recorded and
  whose count is still to come. `ResumeInv` adds those (`Owing`): the resumes counted on
  a checkpoint together with the resumes owing are fewer than the gates of the step. It
  also keeps that the checkpoint of a resume under way exists and that only a resume
  counts itself.
* `QueueBounded`: `QueueInv` counts the pending rows together with the gates that have
  counted and not yet inserted (`Enqueuing`). A gate that passes the count found fewer
  than `MaxPending` rows, and the others in flight are at most one fewer than the slots.
* `CompletedIsSettled`, `ApprovalsFollow`: for one slot (`ASSUME NEW p, Procs = {p}`), any
  number of calls and faults, and the sweep. `SequentialInv` says that what a handler
  checked is still true when it writes (`SequentialLocal`); of the other actor, the sweep,
  it uses that expiring a step takes its pending state away and never gives it one. With two
  slots both properties fail; this is the reason for the hypothesis.
* `CheckpointsFollow`: for one slot and `MaxFaults = 0`, since a checkpoint that could
  not be written is only logged. Between upsert and checkpoint the row carries the decision
  of the gate under way (`CheckpointInv`).

Assumptions: `NamesAssumption`, `InputsAssumption`, `RequestsAssumption` (finitely many
slots, at least one), `BoundsAssumption`.

### `PlanLifecycleProofs`

For any number of requests and contents and any limits, `TypeCorrect`, `SnapshotsTrue`
(`SnapshotsAreTrue`), `HistoryKept` (`HistoryComplete`) and `ClaimedOnce` (the refinement
`ExecutedAtMostOnce`). The invariant `Inv` has two parts beside the types. `RowInv`: the
row is the newest of its past, the past has one content per version, the history is part of
it but for versions in `ahead`, and a claimed plan is not pending. `HandlerInv`: what a
handler read is in the past and not newer than the row; an update that has swapped the
version either replaced the one it read, which is why the snapshot it saves afterwards from
that read is the right one, or one in `ahead`. A rollback about to restore has
saved the version it replaces, or failed to, or found it in `ahead`. `HistoryComplete` is inductive relative to
`Inv`. The refinement rests on `Moves`: no statement leads back to pending, and only a
claim counts. `HistoryBounded` (`OvershootIsBounded`) counts the versions together with
the handlers past the count that may still add one (`Adding`).
Assumptions: `ContentAssumption`, `OpsAssumption`, `AskedAssumption`, `RequestsAssumption` (finitely many
slots), `LimitAssumption`.

### `PlanExecutionProofs`

* `TypeCorrect`: `TypeOK` for any number of plans, steps and requests.
* `OvershootBounded` (`LimitOvershoot`): `LimitInv` counts the active rows together with
  the handlers between count and insert (`Passing`).
* `SlotsReleased` (`EndedPlansFreeTheirSlot`): `DriveInv` says who may work on a plan: a
  handler that drives a plan finds it claimed (`ClaimedInv`), at most one executes it
  (`OneExecutor`), and before that nothing has started (`StartInv`). `SlotInv` then says that
  the row of an engine-run plan is active only while some handler is on the way to release
  it, and that of a completed plan of another mode only while a handler is about to
  synchronise it.
* `StepsInOrder` (`StepModeInOrder`): `StepInv` says, for a plan whose requests did not
  overlap and met no failing call: one handler drives it (`OneDriver`); its pc tells how the
  cursor, the waiting step and the number of steps executed relate (`Stages`); while
  nobody works on it, the workflow waits for the approval of the step at its cursor
  (`Between`); a completed plan ran all steps (`AllRan`).

Assumptions: `StepsAssumption` (a plan has a step), `RequestsAssumption`,
`LimitAssumption`, `ModesAssumption` (some plan, one mode each).

### `AuditQueueProofs`

* `TypeCorrect`, with what a task at each of its steps has in hand.
* `NothingIsDropped` (`AcceptedIsAccounted`): `AccountInv` adds that workers end only on a
  closed and empty queue and the process only after them (`ExitInv`), that during recovery
  nothing is in memory (`FreshInv`), that the file's entries are still to be replayed, have
  failed or are stored (`ReplayInv`), and that what a dead process held is in `lost`
  (`DeadInv`). `ExitInv` is where `WorkersAssumption` is needed: with no worker,
  `Shutdown` would wait for nobody and drop the queue. Excluded are the entries of a
  replaced file (`Unreadable`).
* `ExitIsRecoverable` (`RecoverableAfterExit`): until a recovery replaces the file, a clean
  shutdown leaves every accepted entry stored or in the file that the next start replays,
  unless a crash or a disk error took it. By `ExitInv` nothing is left in memory; a file
  without a name needs a recovery that replaced it (`FilesOK`).
* `RecoveryForgetsNothing` (`FallbackNeverForgets`): a step that is not a disk fault takes
  nothing out of the file that is not stored after it; from `ReplayInv`.
* `StoredAtMostOnce` (`StoredOnce`): while no acknowledgement was lost, nothing crashed and
  the disk did not fail, an entry is in one place at a time: with one caller, in a channel,
  with one worker, in the batch, in the file or in the table (`OnePlace`), so no two tasks
  can store it.

Assumptions: `EntriesAssumption`, `WorkersAssumption` (a worker exists; the agent starts
three), `SizesAssumption`.

### `ExecutionStreamProofs`

* `TypeCorrect`, with `TrackedOK`: nobody calls the tracker before the row exists.
* `ConnectionsCounted` (`ConnectionsAreExact`): the count is the cardinality of the open
  streams, whose set stays finite; every way out of the handler takes exactly one off.
* `StepsFollow` (`StepsFollowWorkflow`): `FollowInv`, while calls neither overlapped nor
  failed: at most one writer is active, the array it is about to write back is the present
  one but for its own change, a step not gated has no entry, one gated once has exactly
  one with the status last reported, apart from the step the writer is changing.

Assumptions: `LimitAssumption`, `StepAssumption`.

### `IdempotencyProofs`

For any number of keys and any finite set of request slots, `TypeCorrect`, `AnswersKept`
(the refinement `KeepsFirstAnswer`), `ReplaysOriginal` (`ReplaysAreOriginal`) and
`RunsOnce` (`SequentialRetriesRunOnce`). The refinement needs types only: a store on a key
with a row changes nothing, and the sweep deletes what readers no longer see. `ReplayInv`
adds that rows and requests about to store hold whole answers, and that what was served
for a key is its row's answer. `RunInv` adds that keys not in `overlapped` have one
request, that expired rows are in `stale`, and that `made` counts exactly the answer in the
row or on its way to it.
Assumptions: `RequestAssumption` (some key, finitely many slots), `BoundAssumption`.

### `DecisionChainProofs`

* `TypeCorrect` and `ShutdownFlushes` (`QueueIsFlushed`): `TypeInv` says that a queue holds
  exactly the decisions waiting at its agent, each once (`QueueInv`), that asynchronous
  writers are workers still in their loop (`BusyInv`), and that the lock of a chain belongs to whoever
  has taken it and not ended (`LockInv`). `ShutdownFlushes` rests on `PoolInv` beside it: once
  a worker has left, the queue is closed and empty and stays so. With `BusyInv`, when the last
  worker has left, neither queue nor workers hold a decision.
* `ChainsRefineLedger` (`ChainsAreLedgers`) and `ChainsAlwaysVerify` (`ChainsVerify`):
  `ChainInv`. `RowsInv`: the rows of a chain are numbered without gap or repetition, each
  linked to its predecessor and sealed by what it holds. `TailInv`: the row in the hand of
  a writer about to commit continues the *present* tail. Only the holder of the lock appends,
  so by `LockInv` the tail it read cannot have moved; this is where the advisory lock is
  needed. That every record verifies follows from the links and seals because hashes and
  signatures are free constructors.

Assumptions: `ConfigAssumption`, `BoundsAssumption`, `DeploymentAssumption` (an agent and a
chain exist), `LabelAssumption` (a label is not the derived id of a key, which is a
prefix of its SHA-256).

### Not proved

TLC evaluates all assumptions in every run of their modules. Only model-checked: the
liveness properties `RefusalStopsWorkflow`, `QueueDrains`, `ShutdownEnds`,
`ClaimedPlanEnds`, `StreamsEnd`, `DecisionsSettle`, since the prover does no liveness under
fairness, no ENABLED and no induction over recursively defined data.

## Plan

Done: the control plane with its approval queue, the audit queue, plans, plan execution,
the tracker with its streams, the idempotency cache, the decision chain; the proofs of
every safety property and refinement that a run checks. Left:

1. Theorems that say more than the runs ask: the hypothesis "one slot" of the sequential
   control-plane theorems weakened to "calls on this workflow did not overlap".
2. Webhook delivery, the rate limiters and the revocation cache, the LLM registry and the
   cost budgets, which keep state across requests but whose rules are simpler.
3. MAP approvals through an external engine, which would replace the control plane in
   `PlanExecution`.

## Not modelled

The repository has about 174,000 lines of implementation. Most of them are not a state
machine: policy matching and detectors (pure functions of a text, whose outcome the
models leave open), LLM providers, connectors and SDKs (I/O to external systems), request
handlers of the agent and the MCP server (stateless between requests: they parse, ask,
forward and format), reports, regulation packs and exports (reads), migrations, and
enterprise parts that the community source only stubs. What the models cover is the part
that keeps state across requests, goroutines or restarts: they map most of the planning,
workflow control, idempotency, decision chain and audit queue code, and the parts of
`run.go` and `shared/execution` that execute and show plans, but a small share of the
whole. Authentication is kept only as "the caller owns the workflow".

Within the modelled parts: `StartStep`, `FailStep` and `SkipStep` of the tracker, which
only tests call; the purge of old executions; the workflow engine inside
`EngineCompletes`; the in-memory store of the decision chain; listings and reads.

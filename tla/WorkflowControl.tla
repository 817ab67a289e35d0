--------------------------- MODULE WorkflowControl ---------------------------
(***************************************************************************)
(* The Workflow Control Plane (platform/orchestrator/workflow_control) for *)
(* one workflow: its row in `workflows', its rows in `workflow_steps' and  *)
(* `workflow_checkpoints', the HITL approval queue that the policy adapter *)
(* fills, and the requests being served at the same time.                  *)
(*                                                                         *)
(* The service holds no lock and opens no transaction across statements,   *)
(* so a handler is one action per SQL statement: what it read stays in its *)
(* local record while other handlers go on.  A pc names the statement a    *)
(* handler executes next.                                                  *)
(***************************************************************************)
EXTENDS Integers, FiniteSets

CONSTANTS
    Procs,       \* requests that can be in flight at the same time
    Steps,       \* step ids the callers use
    NoStep,      \* the step of a request that names none
    Keys,        \* idempotency keys the callers use
    NoKey,       \* no idempotency_key supplied / SQL NULL
    Ops,         \* the operations the callers issue, a subset of AllOps
    Modes,       \* the gate modes the callers use, a subset of AllModes
    EvalTier,    \* TRUE when InitializeWCPHITL installed the HITL adapter
    MaxPending,  \* maxPendingPerTenant of the HITL adapter
    MaxCalls,    \* bound: requests issued in a behaviour
    MaxFaults    \* bound: statements that fail in a behaviour

Decisions == {"allow", "block", "require_approval"}
Approvals == {"none", "pending", "approved", "rejected", "expired"}
Statuses  == {"in_progress", "completed", "aborted", "failed"}
AllModes  == {"idempotent", "reevaluate", "override"}
AllOps    == {"gate", "approve", "reject", "complete", "abort", "fail", "mark",
              "resumeLast", "resumeAt"}

ASSUME NamesAssumption  == NoStep \notin Steps /\ NoKey \notin Keys
ASSUME InputsAssumption == Ops \subseteq AllOps /\ Modes \subseteq AllModes
ASSUME RequestsAssumption == IsFiniteSet(Procs) /\ Procs # {}
ASSUME BoundsAssumption == /\ EvalTier \in BOOLEAN
                           /\ MaxPending \in Nat
                           /\ MaxCalls \in Nat
                           /\ MaxFaults \in Nat

VARIABLES
    wf,        \* the workflows row: status, current_step_index, total_steps
    steps,     \* the workflow_steps rows, by step id
    cps,       \* the workflow_checkpoints rows, by step id
    hitl,      \* number of 'pending' hitl_approval_queue rows, by step id
    sweep,     \* the expiry goroutine: pc, step in hand, rows still to handle
    proc,      \* the handler of each request in flight
    resp,      \* the last response each request slot returned
    allowed,   \* history: steps some evaluation decided to allow
    approved,  \* history: steps some approver approved
    calls,     \* requests issued so far
    faults     \* statements failed so far

rows == <<wf, steps, cps>>
ghosts == <<allowed, approved>>
vars == <<wf, steps, cps, hitl, sweep, proc, resp, allowed, approved, calls, faults>>

-----------------------------------------------------------------------------
(* Rows and local records.                                                 *)

NoTotal == -1
NoDecision == "none"

\* A step row; decision "none" stands for a row that does not exist.
NoRow == [idx |-> 0, decision |-> NoDecision, approval |-> "none", gates |-> 0,
          completions |-> 0, last |-> NoDecision, key |-> NoKey]

NoCheckpoint == [idx |-> 0, decision |-> NoDecision, resumes |-> 0]

IdleHandler == [pc |-> "idle", op |-> "none", step |-> NoStep, key |-> NoKey,
                mode |-> "idempotent", mine |-> TRUE, status |-> "in_progress",
                idx |-> 0, hold |-> FALSE, queued |-> FALSE, dec |-> NoDecision]

NoResponse == [op |-> "none", out |-> "none", step |-> NoStep, dec |-> NoDecision]

Requests ==
    {r \in [op: Ops, step: Steps \cup {NoStep}, key: Keys \cup {NoKey},
            mode: Modes \cup {"idempotent"}, mine: BOOLEAN] :
        /\ (r.step = NoStep) <=> (r.op \in {"complete", "abort", "fail", "resumeLast"})
        /\ r.op \notin {"gate", "mark"} => r.key = NoKey
        /\ r.op = "gate" => r.mode \in Modes
        /\ r.op # "gate" => r.mode = "idempotent"}

IsTerminal(status) == status \in {"completed", "aborted", "failed"}
Exists(row) == row.decision # NoDecision
IsPending(row) == row.decision = "require_approval" /\ row.approval = "pending"
Resumable(cp) == cp.decision \in {"allow", "require_approval"}

\* ORDER BY step_index: the rows that may come last; equal indexes are unordered.
LastSteps == {s \in Steps : Exists(steps[s]) /\
                 \A t \in Steps : Exists(steps[t]) => steps[t].idx =< steps[s].idx}

\* ORDER BY step_index DESC LIMIT 1 over the resumable checkpoints.
LastCheckpoints == {s \in Steps : Resumable(cps[s]) /\
                      \A t \in Steps : Resumable(cps[t]) => cps[t].idx =< cps[s].idx}

\* No row, both keys absent, or both present and equal.
KeyMatches(row, key) == ~Exists(row) \/ row.key = key

\* Mutant: an approval not yet given already resolves the gate.
CachedDecisionEager(row) ==
    IF row.decision # "require_approval" THEN row.decision
    ELSE IF row.approval \in {"rejected", "expired"} THEN "block" ELSE "allow"

\* The decision a cached response reports: a settled approval resolves it.
CachedDecision(row) ==
    IF row.decision # "require_approval" THEN row.decision
    ELSE IF row.approval = "approved" THEN "allow"
    ELSE IF row.approval \in {"rejected", "expired"} THEN "block"
    ELSE "require_approval"

\* Mutant: the conflict clause keeps an approval state already there.
GatedApprovalKept(row, dec) ==
    IF row.approval # "none" THEN row.approval
    ELSE IF dec = "require_approval" THEN "pending" ELSE "none"

\* approval_status = EXCLUDED.approval_status.
GatedApproval(row, dec) == IF dec = "require_approval" THEN "pending" ELSE "none"

\* Mutant: idempotency_key = EXCLUDED.idempotency_key.
GatedKeyReplaced(row, key) == key

\* COALESCE(workflow_steps.idempotency_key, EXCLUDED.idempotency_key).
GatedKey(row, key) == IF row.key = NoKey THEN key ELSE row.key

\* Mutant: the conflict clause forgets the counter.
NextGateCountLost(row) == IF Exists(row) THEN row.gates ELSE 1

NextGateCount(row) == row.gates + 1

\* INSERT ... ON CONFLICT DO UPDATE of the gate's decision.
AddStepRow(row, q) ==
    [idx         |-> IF Exists(row) THEN row.idx ELSE q.idx,
     decision    |-> q.dec,
     approval    |-> GatedApproval(row, q.dec),
     gates       |-> NextGateCount(row),
     completions |-> row.completions,
     last        |-> IF Exists(row) THEN row.decision ELSE q.dec,
     key         |-> GatedKey(row, q.key)]

BumpedRow(row) == [row EXCEPT !.gates = @ + 1, !.last = row.decision]

\* Mutant: the UPDATE without its guard.
AdvancedCursorUnguarded(cur, idx) == idx

\* UPDATE ... SET current_step_index = $1 WHERE current_step_index < $1.
AdvancedCursor(cur, idx) == IF cur < idx THEN idx ELSE cur

\* Mutant: ON CONFLICT DO NOTHING.
CheckpointRowKept(cp, q) ==
    IF cp.decision = NoDecision THEN [idx |-> q.idx, decision |-> q.dec, resumes |-> 0] ELSE cp

\* step_index and resume_count are not in the conflict's SET list.
CheckpointRow(cp, q) ==
    IF cp.decision = NoDecision THEN [idx |-> q.idx, decision |-> q.dec, resumes |-> 0]
    ELSE [cp EXCEPT !.decision = q.dec]

\* Complete, Abort and Fail: total_steps = COALESCE(total_steps, current_step_index).
Finalised(w, status) ==
    [w EXCEPT !.status = status, !.total = IF @ = NoTotal THEN w.cur ELSE @]

-----------------------------------------------------------------------------
(* Local moves of a handler.                                               *)

\* The handler goes on with the locals q.
Proceed(p, q) == proc' = [proc EXCEPT ![p] = q] /\ UNCHANGED resp

Goto(p, pc) == Proceed(p, [proc[p] EXCEPT !.pc = pc])

\* The handler answers r and the slot is free again.
Return(p, r) ==
    /\ proc' = [proc EXCEPT ![p] = IdleHandler]
    /\ resp' = [resp EXCEPT ![p] = r]

Ok(p) == Return(p, [NoResponse EXCEPT !.out = "ok"])
Error(p) == Return(p, [NoResponse EXCEPT !.out = "error"])
KeyMismatch(p) == Return(p, [NoResponse EXCEPT !.op = proc[p].op, !.out = "mismatch"])
Decided(p, dec) ==
    Return(p, [op |-> proc[p].op, out |-> "ok", step |-> proc[p].step, dec |-> dec])

\* A gate answers its caller, or the resume that called it goes on.
GateAnswer(p, dec) ==
    IF proc[p].op = "resume"
    THEN Proceed(p, [proc[p] EXCEPT !.pc = "resumeCount", !.dec = dec])
    ELSE Decided(p, dec)

NewHandler(r) ==
    [pc |-> "workflow", op |-> r.op, step |-> r.step, key |-> r.key, mode |-> r.mode,
     mine |-> r.mine, status |-> "in_progress", idx |-> 0, hold |-> FALSE,
     queued |-> FALSE, dec |-> NoDecision]

\* A request arrives; mine is FALSE for a caller of another tenant or org.
Call(p) ==
    /\ proc[p].pc = "idle"
    /\ calls < MaxCalls
    /\ \E r \in Requests : Proceed(p, NewHandler(r))
    /\ calls' = calls + 1
    /\ UNCHANGED <<rows, hitl, sweep, ghosts, faults>>

-----------------------------------------------------------------------------
(* Reads.                                                                  *)

RefusesTerminal(op) == op \in {"gate", "resume", "complete", "abort", "fail"}

AfterWorkflowRead(op) ==
    CASE op \in {"gate", "resume", "complete"}  -> "steps"
      [] op \in {"approve", "reject", "mark"}   -> "row"
      [] op \in {"abort", "fail"}               -> "write"
      [] op \in {"resumeLast", "resumeAt"}      -> "checkpoint"

\* First statement of GetByID, the ownership check and the terminal check.
ReadWorkflow(p) ==
    LET q == proc[p] IN
    /\ q.pc = "workflow"
    /\ IF ~q.mine \/ (RefusesTerminal(q.op) /\ IsTerminal(wf.status))
       THEN Error(p)
       ELSE Proceed(p, [q EXCEPT !.pc = AfterWorkflowRead(q.op),
                                 !.status = wf.status, !.idx = wf.cur + 1])
    /\ UNCHANGED <<rows, hitl, sweep, ghosts, calls, faults>>

\* Mutant: only the last step is looked at, as in StepGate.
BlocksCompletionLast == \E s \in LastSteps : IsPending(steps[s])

BlocksCompletion == \E s \in Steps : IsPending(steps[s])

\* Second statement of GetByID.  A gate keeps whether the last step waits for
\* an approval of another step; a completion is refused if any step waits.
ReadSteps(p) ==
    LET q == proc[p] IN
    /\ q.pc = "steps"
    /\ IF q.op = "complete"
       THEN IF BlocksCompletion THEN Error(p) ELSE Goto(p, "write")
       ELSE \/ LastSteps = {} /\ Goto(p, "row")
            \/ \E l \in LastSteps :
                  Proceed(p, [q EXCEPT !.pc = "row",
                                       !.hold = IsPending(steps[l]) /\ l # q.step])
    /\ UNCHANGED <<rows, hitl, sweep, ghosts, calls, faults>>

\* Approve and reject: GetStep and the two checks on it.
ReadStepForReview(p) ==
    /\ proc[p].pc = "row" /\ proc[p].op \in {"approve", "reject"}
    /\ IF IsPending(steps[proc[p].step]) THEN Goto(p, "write") ELSE Error(p)
    /\ UNCHANGED <<rows, hitl, sweep, ghosts, calls, faults>>

\* MarkStepCompleted: GetStepDecision and the key check.
ReadStepForCompletion(p) ==
    /\ proc[p].pc = "row" /\ proc[p].op = "mark"
    /\ IF KeyMatches(steps[proc[p].step], proc[p].key)
       THEN Goto(p, "write") ELSE KeyMismatch(p)
    /\ UNCHANGED <<rows, hitl, sweep, ghosts, calls, faults>>

\* StepGate with a decision to make: a policy evaluation, whose outcome is any
\* decision, or the caller's override.  With the HITL adapter installed a
\* policy that requires approval goes on to queue it.
Evaluate(p) ==
    LET q == proc[p] IN
    /\ \E d \in Decisions :
         /\ Proceed(p, [q EXCEPT !.dec = d,
                          !.pc = IF EvalTier /\ d = "require_approval" /\ q.mode # "override"
                                 THEN "count" ELSE "add"])
         /\ allowed' = IF d = "allow" THEN allowed \cup {q.step} ELSE allowed
    /\ UNCHANGED approved

\* StepGate: GetStepDecision, the key check, the cached path, the pending
\* approval guard, the evaluation.
ReadStepForGate(p) ==
    LET q == proc[p]
        row == steps[q.step]
    IN
    /\ q.pc = "row" /\ q.op \in {"gate", "resume"}
    /\ IF ~KeyMatches(row, q.key) THEN KeyMismatch(p) /\ UNCHANGED ghosts
       ELSE IF q.mode = "idempotent" /\ Exists(row) THEN Goto(p, "bump") /\ UNCHANGED ghosts
       ELSE IF q.hold THEN Error(p) /\ UNCHANGED ghosts
       ELSE Evaluate(p)
    /\ UNCHANGED <<rows, hitl, sweep, calls, faults>>

RefusesResume(status) == status \in {"completed", "failed"}

\* Resume: the checkpoint to restart from, then the state check.  An aborted
\* workflow is reset first; the gate that follows carries no idempotency key.
ReadCheckpoint(p) ==
    LET q == proc[p]
        candidates == IF q.op = "resumeLast" THEN LastCheckpoints
                      ELSE {s \in {q.step} : Resumable(cps[s])}
    IN
    /\ q.pc = "checkpoint"
    /\ IF candidates = {} \/ RefusesResume(q.status)
       THEN Error(p)
       ELSE \E s \in candidates :
              Proceed(p, [q EXCEPT !.op = "resume", !.step = s, !.mode = "reevaluate",
                            !.pc = IF q.status = "aborted" THEN "reset" ELSE "workflow"])
    /\ UNCHANGED <<rows, hitl, sweep, ghosts, calls, faults>>
-----------------------------------------------------------------------------
(* Statements of StepGate that write, in order.                            *)

\* SELECT COUNT(*) over the pending rows of every step.
PendingRows == Cardinality(UNION {{s} \X (1 .. hitl[s]) : s \in Steps})

\* Mutant: the limit is read but not compared.
AtPendingLimitNever == FALSE

\* pendingCount >= a.maxPendingPerTenant.
AtPendingLimit == PendingRows >= MaxPending

\* CreateApproval counts the tenant's pending rows, then inserts one; at the
\* limit the adapter logs the error and the gate goes on without an entry.
CountPendingApprovals(p) ==
    /\ proc[p].pc = "count"
    /\ Goto(p, IF AtPendingLimit THEN "add" ELSE "enqueue")
    /\ UNCHANGED <<rows, hitl, sweep, ghosts, calls, faults>>

EnqueueApproval(p) ==
    /\ proc[p].pc = "enqueue"
    /\ hitl' = [hitl EXCEPT ![proc[p].step] = @ + 1]
    /\ Proceed(p, [proc[p] EXCEPT !.pc = "add", !.queued = TRUE])
    /\ UNCHANGED <<rows, sweep, ghosts, calls, faults>>

BumpGateCountCached(p) ==
    LET s == proc[p].step IN
    /\ proc[p].pc = "bump"
    /\ steps' = [steps EXCEPT ![s] = BumpedRow(@)]
    /\ Decided(p, CachedDecision(steps[s]))
    /\ UNCHANGED <<wf, cps, hitl, sweep, ghosts, calls, faults>>

AddStep(p) ==
    /\ proc[p].pc = "add"
    /\ steps' = [steps EXCEPT ![proc[p].step] = AddStepRow(@, proc[p])]
    /\ Goto(p, "cursor")
    /\ UNCHANGED <<wf, cps, hitl, sweep, ghosts, calls, faults>>

UpdateCurrentStepIndex(p) ==
    /\ proc[p].pc = "cursor"
    /\ wf' = [wf EXCEPT !.cur = AdvancedCursor(@, proc[p].idx)]
    /\ Goto(p, "readback")
    /\ UNCHANGED <<steps, cps, hitl, sweep, ghosts, calls, faults>>

\* If another call replaced the decision, answer with the persisted row.
ReadBack(p) ==
    LET row == steps[proc[p].step] IN
    /\ proc[p].pc = "readback"
    /\ IF row.decision # proc[p].dec
       THEN GateAnswer(p, CachedDecision(row))
       ELSE Goto(p, "saveCheckpoint")
    /\ UNCHANGED <<rows, hitl, sweep, ghosts, calls, faults>>

CreateCheckpoint(p) ==
    /\ proc[p].pc = "saveCheckpoint"
    /\ cps' = [cps EXCEPT ![proc[p].step] = CheckpointRow(@, proc[p])]
    /\ GateAnswer(p, proc[p].dec)
    /\ UNCHANGED <<wf, steps, hitl, sweep, ghosts, calls, faults>>

-----------------------------------------------------------------------------
(* Writes of the other handlers.                                           *)

\* UpdateStatus(in_progress); StepGate then starts with its own GetByID.
ResetStatus(p) ==
    /\ proc[p].pc = "reset"
    /\ wf' = [wf EXCEPT !.status = "in_progress"]
    /\ Goto(p, "workflow")
    /\ UNCHANGED <<steps, cps, hitl, sweep, ghosts, calls, faults>>

IncrementResumeCount(p) ==
    /\ proc[p].pc = "resumeCount"
    /\ cps' = [cps EXCEPT ![proc[p].step].resumes = @ + 1]
    /\ Decided(p, proc[p].dec)
    /\ UNCHANGED <<wf, steps, hitl, sweep, ghosts, calls, faults>>

ApproveStep(p) ==
    /\ proc[p].pc = "write" /\ proc[p].op = "approve"
    /\ steps' = [steps EXCEPT ![proc[p].step].approval = "approved"]
    /\ approved' = approved \cup {proc[p].step}
    /\ Ok(p)
    /\ UNCHANGED <<wf, cps, hitl, sweep, allowed, calls, faults>>

\* Mutant: the rejection is recorded and the workflow left running.
RejectStepOnly(p) ==
    /\ proc[p].pc = "write" /\ proc[p].op = "reject"
    /\ steps' = [steps EXCEPT ![proc[p].step].approval = "rejected"]
    /\ Ok(p)
    /\ UNCHANGED <<wf, cps, hitl, sweep, ghosts, calls, faults>>

RejectStep(p) ==
    /\ proc[p].pc = "write" /\ proc[p].op = "reject"
    /\ steps' = [steps EXCEPT ![proc[p].step].approval = "rejected"]
    /\ Goto(p, "abortRejected")
    /\ UNCHANGED <<wf, cps, hitl, sweep, ghosts, calls, faults>>

AbortRejected(p) ==
    /\ proc[p].pc = "abortRejected"
    /\ wf' = Finalised(wf, "aborted")
    /\ Ok(p)
    /\ UNCHANGED <<steps, cps, hitl, sweep, ghosts, calls, faults>>

\* CompleteWorkflow, AbortWorkflow and FailWorkflow: one unconditional UPDATE.
FinaliseWorkflow(p, op, status) ==
    /\ proc[p].pc = "write" /\ proc[p].op = op
    /\ wf' = Finalised(wf, status)
    /\ Ok(p)
    /\ UNCHANGED <<steps, cps, hitl, sweep, ghosts, calls, faults>>

\* Mutant: the unified execution's word for an aborted workflow.
AbortWorkflowCancelled(p) == FinaliseWorkflow(p, "abort", "cancelled")

CompleteWorkflow(p) == FinaliseWorkflow(p, "complete", "completed")
AbortWorkflow(p)    == FinaliseWorkflow(p, "abort", "aborted")
FailWorkflow(p)     == FinaliseWorkflow(p, "fail", "failed")

\* No row updated is an error.
MarkStepCompleted(p) ==
    LET s == proc[p].step IN
    /\ proc[p].pc = "write" /\ proc[p].op = "mark"
    /\ IF Exists(steps[s])
       THEN /\ steps' = [steps EXCEPT ![s].completions = @ + 1]
            /\ Ok(p)
       ELSE Error(p) /\ UNCHANGED steps
    /\ UNCHANGED <<wf, cps, hitl, sweep, ghosts, calls, faults>>

-----------------------------------------------------------------------------
(* Statements that fail: a database error, a cancelled request context or a *)
(* process that dies.                                                      *)

BestEffort == [count |-> "add", enqueue |-> "add", cursor |-> "readback"]

\* The error ends the handler; what it already wrote stays.
StatementFails(p) ==
    /\ proc[p].pc \notin {"idle"} /\ faults < MaxFaults
    /\ Error(p)
    /\ faults' = faults + 1
    /\ UNCHANGED <<rows, hitl, sweep, ghosts, calls>>

\* The error is logged or ignored and the handler goes on.
BestEffortFails(p) ==
    LET pc == proc[p].pc IN
    /\ faults < MaxFaults
    /\ \/ pc \in DOMAIN BestEffort /\ Goto(p, BestEffort[pc])
       \/ pc = "saveCheckpoint" /\ GateAnswer(p, proc[p].dec)
       \/ pc = "resumeCount" /\ Decided(p, proc[p].dec)
       \/ pc = "abortRejected" /\ Ok(p)
    /\ faults' = faults + 1
    /\ UNCHANGED <<rows, hitl, sweep, ghosts, calls>>

-----------------------------------------------------------------------------
(* expireEvalApprovals: the goroutine of the Evaluation tier.              *)

IdleSweep == [pc |-> "idle", step |-> NoStep, todo |-> [s \in Steps |-> 0]]

\* Rows of step s whose gate is still under way: expires_at is 24 hours ahead of it.
Young(s) == Cardinality({p \in Procs : proc[p].queued /\ proc[p].step = s})

\* One UPDATE ... RETURNING takes every row whose expires_at has passed.
SweepExpire ==
    /\ EvalTier /\ sweep.pc = "idle"
    /\ \E due \in [Steps -> 0..MaxCalls] :
         /\ \A s \in Steps : due[s] + Young(s) =< hitl[s]
         /\ \E s \in Steps : due[s] > 0
         /\ hitl' = [s \in Steps |-> hitl[s] - due[s]]
         /\ sweep' = [sweep EXCEPT !.pc = "step", !.todo = due]
    /\ UNCHANGED <<rows, proc, resp, ghosts, calls, faults>>

\* Mutant: the UPDATE without approval_status = 'pending'.
ExpiredRowAlways(row) == [row EXCEPT !.approval = "expired"]

ExpiredRow(row) == IF row.approval = "pending" THEN [row EXCEPT !.approval = "expired"] ELSE row

SweepStep ==
    /\ sweep.pc = "step"
    /\ \E s \in Steps :
         /\ sweep.todo[s] > 0
         /\ steps' = [steps EXCEPT ![s] = ExpiredRow(@)]
         /\ sweep' = [sweep EXCEPT !.pc = "abort", !.step = s, !.todo[s] = @ - 1]
    /\ UNCHANGED <<wf, cps, hitl, proc, resp, ghosts, calls, faults>>

\* status NOT IN ('completed', 'failed', 'aborted'); total_steps is not touched.
SweptStatus(status) == IF IsTerminal(status) THEN status ELSE "aborted"

AfterRow(w) == IF \E s \in Steps : w.todo[s] > 0
               THEN [w EXCEPT !.pc = "step", !.step = NoStep] ELSE IdleSweep
NextExpired == AfterRow(sweep)

SweepAbort ==
    /\ sweep.pc = "abort"
    /\ wf' = [wf EXCEPT !.status = SweptStatus(@)]
    /\ sweep' = NextExpired
    /\ UNCHANGED <<steps, cps, hitl, proc, resp, ghosts, calls, faults>>

\* A failed UPDATE of the sweep is logged and the sweep goes on; a row that cannot be
\* scanned is skipped, its step and workflow left as they are.
SweepStatementFails ==
    /\ faults < MaxFaults
    /\ \/ /\ sweep.pc = "step"
          /\ \E s \in Steps :
               /\ sweep.todo[s] > 0
               /\ sweep' = [sweep EXCEPT !.pc = "abort", !.step = s, !.todo[s] = @ - 1]
       \/ sweep.pc = "abort" /\ sweep' = NextExpired
       \/ /\ sweep.pc = "step"
          /\ \E s \in Steps :
               sweep.todo[s] > 0 /\ sweep' = AfterRow([sweep EXCEPT !.todo[s] = @ - 1])
    /\ faults' = faults + 1
    /\ UNCHANGED <<rows, hitl, proc, resp, ghosts, calls>>

\* The orchestrator stops in the middle of a sweep.
SweepDies ==
    /\ sweep.pc # "idle" /\ faults < MaxFaults
    /\ sweep' = IdleSweep
    /\ faults' = faults + 1
    /\ UNCHANGED <<rows, hitl, proc, resp, ghosts, calls>>

-----------------------------------------------------------------------------
Init ==
    /\ wf = [status |-> "in_progress", cur |-> 0, total |-> NoTotal]
    /\ steps = [s \in Steps |-> NoRow]
    /\ cps = [s \in Steps |-> NoCheckpoint]
    /\ hitl = [s \in Steps |-> 0]
    /\ sweep = IdleSweep
    /\ proc = [p \in Procs |-> IdleHandler]
    /\ resp = [p \in Procs |-> NoResponse]
    /\ allowed = {} /\ approved = {}
    /\ calls = 0 /\ faults = 0

Read(p) ==
    \/ ReadWorkflow(p)
    \/ ReadSteps(p)
    \/ ReadStepForReview(p)
    \/ ReadStepForCompletion(p)
    \/ ReadStepForGate(p)
    \/ ReadCheckpoint(p)
    \/ CountPendingApprovals(p)
    \/ ReadBack(p)

Write(p) ==
    \/ EnqueueApproval(p)
    \/ BumpGateCountCached(p)
    \/ AddStep(p)
    \/ UpdateCurrentStepIndex(p)
    \/ CreateCheckpoint(p)
    \/ ResetStatus(p)
    \/ IncrementResumeCount(p)
    \/ ApproveStep(p)
    \/ RejectStep(p)
    \/ AbortRejected(p)
    \/ CompleteWorkflow(p)
    \/ AbortWorkflow(p)
    \/ FailWorkflow(p)
    \/ MarkStepCompleted(p)

Serve(p) == Read(p) \/ Write(p)
Fault(p) == StatementFails(p) \/ BestEffortFails(p)
Sweep == SweepExpire \/ SweepStep \/ SweepAbort

\* Every request has been issued and answered and no sweep is under way.
Done ==
    /\ calls = MaxCalls /\ sweep.pc = "idle"
    /\ \A p \in Procs : proc[p].pc = "idle"
    /\ UNCHANGED vars

Next ==
    \/ \E p \in Procs : Call(p) \/ Serve(p) \/ Fault(p)
    \/ Sweep
    \/ SweepStatementFails
    \/ SweepDies
    \/ Done

Spec == Init /\ [][Next]_vars

\* A handler and a started sweep run on their own goroutine; callers need not
\* call and an approval need not ever fall due.
FairSpec ==
    /\ Spec
    /\ \A p \in Procs : WF_vars(Serve(p))
    /\ WF_vars(SweepStep \/ SweepAbort)
-----------------------------------------------------------------------------
(* Properties.                                                             *)

HandlerPcs == {"idle", "workflow", "steps", "row", "checkpoint", "bump", "count", "enqueue",
               "add", "cursor", "readback", "saveCheckpoint", "reset", "resumeCount",
               "write", "abortRejected"}
HandlerOps == AllOps \cup {"none", "resume"}
Rows == [idx: Nat, decision: Decisions \cup {NoDecision}, approval: Approvals, gates: Nat,
         completions: Nat, last: Decisions \cup {NoDecision}, key: Keys \cup {NoKey}]
Checkpoints == [idx: Nat, decision: Decisions \cup {NoDecision}, resumes: Nat]
Handlers == [pc: HandlerPcs, op: HandlerOps, step: Steps \cup {NoStep},
             key: Keys \cup {NoKey}, mode: AllModes, mine: BOOLEAN, status: Statuses,
             idx: Nat, hold: BOOLEAN, queued: BOOLEAN, dec: Decisions \cup {NoDecision}]
Responses == [op: HandlerOps, out: {"none", "ok", "error", "mismatch"},
              step: Steps \cup {NoStep}, dec: Decisions \cup {NoDecision}]

\* Every row, local record and response keeps its shape: the columns of the
\* three tables (types.go) and the locals of the handlers.
TypeOK ==
    /\ wf \in [status: Statuses, cur: Nat, total: Nat \cup {NoTotal}]
    /\ steps \in [Steps -> Rows]
    /\ cps \in [Steps -> Checkpoints]
    /\ hitl \in [Steps -> Nat]
    /\ sweep \in [pc: {"idle", "step", "abort"}, step: Steps \cup {NoStep}, todo: [Steps -> Nat]]
    /\ proc \in [Procs -> Handlers]
    /\ resp \in [Procs -> Responses]
    /\ allowed \subseteq Steps /\ approved \subseteq Steps
    /\ calls \in Nat /\ faults \in Nat

\* No gate call, fresh, cached or made for a resume, ever answers "allow" for a
\* step that neither an evaluation allowed nor a reviewer approved, whatever
\* races with it and whichever statement fails (StepGate, buildCachedResponse).
AllowIsBacked ==
    \A p \in Procs : resp[p].dec = "allow" => resp[p].step \in allowed \cup approved

\* Each resume counted on a checkpoint stands for a gate evaluation of its own
\* recorded on the step, beyond the one that created the checkpoint
\* (resumeFromCheckpointInternal counts only after StepGate succeeded).
ResumesWereGated ==
    \A s \in Steps : cps[s].decision # NoDecision => cps[s].resumes < steps[s].gates

\* current_step_index never moves back, although two gates compute their index
\* from the same earlier read (the WHERE clause of AddStep's second UPDATE).
CursorNeverRetreats == [][wf'.cur >= wf.cur]_vars

\* A key once recorded on a step is never replaced, even by a gate that read
\* the step before it had one (COALESCE in AddStep).
KeyIsImmutable ==
    [][\A s \in Steps : steps[s].key # NoKey => steps'[s].key = steps[s].key]_vars

\* The expiry goroutine never undoes what people settled: it touches only a
\* pending approval and only a workflow still in progress, however stale the
\* queue row it took (expireEvalApprovals).
SweepKeepsSettled ==
    [][sweep' # sweep =>
         /\ IsTerminal(wf.status) => wf'.status = wf.status
         /\ \A s \in Steps : steps[s].approval # "pending" => steps'[s] = steps[s]]_vars

\* The tenant's pending limit is counted in one statement and filled by another: it is
\* exceeded at most by the other gates in flight (CreateApproval).
QueueOvershootIsBounded == EvalTier => PendingRows <= MaxPending + Cardinality(Procs) - 1

\* With one request at a time, a completed workflow has no step left waiting
\* for a reviewer (CompleteWorkflow's loop over the steps).
CompletedHasNoPending ==
    wf.status = "completed" => \A s \in Steps : ~IsPending(steps[s])

\* With one request at a time, a step carries an approval state exactly when
\* its current decision asks for one: re-evaluating a step forgets the review
\* of its earlier decision (approval_status in AddStep's conflict clause).
ApprovalFollowsDecision ==
    \A s \in Steps : steps[s].approval = "none" <=> steps[s].decision # "require_approval"

\* With one request at a time and no failed statement, the checkpoint of a step carries
\* the decision recorded on its row once the request is answered (CreateCheckpoint).
CheckpointFollowsStep ==
    \A s \in Steps : (\A p \in Procs : proc[p].pc = "idle") => cps[s].decision = steps[s].decision

\* A refused step stops its workflow: once a step is rejected or expires, the workflow
\* reaches a terminal state, unless a statement fails or the sweep dies on the way
\* (RejectStep, expireEvalApprovals).
RefusalStopsWorkflow ==
    \A s \in Steps :
        steps[s].approval \in {"rejected", "expired"} ~> (IsTerminal(wf.status) \/ faults > 0)

-----------------------------------------------------------------------------
(* What a comment says; the code does not keep it.                         *)

\* "auto-EXPIRES timed-out pending approvals and aborts their workflows": the
\* sweep does not abort a workflow for a step that a reviewer approved in time.
ApprovedIsNotAborted ==
    [][(SweepAbort /\ wf'.status # wf.status) => steps[sweep.step].approval # "approved"]_vars
=============================================================================

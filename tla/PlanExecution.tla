---------------------------- MODULE PlanExecution ----------------------------
(***************************************************************************)
(* Executing plans (executePlanHandler, resumePlanHandler and              *)
(* cancelPlanHandler of orchestrator/run.go): how the handlers drive three *)
(* stores that no transaction ties together - the plan, its row in the     *)
(* unified execution tracker, and, in confirm and step mode, a workflow of *)
(* the control plane with a tracker row of its own.                        *)
(*                                                                         *)
(* A handler is one action per call to a store.  What happens inside the   *)
(* claim and the cancellation is PlanLifecycle's subject, inside a call to *)
(* the control plane WorkflowControl's: here each of them is one step.     *)
(***************************************************************************)
EXTENDS Integers, FiniteSets, Sequences, SequencesExt

CONSTANTS
    AutoPlans,     \* plans the engine runs to the end: auto, sequential, parallel, balanced
    StepPlans,     \* plans in step mode
    ConfirmPlans,  \* plans in confirm mode
    NumSteps,      \* steps of a plan
    Procs,         \* requests that can be in flight at the same time
    MaxActive,     \* MaxConcurrentExecutions of the tenant
    MaxCalls,      \* bound: requests issued in a behaviour
    MaxFaults      \* bound: calls that fail in a behaviour

ASSUME StepsAssumption == NumSteps \in Nat \ {0}
ASSUME RequestsAssumption == IsFiniteSet(Procs)
ASSUME LimitAssumption == MaxActive \in Nat \ {0} /\ MaxCalls \in Nat /\ MaxFaults \in Nat

Plans == AutoPlans \cup StepPlans \cup ConfirmPlans
Steps == 0 .. NumSteps - 1
NoStep == -1

\* A plan has one execution mode.
ASSUME ModesAssumption ==
    /\ Plans # {}
    /\ AutoPlans \cap (StepPlans \cup ConfirmPlans) = {} /\ StepPlans \cap ConfirmPlans = {}

VARIABLES
    plan,        \* status of each plan
    exec,        \* status of the plan's row in execution_history, or "none"
    wf,          \* the control-plane workflow of each confirm or step plan
    proc,        \* the handler of each request in flight
    ran,         \* history: the steps executed by resumes, in order
    approved,    \* history: the steps a caller approved
    refused,     \* history: plans whose execution was answered 429
    faulty,      \* history: plans one of whose handlers met a failing call
    overlapped,  \* history: step plans resumed while an earlier request was in flight
    miscounts,   \* history: CountActive errors the tracker ignored
    calls,       \* requests issued so far
    faults       \* calls failed so far

history == <<ran, approved, refused, faulty, overlapped, miscounts>>
bounds  == <<calls, faults>>
vars == <<plan, exec, wf, proc, ran, approved, refused, faulty, overlapped, miscounts,
          calls, faults>>

-----------------------------------------------------------------------------
(* Rows and handlers.                                                      *)

PlanStatuses == {"pending", "executing", "completed", "failed", "cancelled"}
ExecStatuses == {"none", "pending", "completed", "failed", "cancelled"}
WfStatuses   == {"none", "in_progress", "completed", "aborted"}
Pcs == {"idle", "count", "create", "run", "wfcount", "wftrack", "gate", "list", "abort",
        "approve", "step", "finish", "next", "mark", "sync"}

\* cursor: current_step_index;  gates: the steps that were gated, by their step_index;
\* pending: those that wait for approval;  slot: the workflow's own row in
\* execution_history is active.
NoWorkflow == [status |-> "none", cursor |-> 0, gates |-> <<>>, pending |-> {}, slot |-> FALSE]

\* The first step that waits for approval.
FirstPending(w) ==
    LET i == SelectInSeq(w.gates, LAMBDA step : step \in w.pending)
    IN IF i = 0 THEN NoStep ELSE w.gates[i]

\* tracked: unifiedExecID is set, so the status will be synced;  idx, pend: the cursor
\* and the pending step the resume read;  outcome: the status it is going to store.
\* Fields the handler has no more use for are reset.
Idle == [pc |-> "idle", plan |-> CHOOSE pl \in Plans : TRUE, tracked |-> FALSE,
         idx |-> 0, pend |-> NoStep, outcome |-> "failed"]

Goto(p, pc) == proc' = [proc EXCEPT ![p].pc = pc]
Return(p)   == proc' = [proc EXCEPT ![p] = Idle]
At(p, pc)   == proc[p].pc = pc
Target(p)   == proc[p].plan

Ended(pl)  == plan[pl] \notin {"pending", "executing"}
\* status IN ('running', 'pending'), over both kinds of executions of the tenant.
ActiveRows == {<<"map", pl>> : pl \in {q \in Plans : exec[q] = "pending"}}
              \cup {<<"wcp", pl>> : pl \in {q \in Plans : wf[q].slot}}

\* Mutant: the limit is not enforced.
AtLimitNever == FALSE

\* CountActive(tenant) >= MaxConcurrentExecutions.
AtLimit == Cardinality(ActiveRows) >= MaxActive

\* Mark the plan with an outcome next, then sync the tracker or not.
Ends(p, outcome, tracked) ==
    proc' = [proc EXCEPT ![p] = [Idle EXCEPT !.pc = "mark", !.plan = Target(p),
                                             !.outcome = outcome, !.tracked = tracked]]

-----------------------------------------------------------------------------
(* executePlanHandler.  A request arrives with its first call to a store.  *)

Arrives(p) == At(p, "idle") /\ calls < MaxCalls /\ calls' = calls + 1
Enter(p, pl, pc) == proc' = [proc EXCEPT ![p].pc = pc, ![p].plan = pl]

\* GetPlanForExecution: claimed, or answered 404, 409 or 410.
ClaimPlan(p, pl) ==
    /\ Arrives(p)
    /\ IF plan[pl] = "pending"
       THEN plan' = [plan EXCEPT ![pl] = "executing"] /\ Enter(p, pl, "count")
       ELSE UNCHANGED <<plan, proc>>
    /\ UNCHANGED <<exec, wf, history, faults>>

\* StartExecution counts the tenant's active rows.  At the limit the handler answers 429
\* and leaves the plan as it claimed it.
CountActive(p) ==
    /\ At(p, "count")
    /\ IF AtLimit THEN refused' = refused \cup {Target(p)} /\ Return(p)
       ELSE UNCHANGED refused /\ Goto(p, "create")
    /\ UNCHANGED <<plan, exec, wf, ran, approved, faulty, overlapped, miscounts, bounds>>

\* INSERT INTO execution_history, and the steps with it.
StartPlanExecution(p) ==
    /\ At(p, "create")
    /\ exec' = [exec EXCEPT ![Target(p)] = "pending"]
    /\ proc' = [proc EXCEPT ![p].pc = "run", ![p].tracked = TRUE]
    /\ UNCHANGED <<plan, wf, history, bounds>>

\* The row or one of its steps could not be written: a warning, and nothing is synced
\* for this plan later.  When only a step failed, the row is there.
TrackingFails(p) ==
    /\ At(p, "create")
    /\ faults < MaxFaults
    /\ faults' = faults + 1
    /\ faulty' = faulty \cup {Target(p)}
    /\ \/ UNCHANGED exec
       \/ exec' = [exec EXCEPT ![Target(p)] = "pending"]
    /\ Goto(p, "run")
    /\ UNCHANGED <<plan, wf, ran, approved, refused, overlapped, miscounts, calls>>

\* Mutant: an early return that forgets MarkPlanFailed.
PlanFailsSilently(p) ==
    /\ At(p, "run")
    /\ Return(p)
    /\ UNCHANGED <<plan, exec, wf, history, bounds>>

\* EvaluateDynamicPolicies blocks the plan, its definition is invalid, or the engine runs
\* it and fails ...
PlanFails(p) ==
    /\ At(p, "run")
    /\ Ends(p, "failed", proc[p].tracked)
    /\ UNCHANGED <<plan, exec, wf, history, bounds>>

\* ... or succeeds.
EngineCompletes(p) ==
    /\ At(p, "run")
    /\ Target(p) \in AutoPlans
    /\ Ends(p, "completed", proc[p].tracked)
    /\ UNCHANGED <<plan, exec, wf, history, bounds>>

\* CreateWorkflow, in three statements: the workflow is inserted, ...
InsertWorkflow(p) ==
    /\ At(p, "run")
    /\ Target(p) \in StepPlans \cup ConfirmPlans
    /\ wf' = [wf EXCEPT ![Target(p)].status = "in_progress"]
    /\ Goto(p, "wfcount")
    /\ UNCHANGED <<plan, exec, history, bounds>>

\* ... deleted again when the tenant is at its limit, ...
CountForWorkflow(p) ==
    /\ At(p, "wfcount")
    /\ IF AtLimit THEN wf' = [wf EXCEPT ![Target(p)] = NoWorkflow] /\ Ends(p, "failed", FALSE)
       ELSE UNCHANGED wf /\ Goto(p, "wftrack")
    /\ UNCHANGED <<plan, exec, history, bounds>>

\* ExecuteWithStep returns once the workflow is created, ExecuteWithConfirm gates a step.
AfterCreate(p) == IF Target(p) \in ConfirmPlans THEN Goto(p, "gate") ELSE Return(p)

\* ... and given a row in the tracker.
TrackWorkflow(p) ==
    /\ At(p, "wftrack")
    /\ wf' = [wf EXCEPT ![Target(p)].slot = TRUE]
    /\ AfterCreate(p)
    /\ UNCHANGED <<plan, exec, history, bounds>>

-----------------------------------------------------------------------------
(* Calls to the control plane.                                             *)

\* StepGate refuses a terminal workflow and one whose last step waits for a reviewer.
GateRefused(pl, step) ==
    \/ wf[pl].status # "in_progress"
    \/ wf[pl].gates # <<>> /\ Last(wf[pl].gates) \in wf[pl].pending \ {step}

\* Mutant: the gate does not advance the cursor.
GatedKept(w, step) == [w EXCEPT !.gates = Append(@, step), !.pending = @ \cup {step}]

\* StepGate with the override require_approval: StepIndex is current_step_index + 1, for a
\* step that was gated before too, although that one keeps its place.
Gated(w, step) ==
    [w EXCEPT !.gates = IF Contains(@, step) THEN @ ELSE Append(@, step),
              !.pending = @ \cup {step}, !.cursor = @ + 1]

GateFirstStep(p) ==
    /\ At(p, "gate")
    /\ IF GateRefused(Target(p), 0) THEN UNCHANGED wf /\ Ends(p, "failed", FALSE)
       ELSE wf' = [wf EXCEPT ![Target(p)] = Gated(@, 0)] /\ Return(p)
    /\ UNCHANGED <<plan, exec, history, bounds>>

\* CompleteWorkflow refuses terminal workflows and pending steps; AbortWorkflow terminal
\* ones.  Both sync the row of the workflow.
Closed(w, status) == [w EXCEPT !.status = status, !.slot = FALSE]

-----------------------------------------------------------------------------
(* resumePlanHandler.                                                      *)

\* GetPlan: the plan must be executing.
GetPlan(p, pl) ==
    /\ Arrives(p)
    /\ IF plan[pl] = "executing" THEN Enter(p, pl, "list") ELSE UNCHANGED proc
    /\ overlapped' = IF pl \in StepPlans /\ \E q \in Procs : ~At(q, "idle") /\ Target(q) = pl
                     THEN overlapped \cup {pl} ELSE overlapped
    /\ UNCHANGED <<plan, exec, wf, ran, approved, refused, faulty, miscounts, faults>>

\* ListWorkflows: the plan's workflow must be active.  The plan is not read again.
ListWorkflows(p, ok) ==
    /\ At(p, "list")
    /\ LET w == wf[Target(p)]
           pend == FirstPending(w)
       IN IF w.status = "in_progress"
          THEN proc' = [proc EXCEPT ![p] =
                          [Idle EXCEPT !.plan = Target(p), !.idx = w.cursor, !.pend = pend,
                                       !.pc = IF ~ok THEN "abort"
                                              ELSE IF pend = NoStep THEN "step" ELSE "approve"]]
          ELSE Return(p)
    /\ UNCHANGED <<plan, exec, wf, history, bounds>>

\* approved = false: the workflow is aborted, the plan fails, the tracker is not told.
RejectPlan(p) ==
    /\ At(p, "abort")
    /\ wf' = [wf EXCEPT ![Target(p)] = IF @.status = "in_progress" THEN Closed(@, "aborted") ELSE @]
    /\ Ends(p, "failed", FALSE)
    /\ UNCHANGED <<plan, exec, history, bounds>>

\* ApproveStep; an error (another resume approved it first) is answered 500.
ApprovePending(p) ==
    /\ At(p, "approve")
    /\ IF proc[p].pend \in wf[Target(p)].pending
       THEN /\ wf' = [wf EXCEPT ![Target(p)].pending = @ \ {proc[p].pend}]
            /\ approved' = [approved EXCEPT ![Target(p)] = @ \cup {proc[p].pend}]
            /\ proc' = [proc EXCEPT ![p].pc = "step", ![p].pend = NoStep]
       ELSE UNCHANGED <<wf, approved>> /\ Return(p)
    /\ UNCHANGED <<plan, exec, ran, refused, faulty, overlapped, miscounts, bounds>>

\* Mutant: the index executed is compared with the number of steps, not the next one.
IsLastLate(idx) == idx >= NumSteps

IsLast(idx) == idx + 1 >= NumSteps

\* ExecuteSingleStep of the step at the cursor read, and MarkStepCompleted.  A step that
\* fails is reported in the result, not as an error, and the plan goes on.
ExecuteSingleStep(p) ==
    /\ At(p, "step")
    /\ IF proc[p].idx >= NumSteps THEN UNCHANGED ran /\ Goto(p, "finish")
       ELSE /\ ran' = [ran EXCEPT ![Target(p)] = Append(@, proc[p].idx)]
            /\ Goto(p, IF IsLast(proc[p].idx) THEN "finish" ELSE "next")
    /\ UNCHANGED <<plan, exec, wf, approved, refused, faulty, overlapped, miscounts, bounds>>

\* CompleteWorkflow, its error ignored; then the plan and the tracker, always.
CompleteWorkflow(p) ==
    /\ At(p, "finish")
    /\ wf' = [wf EXCEPT ![Target(p)] = IF @.status = "in_progress" /\ @.pending = {}
                                       THEN Closed(@, "completed") ELSE @]
    /\ Ends(p, "completed", TRUE)
    /\ UNCHANGED <<plan, exec, history, bounds>>

\* StepGate of the next step, its error ignored; the caller must resume again.
GateNextStep(p) ==
    /\ At(p, "next")
    /\ wf' = IF GateRefused(Target(p), proc[p].idx + 1) THEN wf
             ELSE [wf EXCEPT ![Target(p)] = Gated(@, proc[p].idx + 1)]
    /\ Return(p)
    /\ UNCHANGED <<plan, exec, history, bounds>>

-----------------------------------------------------------------------------
(* cancelPlanHandler, and how every handler ends.                          *)

\* CancelPlan reads the plan; the UPDATE comes later.  The workflow is not aborted.
CheckCancel(p, pl) ==
    /\ Arrives(p)
    /\ IF Ended(pl) THEN UNCHANGED proc
       ELSE proc' = [proc EXCEPT ![p] = [Idle EXCEPT !.plan = pl, !.pc = "mark",
                                                     !.outcome = "cancelled", !.tracked = TRUE]]
    /\ UNCHANGED <<plan, exec, wf, history, faults>>

\* Mutant: the handler answers as soon as the plan is marked.
AfterMarkReturn(p) == Return(p)

\* if mapExecutionTracker != nil && unifiedExecID != "".
AfterMark(p) == IF proc[p].tracked THEN Goto(p, "sync") ELSE Return(p)

\* MarkPlanCompleted, MarkPlanFailed, CancelPlan: unconditional UPDATEs.
MarkPlan(p) ==
    /\ At(p, "mark")
    /\ plan' = [plan EXCEPT ![Target(p)] = proc[p].outcome]
    /\ AfterMark(p)
    /\ UNCHANGED <<exec, wf, history, bounds>>

\* SyncPlanStatus: the plan's row, if there is one, takes the status unconditionally.
SyncPlanStatus(p) ==
    /\ At(p, "sync")
    /\ exec' = [exec EXCEPT ![Target(p)] = IF @ = "none" THEN @ ELSE proc[p].outcome]
    /\ Return(p)
    /\ UNCHANGED <<plan, wf, history, bounds>>

-----------------------------------------------------------------------------
(* Failing calls.                                                          *)

\* A call to a store fails.  A failing list, approval or cancellation ends the handler
\* (so does a failing first read, which is no request at all here); a workflow that cannot be
\* set up fails the plan; other errors are logged and the handler goes on.
AfterFailure(p) ==
    CASE At(p, "count")   -> Goto(p, "create")
      [] At(p, "wfcount") -> Goto(p, "wftrack")
      [] At(p, "wftrack") -> AfterCreate(p)
      [] At(p, "mark")    -> IF proc[p].outcome = "cancelled" THEN Return(p) ELSE AfterMark(p)
      [] At(p, "finish")  -> Ends(p, "completed", TRUE)
      [] proc[p].pc \in {"run", "gate", "abort"} -> Ends(p, "failed", FALSE)
      [] proc[p].pc \in {"list", "approve", "sync", "next"} -> Return(p)

CallFails(p) ==
    /\ proc[p].pc \notin {"idle", "create", "step"}
    /\ At(p, "run") => Target(p) \notin AutoPlans
    /\ faults < MaxFaults
    /\ faults' = faults + 1
    /\ faulty' = faulty \cup {Target(p)}
    /\ miscounts' = IF proc[p].pc \in {"count", "wfcount"} THEN miscounts + 1 ELSE miscounts
    /\ AfterFailure(p)
    /\ UNCHANGED <<plan, exec, wf, ran, approved, refused, overlapped, calls>>

\* The caller goes away (every later call fails: they all use r.Context()), or the
\* orchestrator stops.
Disconnect(p) ==
    /\ ~At(p, "idle")
    /\ faults < MaxFaults
    /\ faults' = faults + 1
    /\ faulty' = faulty \cup {Target(p)}
    /\ Return(p)
    /\ UNCHANGED <<plan, exec, wf, ran, approved, refused, overlapped, miscounts, calls>>

-----------------------------------------------------------------------------
Init ==
    /\ plan = [pl \in Plans |-> "pending"]
    /\ exec = [pl \in Plans |-> "none"]
    /\ wf = [pl \in Plans |-> NoWorkflow]
    /\ proc = [p \in Procs |-> Idle]
    /\ ran = [pl \in Plans |-> <<>>]
    /\ approved = [pl \in Plans |-> {}]
    /\ refused = {}
    /\ faulty = {}
    /\ overlapped = {}
    /\ miscounts = 0
    /\ calls = 0
    /\ faults = 0

ExecutePlan(p) == \/ CountActive(p) \/ StartPlanExecution(p) \/ PlanFails(p)
                  \/ EngineCompletes(p) \/ InsertWorkflow(p) \/ CountForWorkflow(p)
                  \/ TrackWorkflow(p) \/ GateFirstStep(p)
ResumePlan(p)  == \/ \E ok \in BOOLEAN : ListWorkflows(p, ok)
                  \/ RejectPlan(p) \/ ApprovePending(p) \/ ExecuteSingleStep(p)
                  \/ CompleteWorkflow(p) \/ GateNextStep(p)
Handler(p)     == ExecutePlan(p) \/ ResumePlan(p) \/ MarkPlan(p) \/ SyncPlanStatus(p)
Fault(p)       == TrackingFails(p) \/ CallFails(p) \/ Disconnect(p)
Request(p)     == \E pl \in Plans : \/ ClaimPlan(p, pl)
                                    \/ CheckCancel(p, pl)
                                    \/ GetPlan(p, pl)

Next == \E p \in Procs : Request(p) \/ Handler(p) \/ Fault(p)

\* Every handler that is not disconnected goes on: goroutines are scheduled, calls to the
\* stores and the engine return (they run under a timeout).
Spec == Init /\ [][Next]_vars /\ \A p \in Procs : WF_vars(Handler(p))

-----------------------------------------------------------------------------
(* Properties.                                                             *)

TypeOK ==
    /\ plan \in [Plans -> PlanStatuses]
    /\ exec \in [Plans -> ExecStatuses]
    /\ wf \in [Plans -> [status: WfStatuses, cursor: Nat, gates: Seq(Steps), pending: SUBSET Steps,
                         slot: BOOLEAN]]
    /\ proc \in [Procs -> [pc: Pcs, plan: Plans, tracked: BOOLEAN, idx: Nat,
                           pend: Steps \cup {NoStep}, outcome: PlanStatuses]]
    /\ ran \in [Plans -> Seq(Steps)]
    /\ approved \in [Plans -> SUBSET Steps]
    /\ refused \subseteq Plans /\ faulty \subseteq Plans /\ overlapped \subseteq Plans
    /\ miscounts \in Nat
    /\ calls \in 0 .. MaxCalls
    /\ faults \in 0 .. MaxFaults

Quiet(pl) == \A p \in Procs : At(p, "idle") \/ Target(p) # pl

\* Once the last request on an ended plan has answered, its row in the tracker no longer
\* counts against the tenant's limit, whatever execute, resume and cancel interleaved.
\* In confirm and step mode this holds for completed plans only: their failures, and a
\* cancellation that comes before the row, never reach SyncPlanStatus.
EndedPlansFreeTheirSlot ==
    \A pl \in Plans \ faulty :
        Quiet(pl) /\ Ended(pl) /\ (pl \in AutoPlans \/ plan[pl] = "completed") => exec[pl] # "pending"

\* StartExecution counts and inserts in two statements: the limit of concurrent executions
\* is exceeded at most by the other requests in flight and by ignored errors.
LimitOvershoot == Cardinality(ActiveRows) <= MaxActive + Cardinality(Procs) - 1 + miscounts

\* Step mode with one resume at a time: the steps run once each and in order, every one
\* but the first after its own approval, and a completed plan ran all of them.
StepModeInOrder ==
    \A pl \in StepPlans \ (faulty \cup overlapped) :
        /\ \A i \in 1 .. Len(ran[pl]) : ran[pl][i] = i - 1 /\ (i > 1 => (i - 1) \in approved[pl])
        /\ plan[pl] = "completed" => Len(ran[pl]) = NumSteps

\* A plan the engine runs does not stay "executing", unless its execution was refused at
\* the limit after the claim, or its handler met a failing call.
ClaimedPlanEnds ==
    \A pl \in AutoPlans :
        plan[pl] = "executing" ~> plan[pl] # "executing" \/ pl \in refused \cup faulty

\* "The client must approve each step before it executes" (ExecuteWithConfirm).
ConfirmedBeforeRun ==
    \A pl \in ConfirmPlans : \A i \in 1 .. Len(ran[pl]) : ran[pl][i] \in approved[pl]
=============================================================================

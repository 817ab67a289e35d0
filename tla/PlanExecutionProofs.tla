------------------------- MODULE PlanExecutionProofs -------------------------
(***************************************************************************)
(* Theorems about PlanExecution, for any plans, number of steps, limit and *)
(* finite number of requests in flight: types, the overshoot of the limit  *)
(* of concurrent executions, the release of a plan's row in the tracker,   *)
(* and the order of the steps in step mode.                                *)
(***************************************************************************)
EXTENDS PlanExecution, FiniteSetTheorems, SequenceTheorems, WellFoundedInduction, TLAPS

-----------------------------------------------------------------------------
(* The steps of a workflow.                                                *)

LEMMA LeastIndex ==
    ASSUME NEW T \in SUBSET Nat, T # {}
    PROVE  Min(T) \in T
<1>1. PICK x \in T : \A y \in T : ~(<<y, x>> \in OpToRel(<, Nat))
  BY NatLessThanWellFounded, WFMin
<1>2. \A y \in T : ~(y < x)
  BY <1>1 DEF OpToRel
<1>3. \A y \in T : x =< y
  BY <1>2
<1> QED BY <1>3 DEF Min

WfFields == [status: WfStatuses, cursor: Nat, gates: Seq(Steps), pending: SUBSET Steps, slot: BOOLEAN]
\* A step that waits was gated.
Workflow == {w \in WfFields : \A s \in w.pending : \E i \in 1..Len(w.gates) : w.gates[i] = s}

LEMMA NoStepIsNone == NoStep \notin Steps /\ Steps \subseteq Nat
BY StepsAssumption DEF NoStep, Steps

\* The pending step a resume finds is one that waits, if there is one.
LEMMA FirstPendingIs ==
    ASSUME NEW w \in Workflow
    PROVE  /\ w.pending = {} => FirstPending(w) = NoStep
           /\ w.pending # {} => FirstPending(w) \in w.pending
           /\ FirstPending(w) \in Steps \cup {NoStep}
<1> DEFINE I == {i \in 1..Len(w.gates) : w.gates[i] \in w.pending}
<1>1. FirstPending(w) = IF (IF I # {} THEN Min(I) ELSE 0) = 0 THEN NoStep
                        ELSE w.gates[IF I # {} THEN Min(I) ELSE 0]
  BY DEF FirstPending, SelectInSeq
<1>2. I \in SUBSET Nat /\ 0 \notin I /\ w.pending \subseteq Steps
  BY DEF Workflow, WfFields
<1>3. I # {} => Min(I) \in I
  BY <1>2, LeastIndex
<1>4. w.pending # {} => I # {}
  BY DEF Workflow
<1>5. w.pending = {} => I = {}
  OBVIOUS
<1> HIDE DEF I
<1>6. CASE I = {}
  BY <1>1, <1>4, <1>6
<1>7. CASE I # {}
  <2>1. Min(I) \in I /\ Min(I) # 0
    BY <1>2, <1>3, <1>7
  <2>2. FirstPending(w) = w.gates[Min(I)]
    BY <1>1, <1>7, <2>1
  <2>3. w.gates[Min(I)] \in w.pending
    BY <2>1 DEF I
  <2> QED BY <1>2, <1>5, <1>7, <2>2, <2>3
<1> QED BY <1>6, <1>7

LEMMA NoWorkflowIs ==
    /\ NoWorkflow \in Workflow /\ NoWorkflow.status = "none" /\ NoWorkflow.cursor = 0
    /\ NoWorkflow.pending = {} /\ NoWorkflow.slot = FALSE
<1>1. <<>> \in Seq(Steps)
  BY EmptySeq
<1>2. NoWorkflow = [status |-> "none", cursor |-> 0, gates |-> <<>>, pending |-> {}, slot |-> FALSE]
  BY DEF NoWorkflow
<1> QED BY <1>1, <1>2 DEF Workflow, WfFields, WfStatuses

\* The changes of a workflow.
LEMMA StatusIs ==
    ASSUME NEW w \in Workflow, NEW st \in WfStatuses, NEW y, y = [w EXCEPT !.status = st]
    PROVE  /\ y \in Workflow /\ y.status = st /\ y.cursor = w.cursor /\ y.pending = w.pending
           /\ y.slot = w.slot
BY DEF Workflow, WfFields

LEMMA SlotIs ==
    ASSUME NEW w \in Workflow, NEW y, y = [w EXCEPT !.slot = TRUE]
    PROVE  /\ y \in Workflow /\ y.status = w.status /\ y.cursor = w.cursor /\ y.pending = w.pending
BY DEF Workflow, WfFields

LEMMA ClosedIs ==
    ASSUME NEW w \in Workflow, NEW st \in WfStatuses, NEW y, y = Closed(w, st)
    PROVE  /\ y \in Workflow /\ y.status = st /\ y.cursor = w.cursor /\ y.pending = w.pending
           /\ y.slot = FALSE
BY DEF Workflow, WfFields, Closed

LEMMA ApprovedIs ==
    ASSUME NEW w \in Workflow, NEW s, NEW y, y = [w EXCEPT !.pending = w.pending \ {s}]
    PROVE  /\ y \in Workflow /\ y.status = w.status /\ y.cursor = w.cursor
           /\ y.pending = w.pending \ {s} /\ y.slot = w.slot
BY DEF Workflow, WfFields

LEMMA GatedIs ==
    ASSUME NEW w \in Workflow, NEW s \in Steps, NEW y, y = Gated(w, s)
    PROVE  /\ y \in Workflow /\ y.status = w.status /\ y.cursor = w.cursor + 1
           /\ y.pending = w.pending \cup {s} /\ y.slot = w.slot
<1>1. PICK g \in Seq(Steps) : g = w.gates
  BY DEF Workflow, WfFields
<1>2. PICK h : h = IF Contains(g, s) THEN g ELSE Append(g, s)
  OBVIOUS
<1>3. h \in Seq(Steps) /\ (\A i \in 1..Len(g) : i \in 1..Len(h) /\ h[i] = g[i]) /\ \E i \in 1..Len(h) : h[i] = s
  <2>1. CASE Contains(g, s)
    BY <1>2, <2>1 DEF Contains
  <2>2. CASE ~Contains(g, s)
    <3>1. h \in Seq(Steps) /\ Len(h) = Len(g) + 1 /\ Len(g) \in Nat /\ h[Len(g) + 1] = s
          /\ \A i \in 1..Len(g) : h[i] = g[i]
      BY <1>2, <2>2, AppendProperties, LenProperties
    <3> QED BY <3>1
  <2> QED BY <2>1, <2>2
<1>4. PICK n \in Nat : n = w.cursor
  BY DEF Workflow, WfFields
<1>5. y = [w EXCEPT !.gates = h, !.pending = w.pending \cup {s}, !.cursor = n + 1]
  <2>1. y = [w EXCEPT !.gates = IF Contains(w.gates, s) THEN w.gates ELSE Append(w.gates, s),
                      !.pending = w.pending \cup {s}, !.cursor = w.cursor + 1]
    BY DEF Gated, Workflow, WfFields
  <2> QED BY <1>1, <1>2, <1>4, <2>1
<1>6. /\ y \in WfFields /\ y.status = w.status /\ y.cursor = n + 1
      /\ y.pending = w.pending \cup {s} /\ y.slot = w.slot /\ y.gates = h
  <2>0. PICK m \in Nat : m = n + 1
    OBVIOUS
  <2>1. PICK ps \in SUBSET Steps : ps = w.pending \cup {s}
    BY DEF Workflow, WfFields
  <2>2. y = [w EXCEPT !.gates = h, !.pending = ps, !.cursor = m] /\ w \in WfFields
    BY <1>5, <2>0, <2>1 DEF Workflow
  <2>3. y \in WfFields /\ y.status = w.status /\ y.cursor = m /\ y.pending = ps /\ y.slot = w.slot /\ y.gates = h
    BY <1>3, <2>2 DEF WfFields
  <2> QED BY <2>0, <2>1, <2>3
<1>7. \A x \in y.pending : \E i \in 1..Len(y.gates) : y.gates[i] = x
  BY <1>1, <1>3, <1>6 DEF Workflow
<1> QED BY <1>4, <1>6, <1>7 DEF Workflow

-----------------------------------------------------------------------------
(* Types: TypeOK, which plans a handler reaches its calls with, and that    *)
(* no handler makes a plan pending again.                                  *)

Outcomes == {"completed", "failed", "cancelled"}
ProcFields == [pc: Pcs, plan: Plans, tracked: BOOLEAN, idx: Nat, pend: Steps \cup {NoStep}, outcome: Outcomes]

Handling == {q \in ProcFields :
    /\ q.pc = "gate" => q.plan \in ConfirmPlans
    /\ q.pc \in {"wfcount", "wftrack"} => q.plan \notin AutoPlans
    /\ q.pc = "next" => q.idx + 1 \in Steps
    /\ q.pc = "mark" /\ q.outcome = "completed" /\ q.plan \notin AutoPlans => q.tracked}

PlanOK    == plan \in [Plans -> PlanStatuses] /\ exec \in [Plans -> ExecStatuses]
WfOK      == wf \in [Plans -> Workflow]
ProcOK    == proc \in [Procs -> Handling]
RanOK     == ran \in [Plans -> Seq(Steps)] /\ approved \in [Plans -> SUBSET Steps]
HistoryOK == /\ refused \subseteq Plans /\ faulty \subseteq Plans /\ overlapped \subseteq Plans
             /\ miscounts \in Nat
BoundsOK  == calls \in 0 .. MaxCalls /\ faults \in 0 .. MaxFaults

TypeInv == PlanOK /\ WfOK /\ ProcOK /\ RanOK /\ HistoryOK /\ BoundsOK

Others(p) == \A q \in Procs \ {p} : proc'[q] = proc[q]

LEMMA HandlingFields ==
    ASSUME NEW q \in Handling
    PROVE  /\ q.pc \in Pcs /\ q.plan \in Plans /\ q.tracked \in BOOLEAN /\ q.idx \in Nat
           /\ q.pend \in Steps \cup {NoStep} /\ q.outcome \in Outcomes
           /\ q.pc = "gate" => q.plan \in ConfirmPlans
           /\ q.pc \in {"wfcount", "wftrack"} => q.plan \notin AutoPlans
           /\ q.pc = "next" => q.idx + 1 \in Steps
           /\ q.pc = "mark" /\ q.outcome = "completed" /\ q.plan \notin AutoPlans => q.tracked
BY DEF Handling, ProcFields

LEMMA TargetTyped ==
    ASSUME ProcOK, NEW p \in Procs
    PROVE  proc[p] \in Handling /\ proc[p].plan \in Plans /\ proc[p].idx \in Nat
           /\ proc[p].pc \in Pcs /\ proc[p].outcome \in Outcomes
BY HandlingFields DEF ProcOK

LEMMA ProcTyped ==
    ASSUME ProcOK', NEW p \in Procs
    PROVE  proc'[p] \in Handling /\ proc'[p].plan \in Plans /\ proc'[p].outcome \in Outcomes
BY HandlingFields DEF ProcOK

LEMMA ProcMoves ==
    ASSUME ProcOK, NEW p \in Procs, NEW q \in Handling, proc' = [proc EXCEPT ![p] = q]
    PROVE  ProcOK' /\ proc'[p] = q /\ Others(p)
BY DEF ProcOK, Others

LEMMA IdleIs == Idle \in Handling /\ Idle.pc = "idle"
<1>1. (CHOOSE pl \in Plans : TRUE) \in Plans
  BY ModesAssumption
<1>2. PICK pl \in Plans : pl = CHOOSE x \in Plans : TRUE
  BY <1>1
<1>3. Idle = [pc |-> "idle", plan |-> pl, tracked |-> FALSE, idx |-> 0, pend |-> NoStep, outcome |-> "failed"]
  BY <1>2 DEF Idle
<1> QED BY <1>3 DEF Handling, ProcFields, Pcs, Outcomes

LEMMA ReturnIs ==
    ASSUME ProcOK, NEW p \in Procs, Return(p)
    PROVE  ProcOK' /\ proc'[p].pc = "idle" /\ Others(p)
BY IdleIs, ProcMoves DEF Return

\* The handler goes on with what it has.
Kept(q, r) == r.plan = q.plan /\ r.tracked = q.tracked /\ r.idx = q.idx /\ r.pend = q.pend /\ r.outcome = q.outcome

LEMMA GotoIs ==
    ASSUME ProcOK, NEW p \in Procs, NEW pc \in Pcs \ {"mark"}, Goto(p, pc),
           pc = "gate" => proc[p].plan \in ConfirmPlans,
           pc \in {"wfcount", "wftrack"} => proc[p].plan \notin AutoPlans,
           pc = "next" => proc[p].idx + 1 \in Steps
    PROVE  ProcOK' /\ proc'[p].pc = pc /\ Kept(proc[p], proc'[p]) /\ Others(p)
<1>1. PICK q \in Handling : q = proc[p]
  BY DEF ProcOK
<1>2. PICK r : r = [q EXCEPT !.pc = pc]
  OBVIOUS
<1>3. r \in Handling /\ r.pc = pc /\ Kept(q, r)
  BY <1>1, <1>2 DEF Handling, ProcFields, Kept
<1>4. proc' = [proc EXCEPT ![p] = r]
  BY <1>1, <1>2 DEF Goto, ProcOK
<1> QED BY <1>1, <1>3, <1>4, ProcMoves

LEMMA EndsIs ==
    ASSUME ProcOK, NEW p \in Procs, NEW o \in Outcomes, NEW tr \in BOOLEAN, Ends(p, o, tr),
           o = "completed" /\ proc[p].plan \notin AutoPlans => tr
    PROVE  /\ ProcOK' /\ Others(p)
           /\ proc'[p].pc = "mark" /\ proc'[p].plan = proc[p].plan /\ proc'[p].outcome = o
           /\ proc'[p].tracked = tr
<1>1. PICK t \in Plans : t = proc[p].plan
  BY TargetTyped
<1>2. PICK r : r = [Idle EXCEPT !.pc = "mark", !.plan = t, !.outcome = o, !.tracked = tr]
  OBVIOUS
<1>3. r \in Handling /\ r.pc = "mark" /\ r.plan = t /\ r.outcome = o /\ r.tracked = tr
  BY <1>1, <1>2, IdleIs DEF Handling, ProcFields, Pcs
<1>4. proc' = [proc EXCEPT ![p] = r]
  BY <1>1, <1>2 DEF Ends, Target
<1> QED BY <1>1, <1>3, <1>4, ProcMoves

LEMMA InitTypes == Init => TypeInv
<1> SUFFICES ASSUME Init PROVE TypeInv
  OBVIOUS
<1>1. PlanOK
  BY DEF Init, PlanOK, PlanStatuses, ExecStatuses
<1>2. WfOK /\ ProcOK
  BY NoWorkflowIs, IdleIs DEF Init, WfOK, ProcOK
<1>3. RanOK
  <2>1. <<>> \in Seq(Steps)
    BY EmptySeq
  <2> QED BY <2>1 DEF Init, RanOK
<1>4. HistoryOK /\ BoundsOK
  BY LimitAssumption DEF Init, HistoryOK, BoundsOK
<1> QED BY <1>1, <1>2, <1>3, <1>4 DEF TypeInv

\* What each action does to its own handler and to the rows.
LEMMA ClaimEffect ==
    ASSUME TypeInv, NEW p \in Procs, NEW pl \in Plans, ClaimPlan(p, pl)
    PROVE  /\ ProcOK' /\ Others(p) /\ proc[p].pc = "idle"
           /\ UNCHANGED <<exec, wf, ran, approved, refused, faulty, overlapped, miscounts, faults>>
           /\ calls < MaxCalls /\ calls' = calls + 1
           /\ \/ UNCHANGED <<plan, proc>>
              \/ /\ plan[pl] = "pending" /\ plan' = [plan EXCEPT ![pl] = "executing"]
                 /\ proc'[p].pc = "count" /\ proc'[p].plan = pl
<1>0. proc[p].pc = "idle" /\ calls < MaxCalls /\ calls' = calls + 1
  BY DEF ClaimPlan, Arrives, At
<1>1. CASE plan[pl] # "pending"
  BY <1>0, <1>1 DEF ClaimPlan, history, TypeInv, ProcOK, Others
<1>2. CASE plan[pl] = "pending"
  <2>1. PICK q \in Handling : q = proc[p]
    BY DEF TypeInv, ProcOK
  <2>2. PICK r : r = [q EXCEPT !.pc = "count", !.plan = pl]
    OBVIOUS
  <2>3. r \in Handling /\ r.pc = "count" /\ r.plan = pl
    BY <2>1, <2>2 DEF Handling, ProcFields, Pcs
  <2>4. proc' = [proc EXCEPT ![p] = r] /\ plan' = [plan EXCEPT ![pl] = "executing"]
    BY <1>2, <2>1, <2>2 DEF ClaimPlan, Enter, TypeInv, ProcOK
  <2> QED BY <1>0, <1>2, <2>3, <2>4, ProcMoves DEF ClaimPlan, history, TypeInv
<1> QED BY <1>1, <1>2

LEMMA CancelEffect ==
    ASSUME TypeInv, NEW p \in Procs, NEW pl \in Plans, CheckCancel(p, pl)
    PROVE  /\ ProcOK' /\ Others(p) /\ proc[p].pc = "idle"
           /\ UNCHANGED <<plan, exec, wf, ran, approved, refused, faulty, overlapped, miscounts, faults>>
           /\ calls < MaxCalls /\ calls' = calls + 1
           /\ \/ UNCHANGED proc
              \/ /\ proc'[p].pc = "mark" /\ proc'[p].plan = pl /\ proc'[p].outcome = "cancelled"
                 /\ proc'[p].tracked = TRUE
<1>0. proc[p].pc = "idle" /\ calls < MaxCalls /\ calls' = calls + 1
  BY DEF CheckCancel, Arrives, At
<1>1. CASE Ended(pl)
  BY <1>0, <1>1 DEF CheckCancel, history, TypeInv, ProcOK, Others
<1>2. CASE ~Ended(pl)
  <2>1. PICK r : r = [Idle EXCEPT !.plan = pl, !.pc = "mark", !.outcome = "cancelled", !.tracked = TRUE]
    OBVIOUS
  <2>2. r \in Handling /\ r.pc = "mark" /\ r.plan = pl /\ r.outcome = "cancelled" /\ r.tracked = TRUE
    BY <2>1, IdleIs DEF Handling, ProcFields, Pcs, Outcomes
  <2>3. proc' = [proc EXCEPT ![p] = r]
    BY <1>2, <2>1 DEF CheckCancel
  <2> QED BY <1>0, <2>2, <2>3, ProcMoves DEF CheckCancel, history, TypeInv
<1> QED BY <1>1, <1>2

LEMMA GetEffect ==
    ASSUME TypeInv, NEW p \in Procs, NEW pl \in Plans, GetPlan(p, pl)
    PROVE  /\ ProcOK' /\ Others(p) /\ proc[p].pc = "idle"
           /\ UNCHANGED <<plan, exec, wf, ran, approved, refused, faulty, miscounts, faults>>
           /\ calls < MaxCalls /\ calls' = calls + 1
           /\ overlapped' \in {overlapped, overlapped \cup {pl}}
           /\ pl \in StepPlans \ overlapped' => \A q \in Procs : proc[q].pc = "idle" \/ proc[q].plan # pl
           /\ \/ UNCHANGED proc
              \/ plan[pl] = "executing" /\ proc'[p].pc = "list" /\ proc'[p].plan = pl
<1>0. proc[p].pc = "idle" /\ calls < MaxCalls /\ calls' = calls + 1
  BY DEF GetPlan, Arrives, At
<1>1. /\ overlapped' \in {overlapped, overlapped \cup {pl}}
      /\ pl \in StepPlans \ overlapped' => \A q \in Procs : proc[q].pc = "idle" \/ proc[q].plan # pl
  BY DEF GetPlan, At, Target
<1>2. UNCHANGED <<plan, exec, wf, ran, approved, refused, faulty, miscounts, faults>>
  BY DEF GetPlan
<1>3. CASE plan[pl] # "executing"
  <2>1. UNCHANGED proc
    BY <1>3 DEF GetPlan
  <2> QED BY <1>0, <1>1, <1>2, <2>1 DEF TypeInv, ProcOK, Others
<1>4. CASE plan[pl] = "executing"
  <2>1. PICK q \in Handling : q = proc[p]
    BY DEF TypeInv, ProcOK
  <2>2. PICK r : r = [q EXCEPT !.pc = "list", !.plan = pl]
    OBVIOUS
  <2>3. r \in Handling /\ r.pc = "list" /\ r.plan = pl
    BY <2>1, <2>2 DEF Handling, ProcFields, Pcs
  <2>4. proc' = [proc EXCEPT ![p] = r]
    BY <1>4, <2>1, <2>2 DEF GetPlan, Enter, TypeInv, ProcOK
  <2>5. ProcOK' /\ proc'[p] = r /\ Others(p)
    BY <2>3, <2>4, ProcMoves DEF TypeInv
  <2> QED BY <1>0, <1>1, <1>2, <1>4, <2>3, <2>5
<1> QED BY <1>3, <1>4

\* What ListWorkflows found: the handler answers, or goes on with what it read.
Listed(q, w) ==
    /\ w.status = "in_progress" /\ q.idx = w.cursor /\ q.pend = FirstPending(w)
    /\ \/ q.pc = "abort"
       \/ q.pc = "step" /\ w.pending = {}
       \/ q.pc = "approve" /\ q.pend \in w.pending

LEMMA ListEffect ==
    ASSUME TypeInv, NEW p \in Procs, NEW ok \in BOOLEAN, ListWorkflows(p, ok)
    PROVE  /\ ProcOK' /\ Others(p) /\ proc[p].pc = "list"
           /\ UNCHANGED <<plan, exec, wf, ran, approved, refused, faulty, overlapped, miscounts, calls, faults>>
           /\ \/ proc'[p].pc = "idle"
              \/ proc'[p].plan = proc[p].plan /\ Listed(proc'[p], wf[proc[p].plan])
<1>0. /\ proc[p].pc = "list"
      /\ UNCHANGED <<plan, exec, wf, ran, approved, refused, faulty, overlapped, miscounts, calls, faults>>
  BY DEF ListWorkflows, At, history, bounds
<1>1. PICK t \in Plans : t = proc[p].plan
  BY TargetTyped DEF TypeInv
<1>2. PICK w \in Workflow : w = wf[t]
  BY DEF TypeInv, WfOK
<1>3. CASE w.status # "in_progress"
  <2>1. Return(p)
    BY <1>1, <1>2, <1>3 DEF ListWorkflows, Target
  <2> QED BY <1>0, <2>1, ReturnIs DEF TypeInv
<1>4. CASE w.status = "in_progress"
  <2>2. PICK pc : pc = IF ~ok THEN "abort" ELSE IF FirstPending(w) = NoStep THEN "step" ELSE "approve"
    OBVIOUS
  <2>3. PICK c \in Nat, f \in Steps \cup {NoStep} : c = w.cursor /\ f = FirstPending(w)
    <3>1. w.cursor \in Nat
      BY DEF Workflow, WfFields
    <3> QED BY <3>1, FirstPendingIs
  <2>4. PICK r : r = [Idle EXCEPT !.plan = t, !.idx = c, !.pend = f, !.pc = pc]
    OBVIOUS
  <2>5. pc \in {"abort", "step", "approve"}
    BY <2>2
  <2>6. r \in Handling /\ r.pc = pc /\ r.plan = t /\ r.idx = c /\ r.pend = f
    BY <2>4, <2>5, IdleIs DEF Handling, ProcFields, Pcs
  <2>7. proc' = [proc EXCEPT ![p] = r]
    BY <1>1, <1>2, <1>4, <2>2, <2>3, <2>4 DEF ListWorkflows, Target
  <2>8. ProcOK' /\ proc'[p] = r /\ Others(p)
    BY <2>6, <2>7, ProcMoves DEF TypeInv
  <2>9. pc = "abort" \/ (pc = "step" /\ w.pending = {}) \/ (pc = "approve" /\ f \in w.pending)
    <3>1. f = NoStep => w.pending = {}
      BY <2>3, FirstPendingIs, NoStepIsNone DEF Workflow, WfFields
    <3>2. f # NoStep => f \in w.pending
      BY <2>3, FirstPendingIs
    <3> QED BY <2>2, <2>3, <3>1, <3>2
  <2> QED BY <1>0, <1>1, <1>2, <1>4, <2>3, <2>6, <2>8, <2>9 DEF Listed
<1> QED BY <1>3, <1>4

LEMMA CountEffect ==
    ASSUME TypeInv, NEW p \in Procs, CountActive(p)
    PROVE  /\ ProcOK' /\ Others(p) /\ proc[p].pc = "count"
           /\ UNCHANGED <<plan, exec, wf, ran, approved, faulty, overlapped, miscounts, calls, faults>>
           /\ refused' \in {refused, refused \cup {proc[p].plan}}
           /\ \/ proc'[p].pc = "idle"
              \/ ~AtLimit /\ proc'[p].pc = "create" /\ Kept(proc[p], proc'[p])
<1>1. CASE AtLimit
  BY <1>1, ReturnIs DEF CountActive, At, Target, TypeInv, bounds
<1>2. CASE ~AtLimit
  <2>1. Goto(p, "create")
    BY <1>2 DEF CountActive
  <2> QED BY <1>2, <2>1, GotoIs DEF CountActive, At, TypeInv, Pcs, bounds
<1> QED BY <1>1, <1>2

\* With the row there, the handler is at "run" and will sync it, or was not told of it.
LEMMA CreateEffect ==
    ASSUME TypeInv, NEW p \in Procs, StartPlanExecution(p) \/ TrackingFails(p)
    PROVE  /\ ProcOK' /\ Others(p) /\ proc[p].pc = "create"
           /\ proc'[p].pc = "run" /\ proc'[p].plan = proc[p].plan
           /\ UNCHANGED <<plan, wf, ran, approved, refused, overlapped, miscounts, calls>>
           /\ exec' \in {exec, [exec EXCEPT ![proc[p].plan] = "pending"]}
           /\ faulty' \in {faulty, faulty \cup {proc[p].plan}} /\ faults' \in {faults, faults + 1}
           /\ faults' # faults => faults < MaxFaults
           /\ proc[p].plan \notin faulty' => proc'[p].tracked = TRUE
<1>1. CASE StartPlanExecution(p)
  <2>1. PICK q \in Handling : q = proc[p]
    BY DEF TypeInv, ProcOK
  <2>2. PICK r : r = [q EXCEPT !.pc = "run", !.tracked = TRUE]
    OBVIOUS
  <2>3. r \in Handling /\ r.pc = "run" /\ r.plan = q.plan /\ r.tracked = TRUE
    BY <2>1, <2>2 DEF Handling, ProcFields, Pcs
  <2>4. proc' = [proc EXCEPT ![p] = r]
    BY <1>1, <2>1, <2>2 DEF StartPlanExecution, TypeInv, ProcOK
  <2>5. ProcOK' /\ proc'[p] = r /\ Others(p)
    BY <2>3, <2>4, ProcMoves DEF TypeInv
  <2> QED BY <1>1, <2>1, <2>3, <2>5 DEF StartPlanExecution, At, Target, history, bounds
<1>2. CASE TrackingFails(p)
  <2>1. Goto(p, "run")
    BY <1>2 DEF TrackingFails
  <2>2. ProcOK' /\ proc'[p].pc = "run" /\ Kept(proc[p], proc'[p]) /\ Others(p)
    BY <2>1, GotoIs DEF TypeInv, Pcs
  <2> QED BY <1>2, <2>2 DEF TrackingFails, At, Target, Kept
<1> QED BY <1>1, <1>2

LEMMA RunEffect ==
    ASSUME TypeInv, NEW p \in Procs, PlanFails(p) \/ EngineCompletes(p)
    PROVE  /\ ProcOK' /\ Others(p) /\ proc[p].pc = "run"
           /\ proc'[p].pc = "mark" /\ proc'[p].plan = proc[p].plan /\ proc'[p].tracked = proc[p].tracked
           /\ proc'[p].outcome = "completed" => proc[p].plan \in AutoPlans
           /\ UNCHANGED <<plan, exec, wf, ran, approved, refused, faulty, overlapped, miscounts, calls, faults>>
<1>1. PICK tr \in BOOLEAN : tr = proc[p].tracked
  BY TargetTyped, HandlingFields DEF TypeInv
<1>2. CASE PlanFails(p)
  <2>1. Ends(p, "failed", tr)
    BY <1>1, <1>2 DEF PlanFails
  <2> QED BY <1>1, <1>2, <2>1, EndsIs DEF PlanFails, At, TypeInv, Outcomes, history, bounds
<1>3. CASE EngineCompletes(p)
  <2>1. Ends(p, "completed", tr) /\ proc[p].plan \in AutoPlans
    BY <1>1, <1>3 DEF EngineCompletes, Target
  <2> QED BY <1>1, <1>3, <2>1, EndsIs DEF EngineCompletes, At, TypeInv, Outcomes, history, bounds
<1> QED BY <1>2, <1>3

OtherWfs(t) == \A pl \in Plans \ {t} : wf'[pl] = wf[pl]

LEMMA WfMoves ==
    ASSUME WfOK, NEW t \in Plans, NEW y \in Workflow, wf' = [wf EXCEPT ![t] = y]
    PROVE  WfOK' /\ wf'[t] = y /\ OtherWfs(t)
BY DEF WfOK, OtherWfs

LEMMA InsertEffect ==
    ASSUME TypeInv, NEW p \in Procs, InsertWorkflow(p)
    PROVE  /\ ProcOK' /\ Others(p) /\ proc[p].pc = "run" /\ proc'[p].pc = "wfcount" /\ Kept(proc[p], proc'[p])
           /\ proc[p].plan \notin AutoPlans
           /\ WfOK' /\ OtherWfs(proc[p].plan)
           /\ wf'[proc[p].plan].status = "in_progress"
           /\ wf'[proc[p].plan].cursor = wf[proc[p].plan].cursor
           /\ wf'[proc[p].plan].pending = wf[proc[p].plan].pending
           /\ wf'[proc[p].plan].slot = wf[proc[p].plan].slot
           /\ UNCHANGED <<plan, exec, ran, approved, refused, faulty, overlapped, miscounts, calls, faults>>
<1>1. PICK t \in Plans : t = proc[p].plan
  BY TargetTyped DEF TypeInv
<1>2. PICK w \in Workflow : w = wf[t]
  BY DEF TypeInv, WfOK
<1>3. PICK y : y = [w EXCEPT !.status = "in_progress"]
  OBVIOUS
<1>4. wf' = [wf EXCEPT ![t] = y]
  BY <1>1, <1>2, <1>3 DEF InsertWorkflow, Target, TypeInv, WfOK
<1>5. y \in Workflow /\ y.status = "in_progress" /\ y.cursor = w.cursor /\ y.pending = w.pending /\ y.slot = w.slot
  BY <1>3, StatusIs DEF WfStatuses
<1>6. WfOK' /\ wf'[t] = y /\ OtherWfs(t)
  BY <1>4, <1>5, WfMoves DEF TypeInv
<1>7. proc[p].plan \notin AutoPlans /\ proc[p].pc = "run" /\ Goto(p, "wfcount")
  BY ModesAssumption DEF InsertWorkflow, Target, At
<1>8. ProcOK' /\ proc'[p].pc = "wfcount" /\ Kept(proc[p], proc'[p]) /\ Others(p)
  BY <1>7, GotoIs DEF TypeInv, Pcs
<1> QED BY <1>1, <1>2, <1>5, <1>6, <1>7, <1>8 DEF InsertWorkflow, history, bounds

LEMMA CountForEffect ==
    ASSUME TypeInv, NEW p \in Procs, CountForWorkflow(p)
    PROVE  /\ ProcOK' /\ Others(p) /\ proc[p].pc = "wfcount"
           /\ WfOK' /\ OtherWfs(proc[p].plan)
           /\ \/ /\ wf'[proc[p].plan] = NoWorkflow
                 /\ proc'[p].pc = "mark" /\ proc'[p].plan = proc[p].plan /\ proc'[p].outcome = "failed"
              \/ ~AtLimit /\ UNCHANGED wf /\ proc'[p].pc = "wftrack" /\ Kept(proc[p], proc'[p])
           /\ UNCHANGED <<plan, exec, ran, approved, refused, faulty, overlapped, miscounts, calls, faults>>
<1>0. /\ proc[p].pc = "wfcount"
      /\ UNCHANGED <<plan, exec, ran, approved, refused, faulty, overlapped, miscounts, calls, faults>>
  BY DEF CountForWorkflow, At, history, bounds
<1>1. CASE AtLimit
  <2>1. PICK t \in Plans : t = proc[p].plan
    BY TargetTyped DEF TypeInv
  <2>2. wf' = [wf EXCEPT ![t] = NoWorkflow] /\ Ends(p, "failed", FALSE)
    BY <1>1, <2>1 DEF CountForWorkflow, Target
  <2>3. WfOK' /\ wf'[t] = NoWorkflow /\ OtherWfs(t)
    BY <2>2, NoWorkflowIs, WfMoves DEF TypeInv
  <2>4. /\ ProcOK' /\ Others(p)
        /\ proc'[p].pc = "mark" /\ proc'[p].plan = proc[p].plan /\ proc'[p].outcome = "failed"
    BY <2>2, EndsIs DEF TypeInv, Outcomes
  <2> QED BY <1>0, <2>1, <2>3, <2>4
<1>2. CASE ~AtLimit
  <2>1. UNCHANGED wf /\ Goto(p, "wftrack")
    BY <1>2 DEF CountForWorkflow
  <2>2. proc[p].plan \notin AutoPlans
    BY <1>0, TargetTyped, HandlingFields DEF TypeInv
  <2>3. ProcOK' /\ proc'[p].pc = "wftrack" /\ Kept(proc[p], proc'[p]) /\ Others(p)
    BY <2>1, <2>2, GotoIs DEF TypeInv, Pcs
  <2> QED BY <1>0, <1>2, <2>1, <2>3 DEF TypeInv, WfOK, OtherWfs
<1> QED BY <1>1, <1>2

LEMMA AfterCreateIs ==
    ASSUME ProcOK, NEW p \in Procs, AfterCreate(p)
    PROVE  /\ ProcOK' /\ Others(p)
           /\ \/ proc'[p].pc = "idle"
              \/ proc'[p].pc = "gate" /\ proc[p].plan \in ConfirmPlans /\ Kept(proc[p], proc'[p])
<1>1. CASE proc[p].plan \in ConfirmPlans
  <2>1. Goto(p, "gate")
    BY <1>1 DEF AfterCreate, Target
  <2> QED BY <1>1, <2>1, GotoIs DEF Pcs
<1>2. CASE proc[p].plan \notin ConfirmPlans
  BY <1>2, ReturnIs DEF AfterCreate, Target
<1> QED BY <1>1, <1>2

LEMMA TrackEffect ==
    ASSUME TypeInv, NEW p \in Procs, TrackWorkflow(p)
    PROVE  /\ ProcOK' /\ Others(p) /\ proc[p].pc = "wftrack"
           /\ \/ proc'[p].pc = "idle"
              \/ proc'[p].pc = "gate" /\ proc[p].plan \in ConfirmPlans /\ Kept(proc[p], proc'[p])
           /\ WfOK' /\ OtherWfs(proc[p].plan)
           /\ wf'[proc[p].plan].status = wf[proc[p].plan].status
           /\ wf'[proc[p].plan].cursor = wf[proc[p].plan].cursor
           /\ wf'[proc[p].plan].pending = wf[proc[p].plan].pending
           /\ UNCHANGED <<plan, exec, ran, approved, refused, faulty, overlapped, miscounts, calls, faults>>
<1>1. PICK t \in Plans : t = proc[p].plan
  BY TargetTyped DEF TypeInv
<1>2. PICK w \in Workflow : w = wf[t]
  BY DEF TypeInv, WfOK
<1>3. PICK y : y = [w EXCEPT !.slot = TRUE]
  OBVIOUS
<1>4. wf' = [wf EXCEPT ![t] = y]
  BY <1>1, <1>2, <1>3 DEF TrackWorkflow, Target, TypeInv, WfOK
<1>5. y \in Workflow /\ y.status = w.status /\ y.cursor = w.cursor /\ y.pending = w.pending
  BY <1>3, SlotIs
<1>6. WfOK' /\ wf'[t] = y /\ OtherWfs(t)
  BY <1>4, <1>5, WfMoves DEF TypeInv
<1>7. proc[p].pc = "wftrack" /\ AfterCreate(p)
  BY DEF TrackWorkflow, At
<1>8. /\ ProcOK' /\ Others(p)
      /\ \/ proc'[p].pc = "idle"
         \/ proc'[p].pc = "gate" /\ proc[p].plan \in ConfirmPlans /\ Kept(proc[p], proc'[p])
  BY <1>7, AfterCreateIs DEF TypeInv
<1> QED BY <1>1, <1>2, <1>5, <1>6, <1>7, <1>8 DEF TrackWorkflow, history, bounds

\* A gate that is refused changes nothing; one that is not makes its step wait.
GateDone(t, s) ==
    \/ GateRefused(t, s) /\ UNCHANGED wf
    \/ /\ ~GateRefused(t, s)
       /\ wf'[t].status = wf[t].status /\ wf'[t].slot = wf[t].slot
       /\ wf'[t].cursor = wf[t].cursor + 1 /\ wf'[t].pending = wf[t].pending \cup {s}

LEMMA GateIs ==
    ASSUME WfOK, NEW t \in Plans, NEW s \in Steps,
           wf' = IF GateRefused(t, s) THEN wf ELSE [wf EXCEPT ![t] = Gated(wf[t], s)]
    PROVE  WfOK' /\ OtherWfs(t) /\ GateDone(t, s)
<1>1. CASE GateRefused(t, s)
  BY <1>1 DEF WfOK, OtherWfs, GateDone
<1>2. CASE ~GateRefused(t, s)
  <2>1. PICK w \in Workflow : w = wf[t]
    BY DEF WfOK
  <2>2. PICK y : y = Gated(w, s)
    OBVIOUS
  <2>3. wf' = [wf EXCEPT ![t] = y]
    BY <1>2, <2>1, <2>2
  <2>4. /\ y \in Workflow /\ y.status = w.status /\ y.cursor = w.cursor + 1
        /\ y.pending = w.pending \cup {s} /\ y.slot = w.slot
    BY <2>2, GatedIs
  <2>5. WfOK' /\ wf'[t] = y /\ OtherWfs(t)
    BY <2>3, <2>4, WfMoves
  <2> QED BY <1>2, <2>1, <2>4, <2>5 DEF GateDone
<1> QED BY <1>1, <1>2

LEMMA FirstGateEffect ==
    ASSUME TypeInv, NEW p \in Procs, GateFirstStep(p)
    PROVE  /\ ProcOK' /\ Others(p) /\ proc[p].pc = "gate"
           /\ \/ proc'[p].pc = "idle"
              \/ proc'[p].pc = "mark" /\ proc'[p].plan = proc[p].plan /\ proc'[p].outcome = "failed"
           /\ WfOK' /\ OtherWfs(proc[p].plan) /\ GateDone(proc[p].plan, 0)
           /\ UNCHANGED <<plan, exec, ran, approved, refused, faulty, overlapped, miscounts, calls, faults>>
<1>0. /\ proc[p].pc = "gate"
      /\ UNCHANGED <<plan, exec, ran, approved, refused, faulty, overlapped, miscounts, calls, faults>>
  BY DEF GateFirstStep, At, history, bounds
<1>1. PICK t \in Plans : t = proc[p].plan
  BY TargetTyped DEF TypeInv
<1>2. wf' = IF GateRefused(t, 0) THEN wf ELSE [wf EXCEPT ![t] = Gated(wf[t], 0)]
  BY <1>1 DEF GateFirstStep, Target, TypeInv, WfOK
<1>3. 0 \in Steps
  BY StepsAssumption DEF Steps
<1>4. WfOK' /\ OtherWfs(t) /\ GateDone(t, 0)
  BY <1>2, <1>3, GateIs DEF TypeInv
<1>5. Ends(p, "failed", FALSE) \/ Return(p)
  BY DEF GateFirstStep
<1>6. /\ ProcOK' /\ Others(p)
      /\ \/ proc'[p].pc = "idle"
         \/ proc'[p].pc = "mark" /\ proc'[p].plan = proc[p].plan /\ proc'[p].outcome = "failed"
  BY <1>5, EndsIs, ReturnIs DEF TypeInv, Outcomes
<1> QED BY <1>0, <1>1, <1>4, <1>6

LEMMA NextGateEffect ==
    ASSUME TypeInv, NEW p \in Procs, GateNextStep(p)
    PROVE  /\ ProcOK' /\ Others(p) /\ proc[p].pc = "next" /\ proc'[p].pc = "idle"
           /\ WfOK' /\ OtherWfs(proc[p].plan) /\ GateDone(proc[p].plan, proc[p].idx + 1)
           /\ UNCHANGED <<plan, exec, ran, approved, refused, faulty, overlapped, miscounts, calls, faults>>
<1>0. /\ proc[p].pc = "next" /\ Return(p)
      /\ UNCHANGED <<plan, exec, ran, approved, refused, faulty, overlapped, miscounts, calls, faults>>
  BY DEF GateNextStep, At, history, bounds
<1>1. PICK t \in Plans : t = proc[p].plan
  BY TargetTyped DEF TypeInv
<1>2. PICK s \in Steps : s = proc[p].idx + 1
  BY <1>0, TargetTyped, HandlingFields DEF TypeInv
<1>3. wf' = IF GateRefused(t, s) THEN wf ELSE [wf EXCEPT ![t] = Gated(wf[t], s)]
  BY <1>1, <1>2 DEF GateNextStep, Target, TypeInv, WfOK
<1>4. WfOK' /\ OtherWfs(t) /\ GateDone(t, s)
  BY <1>3, GateIs DEF TypeInv
<1> QED BY <1>0, <1>1, <1>2, <1>4, ReturnIs DEF TypeInv

\* The workflow is closed, or left as it is.
LEMMA CloseIs ==
    ASSUME WfOK, NEW t \in Plans, NEW st \in WfStatuses, NEW closes \in BOOLEAN,
           wf' = [wf EXCEPT ![t] = IF closes THEN Closed(wf[t], st) ELSE wf[t]]
    PROVE  /\ WfOK' /\ OtherWfs(t)
           /\ wf'[t].cursor = wf[t].cursor /\ wf'[t].pending = wf[t].pending
           /\ wf'[t].status = IF closes THEN st ELSE wf[t].status
           /\ wf'[t].slot = TRUE => wf[t].slot = TRUE
<1>1. PICK w \in Workflow : w = wf[t]
  BY DEF WfOK
<1>2. PICK y : y = IF closes THEN Closed(w, st) ELSE w
  OBVIOUS
<1>3. /\ y \in Workflow /\ y.cursor = w.cursor /\ y.pending = w.pending
      /\ y.status = IF closes THEN st ELSE w.status
      /\ y.slot = TRUE => w.slot = TRUE
  <2>1. CASE closes
    <3>1. y = Closed(w, st)
      BY <1>2, <2>1
    <3>2. y \in Workflow /\ y.status = st /\ y.cursor = w.cursor /\ y.pending = w.pending /\ y.slot = FALSE
      BY <3>1 DEF Closed, Workflow, WfFields
    <3> QED BY <2>1, <3>2
  <2>2. CASE ~closes
    BY <1>2, <2>2
  <2> QED BY <2>1, <2>2
<1>4. wf' = [wf EXCEPT ![t] = y]
  BY <1>1, <1>2
<1>5. WfOK' /\ wf'[t] = y /\ OtherWfs(t)
  BY <1>3, <1>4, WfMoves
<1> QED BY <1>1, <1>3, <1>5

LEMMA RejectEffect ==
    ASSUME TypeInv, NEW p \in Procs, RejectPlan(p)
    PROVE  /\ ProcOK' /\ Others(p) /\ proc[p].pc = "abort"
           /\ proc'[p].pc = "mark" /\ proc'[p].plan = proc[p].plan /\ proc'[p].outcome = "failed"
           /\ WfOK' /\ OtherWfs(proc[p].plan)
           /\ wf'[proc[p].plan].status # "in_progress"
           /\ wf'[proc[p].plan].slot = TRUE => wf[proc[p].plan].slot = TRUE
           /\ UNCHANGED <<plan, exec, ran, approved, refused, faulty, overlapped, miscounts, calls, faults>>
<1>0. /\ proc[p].pc = "abort" /\ Ends(p, "failed", FALSE)
      /\ UNCHANGED <<plan, exec, ran, approved, refused, faulty, overlapped, miscounts, calls, faults>>
  BY DEF RejectPlan, At, history, bounds
<1>1. PICK t \in Plans : t = proc[p].plan
  BY TargetTyped DEF TypeInv
<1>2. PICK c \in BOOLEAN : c <=> wf[t].status = "in_progress"
  OBVIOUS
<1>3. wf' = [wf EXCEPT ![t] = IF c THEN Closed(wf[t], "aborted") ELSE wf[t]]
  BY <1>1, <1>2 DEF RejectPlan, Target, TypeInv, WfOK
<1>4. /\ WfOK' /\ OtherWfs(t)
      /\ wf'[t].status = IF c THEN "aborted" ELSE wf[t].status
      /\ wf'[t].slot = TRUE => wf[t].slot = TRUE
  BY <1>3, CloseIs DEF TypeInv, WfStatuses
<1>5. /\ ProcOK' /\ Others(p)
      /\ proc'[p].pc = "mark" /\ proc'[p].plan = proc[p].plan /\ proc'[p].outcome = "failed"
  BY <1>0, EndsIs DEF TypeInv, Outcomes
<1> QED BY <1>0, <1>1, <1>2, <1>4, <1>5

LEMMA ApproveEffect ==
    ASSUME TypeInv, NEW p \in Procs, ApprovePending(p)
    PROVE  /\ ProcOK' /\ Others(p) /\ proc[p].pc = "approve"
           /\ WfOK' /\ OtherWfs(proc[p].plan)
           /\ wf'[proc[p].plan].status = wf[proc[p].plan].status
           /\ wf'[proc[p].plan].cursor = wf[proc[p].plan].cursor
           /\ wf'[proc[p].plan].slot = wf[proc[p].plan].slot
           /\ RanOK' /\ \A pl \in Plans : approved[pl] \subseteq approved'[pl]
           /\ \/ /\ proc[p].pend \in wf[proc[p].plan].pending
                 /\ wf'[proc[p].plan].pending = wf[proc[p].plan].pending \ {proc[p].pend}
                 /\ proc[p].pend \in approved'[proc[p].plan]
                 /\ proc'[p].pc = "step" /\ proc'[p].plan = proc[p].plan /\ proc'[p].idx = proc[p].idx
              \/ proc[p].pend \notin wf[proc[p].plan].pending /\ UNCHANGED wf /\ proc'[p].pc = "idle"
           /\ UNCHANGED <<plan, exec, ran, refused, faulty, overlapped, miscounts, calls, faults>>
<1>0. /\ proc[p].pc = "approve"
      /\ UNCHANGED <<plan, exec, ran, refused, faulty, overlapped, miscounts, calls, faults>>
  BY DEF ApprovePending, At, bounds
<1>1. PICK t \in Plans : t = proc[p].plan
  BY TargetTyped DEF TypeInv
<1>2. PICK w \in Workflow : w = wf[t]
  BY DEF TypeInv, WfOK
<1>3. PICK q \in Handling : q = proc[p]
  BY DEF TypeInv, ProcOK
<1>4. CASE q.pend \in w.pending
  <2>0. q.pend \in Steps
    BY <1>4 DEF Workflow, WfFields
  <2>1. PICK y : y = [w EXCEPT !.pending = w.pending \ {q.pend}]
    OBVIOUS
  <2>2. /\ y \in Workflow /\ y.status = w.status /\ y.cursor = w.cursor
        /\ y.pending = w.pending \ {q.pend} /\ y.slot = w.slot
    BY <2>1, ApprovedIs
  <2>3. wf' = [wf EXCEPT ![t] = y]
    BY <1>1, <1>2, <1>3, <1>4, <2>1 DEF ApprovePending, Target, TypeInv, WfOK
  <2>4. WfOK' /\ wf'[t] = y /\ OtherWfs(t)
    BY <2>2, <2>3, WfMoves DEF TypeInv
  <2>5. approved' = [approved EXCEPT ![t] = approved[t] \cup {q.pend}]
    BY <1>1, <1>2, <1>3, <1>4 DEF ApprovePending, Target, TypeInv, RanOK
  <2>6. RanOK' /\ (\A pl \in Plans : approved[pl] \subseteq approved'[pl]) /\ q.pend \in approved'[t]
    BY <1>0, <2>0, <2>5 DEF TypeInv, RanOK
  <2>7. PICK r : r = [q EXCEPT !.pc = "step", !.pend = NoStep]
    OBVIOUS
  <2>8. r \in Handling /\ r.pc = "step" /\ r.plan = q.plan /\ r.idx = q.idx
    BY <2>7 DEF Handling, ProcFields, Pcs
  <2>9. proc' = [proc EXCEPT ![p] = r]
    BY <1>1, <1>2, <1>3, <1>4, <2>7 DEF ApprovePending, Target, TypeInv, ProcOK
  <2>10. ProcOK' /\ proc'[p] = r /\ Others(p)
    BY <2>8, <2>9, ProcMoves DEF TypeInv
  <2> QED BY <1>0, <1>1, <1>2, <1>3, <1>4, <2>2, <2>4, <2>6, <2>8, <2>10
<1>5. CASE q.pend \notin w.pending
  <2>1. UNCHANGED <<wf, approved>> /\ Return(p)
    BY <1>1, <1>2, <1>3, <1>5 DEF ApprovePending, Target
  <2>2. ProcOK' /\ proc'[p].pc = "idle" /\ Others(p)
    BY <2>1, ReturnIs DEF TypeInv
  <2> QED BY <1>0, <1>1, <1>2, <1>3, <1>5, <2>1, <2>2 DEF TypeInv, WfOK, RanOK, OtherWfs
<1> QED BY <1>4, <1>5

LEMMA StepEffect ==
    ASSUME TypeInv, NEW p \in Procs, ExecuteSingleStep(p)
    PROVE  /\ ProcOK' /\ Others(p) /\ proc[p].pc = "step" /\ Kept(proc[p], proc'[p])
           /\ RanOK' /\ \A pl \in Plans \ {proc[p].plan} : ran'[pl] = ran[pl]
           /\ \/ proc[p].idx >= NumSteps /\ UNCHANGED ran /\ proc'[p].pc = "finish"
              \/ /\ proc[p].idx < NumSteps
                 /\ ran'[proc[p].plan] = Append(ran[proc[p].plan], proc[p].idx)
                 /\ proc'[p].pc = IF proc[p].idx + 1 >= NumSteps THEN "finish" ELSE "next"
           /\ UNCHANGED <<plan, exec, wf, approved, refused, faulty, overlapped, miscounts, calls, faults>>
<1>0. /\ proc[p].pc = "step"
      /\ UNCHANGED <<plan, exec, wf, approved, refused, faulty, overlapped, miscounts, calls, faults>>
  BY DEF ExecuteSingleStep, At, bounds
<1>1. PICK t \in Plans : t = proc[p].plan
  BY TargetTyped DEF TypeInv
<1>2. PICK n \in Nat : n = proc[p].idx
  BY TargetTyped DEF TypeInv
<1>3. CASE n >= NumSteps
  <2>1. UNCHANGED ran /\ Goto(p, "finish")
    BY <1>2, <1>3 DEF ExecuteSingleStep
  <2>2. ProcOK' /\ proc'[p].pc = "finish" /\ Kept(proc[p], proc'[p]) /\ Others(p)
    BY <2>1, GotoIs DEF TypeInv, Pcs
  <2> QED BY <1>0, <1>2, <1>3, <2>1, <2>2 DEF TypeInv, RanOK
<1>4. CASE ~(n >= NumSteps)
  <2>1. n < NumSteps /\ n \in Steps
    BY <1>4, StepsAssumption DEF Steps
  <2>2. ran' = [ran EXCEPT ![t] = Append(ran[t], n)]
    BY <1>1, <1>2, <1>4 DEF ExecuteSingleStep, Target, TypeInv, RanOK
  <2>3. Append(ran[t], n) \in Seq(Steps)
    BY <2>1, AppendProperties DEF TypeInv, RanOK
  <2>4. RanOK' /\ ran'[t] = Append(ran[t], n) /\ \A pl \in Plans \ {t} : ran'[pl] = ran[pl]
    BY <1>0, <2>2, <2>3 DEF TypeInv, RanOK
  <2>5. PICK pc : pc = IF n + 1 >= NumSteps THEN "finish" ELSE "next"
    OBVIOUS
  <2>6. Goto(p, pc)
    BY <1>2, <1>4, <2>5 DEF ExecuteSingleStep, IsLast
  <2>7. pc \in Pcs \ {"mark", "gate", "wfcount", "wftrack"} /\ (pc = "next" => n + 1 \in Steps)
    BY <1>4, <2>5, StepsAssumption DEF Pcs, Steps
  <2>8. ProcOK' /\ proc'[p].pc = pc /\ Kept(proc[p], proc'[p]) /\ Others(p)
    BY <1>2, <2>6, <2>7, GotoIs DEF TypeInv
  <2> QED BY <1>0, <1>1, <1>2, <2>1, <2>4, <2>5, <2>8
<1> QED BY <1>3, <1>4

LEMMA CompleteEffect ==
    ASSUME TypeInv, NEW p \in Procs, CompleteWorkflow(p)
    PROVE  /\ ProcOK' /\ Others(p) /\ proc[p].pc = "finish"
           /\ proc'[p].pc = "mark" /\ proc'[p].plan = proc[p].plan /\ proc'[p].outcome = "completed"
           /\ proc'[p].tracked = TRUE
           /\ WfOK' /\ OtherWfs(proc[p].plan)
           /\ wf'[proc[p].plan].cursor = wf[proc[p].plan].cursor
           /\ wf'[proc[p].plan].pending = wf[proc[p].plan].pending
           /\ wf[proc[p].plan].pending = {} => wf'[proc[p].plan].status # "in_progress"
           /\ wf'[proc[p].plan].slot = TRUE => wf[proc[p].plan].slot = TRUE
           /\ UNCHANGED <<plan, exec, ran, approved, refused, faulty, overlapped, miscounts, calls, faults>>
<1>0. /\ proc[p].pc = "finish" /\ Ends(p, "completed", TRUE)
      /\ UNCHANGED <<plan, exec, ran, approved, refused, faulty, overlapped, miscounts, calls, faults>>
  BY DEF CompleteWorkflow, At, history, bounds
<1>1. PICK t \in Plans : t = proc[p].plan
  BY TargetTyped DEF TypeInv
<1>2. PICK c \in BOOLEAN : c <=> (wf[t].status = "in_progress" /\ wf[t].pending = {})
  OBVIOUS
<1>3. wf' = [wf EXCEPT ![t] = IF c THEN Closed(wf[t], "completed") ELSE wf[t]]
  BY <1>1, <1>2 DEF CompleteWorkflow, Target, TypeInv, WfOK
<1>4. /\ WfOK' /\ OtherWfs(t)
      /\ wf'[t].cursor = wf[t].cursor /\ wf'[t].pending = wf[t].pending
      /\ wf'[t].status = IF c THEN "completed" ELSE wf[t].status
      /\ wf'[t].slot = TRUE => wf[t].slot = TRUE
  BY <1>3, CloseIs DEF TypeInv, WfStatuses
<1>5. /\ ProcOK' /\ Others(p)
      /\ proc'[p].pc = "mark" /\ proc'[p].plan = proc[p].plan /\ proc'[p].outcome = "completed"
      /\ proc'[p].tracked = TRUE
  BY <1>0, EndsIs DEF TypeInv, Outcomes
<1> QED BY <1>0, <1>1, <1>2, <1>4, <1>5

LEMMA AfterMarkIs ==
    ASSUME ProcOK, NEW p \in Procs, AfterMark(p)
    PROVE  /\ ProcOK' /\ Others(p)
           /\ \/ proc[p].tracked /\ proc'[p].pc = "sync" /\ Kept(proc[p], proc'[p])
              \/ ~proc[p].tracked /\ proc'[p].pc = "idle"
<1>1. CASE proc[p].tracked
  BY <1>1, GotoIs DEF AfterMark, Pcs
<1>2. CASE ~proc[p].tracked
  BY <1>2, ReturnIs DEF AfterMark
<1> QED BY <1>1, <1>2

LEMMA MarkEffect ==
    ASSUME TypeInv, NEW p \in Procs, MarkPlan(p)
    PROVE  /\ ProcOK' /\ Others(p) /\ proc[p].pc = "mark"
           /\ \/ proc[p].tracked /\ proc'[p].pc = "sync" /\ Kept(proc[p], proc'[p])
              \/ ~proc[p].tracked /\ proc'[p].pc = "idle"
           /\ plan' = [plan EXCEPT ![proc[p].plan] = proc[p].outcome]
           /\ UNCHANGED <<exec, wf, ran, approved, refused, faulty, overlapped, miscounts, calls, faults>>
<1>1. ProcOK /\ AfterMark(p)
  BY DEF MarkPlan, TypeInv
<1> QED BY <1>1, AfterMarkIs DEF MarkPlan, At, Target, history, bounds

LEMMA SyncEffect ==
    ASSUME TypeInv, NEW p \in Procs, SyncPlanStatus(p)
    PROVE  /\ ProcOK' /\ Others(p) /\ proc[p].pc = "sync" /\ proc'[p].pc = "idle"
           /\ exec' = [exec EXCEPT ![proc[p].plan] = IF exec[proc[p].plan] = "none" THEN "none"
                                                     ELSE proc[p].outcome]
           /\ UNCHANGED <<plan, wf, ran, approved, refused, faulty, overlapped, miscounts, calls, faults>>
<1>1. PICK t \in Plans : t = proc[p].plan
  BY TargetTyped DEF TypeInv
<1>2. exec' = [exec EXCEPT ![t] = IF exec[t] = "none" THEN "none" ELSE proc[p].outcome]
  BY <1>1 DEF SyncPlanStatus, Target, TypeInv, PlanOK
<1> QED BY <1>1, <1>2, ReturnIs DEF SyncPlanStatus, At, TypeInv, history, bounds

\* A failing call: where the handler goes on, and whether it was a count.
LEMMA FailEffect ==
    ASSUME TypeInv, NEW p \in Procs, CallFails(p) \/ Disconnect(p)
    PROVE  /\ ProcOK' /\ Others(p) /\ proc[p].pc # "idle"
           /\ UNCHANGED <<plan, exec, wf, ran, approved, refused, overlapped, calls>>
           /\ faulty' = faulty \cup {proc[p].plan} /\ faults < MaxFaults /\ faults' = faults + 1
           /\ \/ /\ proc'[p].pc \in {"create", "wftrack"} /\ miscounts' = miscounts + 1
                 /\ proc'[p].plan = proc[p].plan
                 /\ proc'[p].pc = "create" => proc[p].pc = "count"
                 /\ proc'[p].pc = "wftrack" => proc[p].pc = "wfcount"
              \/ /\ UNCHANGED miscounts
                 /\ \/ proc'[p].pc = "idle"
                    \/ proc[p].pc = "wftrack" /\ proc'[p].pc = "gate" /\ proc'[p].plan = proc[p].plan
                    \/ proc[p].pc = "mark" /\ proc'[p].pc = "sync" /\ Kept(proc[p], proc'[p])
                    \/ /\ proc'[p].pc = "mark" /\ proc'[p].plan = proc[p].plan
                       /\ proc'[p].outcome = "completed" => proc[p].pc = "finish"
<1>1. CASE Disconnect(p)
  BY <1>1, ReturnIs DEF Disconnect, At, Target, TypeInv
<1>2. CASE CallFails(p)
  <2>0. /\ proc[p].pc \in Pcs \ {"idle", "create", "step"} /\ AfterFailure(p)
        /\ UNCHANGED <<plan, exec, wf, ran, approved, refused, overlapped, calls>>
        /\ faulty' = faulty \cup {proc[p].plan} /\ faults < MaxFaults /\ faults' = faults + 1
        /\ miscounts' = IF proc[p].pc \in {"count", "wfcount"} THEN miscounts + 1 ELSE miscounts
    BY <1>2, TargetTyped DEF CallFails, Target, TypeInv
  <2>1. CASE proc[p].pc = "count"
    <3>1. Goto(p, "create")
      BY <2>0, <2>1 DEF AfterFailure, At
    <3> QED BY <2>0, <2>1, <3>1, GotoIs DEF TypeInv, Pcs, Kept
  <2>2. CASE proc[p].pc = "wfcount"
    <3>1. Goto(p, "wftrack")
      BY <2>0, <2>2 DEF AfterFailure, At
    <3>2. proc[p].plan \notin AutoPlans
      BY <2>2, TargetTyped, HandlingFields DEF TypeInv
    <3> QED BY <2>0, <2>2, <3>1, <3>2, GotoIs DEF TypeInv, Pcs, Kept
  <2>3. CASE proc[p].pc = "wftrack"
    <3>1. AfterCreate(p)
      BY <2>0, <2>3 DEF AfterFailure, At
    <3> QED BY <2>0, <2>3, <3>1, AfterCreateIs DEF TypeInv, Kept
  <2>4. CASE proc[p].pc = "mark"
    <3>1. Return(p) \/ AfterMark(p)
      BY <2>0, <2>4 DEF AfterFailure, At
    <3> QED BY <2>0, <2>4, <3>1, AfterMarkIs, ReturnIs DEF TypeInv
  <2>5. CASE proc[p].pc = "finish"
    <3>1. Ends(p, "completed", TRUE)
      BY <2>0, <2>5 DEF AfterFailure, At
    <3> QED BY <2>0, <2>5, <3>1, EndsIs DEF TypeInv, Outcomes
  <2>6. CASE proc[p].pc \in {"run", "gate", "abort"}
    <3>1. Ends(p, "failed", FALSE)
      BY <2>0, <2>6 DEF AfterFailure, At
    <3> QED BY <2>0, <2>6, <3>1, EndsIs DEF TypeInv, Outcomes
  <2>7. CASE proc[p].pc \in {"list", "approve", "sync", "next"}
    <3>1. Return(p)
      BY <2>0, <2>7 DEF AfterFailure, At
    <3> QED BY <2>0, <2>7, <3>1, ReturnIs DEF TypeInv
  <2> QED BY <2>0, <2>1, <2>2, <2>3, <2>4, <2>5, <2>6, <2>7 DEF Pcs
<1> QED BY <1>1, <1>2

\* The requests, handlers and faults of one process.
Acts(p) == Request(p) \/ Handler(p) \/ Fault(p)

LEMMA RequestTypes ==
    ASSUME TypeInv, NEW p \in Procs, Request(p)
    PROVE  TypeInv' /\ Others(p)
<1>1. PICK pl \in Plans : ClaimPlan(p, pl) \/ CheckCancel(p, pl) \/ GetPlan(p, pl)
  BY DEF Request
<1>2. /\ calls < MaxCalls /\ calls' = calls + 1 /\ UNCHANGED faults /\ ProcOK' /\ Others(p)
      /\ UNCHANGED <<exec, wf, ran, approved, refused, faulty, miscounts>>
      /\ plan' = plan \/ plan' = [plan EXCEPT ![pl] = "executing"]
      /\ overlapped' \in {overlapped, overlapped \cup {pl}}
  <2>1. CASE ClaimPlan(p, pl)
    BY <2>1, ClaimEffect
  <2>2. CASE CheckCancel(p, pl)
    BY <2>2, CancelEffect
  <2>3. CASE GetPlan(p, pl)
    BY <2>3, GetEffect
  <2> QED BY <1>1, <2>1, <2>2, <2>3
<1>3. BoundsOK'
  BY <1>2, LimitAssumption DEF TypeInv, BoundsOK
<1>4. plan' \in [Plans -> PlanStatuses]
  BY <1>2 DEF TypeInv, PlanOK, PlanStatuses
<1>5. overlapped' \subseteq Plans
  BY <1>2 DEF TypeInv, HistoryOK
<1> QED BY <1>2, <1>3, <1>4, <1>5 DEF TypeInv, PlanOK, WfOK, RanOK, HistoryOK

LEMMA FaultTypes ==
    ASSUME TypeInv, NEW p \in Procs, Fault(p)
    PROVE  TypeInv' /\ Others(p)
<1>0. proc[p].plan \in Plans
  BY TargetTyped DEF TypeInv
<1>1. /\ ProcOK' /\ Others(p) /\ UNCHANGED <<plan, wf, ran, approved, refused, overlapped, calls>>
      /\ faulty' \subseteq Plans
  BY <1>0, CreateEffect, FailEffect DEF Fault, TypeInv, HistoryOK
<1>2. exec' \in [Plans -> ExecStatuses]
  <2>1. exec' = exec \/ exec' = [exec EXCEPT ![proc[p].plan] = "pending"]
    BY CreateEffect, FailEffect DEF Fault
  <2> QED BY <2>1 DEF TypeInv, PlanOK, ExecStatuses
<1>3. faults' \in 0 .. MaxFaults
  <2>1. faults' = faults \/ (faults < MaxFaults /\ faults' = faults + 1)
    BY CreateEffect, FailEffect DEF Fault
  <2> QED BY <2>1, LimitAssumption DEF TypeInv, BoundsOK
<1>4. miscounts' \in Nat
  <2>1. miscounts' = miscounts \/ miscounts' = miscounts + 1
    BY CreateEffect, FailEffect DEF Fault
  <2> QED BY <2>1 DEF TypeInv, HistoryOK
<1> QED BY <1>1, <1>2, <1>3, <1>4 DEF TypeInv, PlanOK, WfOK, RanOK, HistoryOK, BoundsOK

LEMMA HandlerTypes ==
    ASSUME TypeInv, NEW p \in Procs, Handler(p)
    PROVE  TypeInv' /\ Others(p)
<1>0. proc[p].plan \in Plans /\ proc[p].outcome \in Outcomes
  BY TargetTyped DEF TypeInv
<1>1. CASE CountActive(p)
  BY <1>0, <1>1, CountEffect DEF TypeInv, PlanOK, WfOK, RanOK, HistoryOK, BoundsOK
<1>2. CASE StartPlanExecution(p)
  <2>1. exec' = [exec EXCEPT ![proc[p].plan] = "pending"] /\ faulty' = faulty /\ faults' = faults
    BY <1>2 DEF StartPlanExecution, Target, history, bounds
  <2>2. exec' \in [Plans -> ExecStatuses]
    BY <2>1 DEF TypeInv, PlanOK, ExecStatuses
  <2> QED BY <1>2, <2>1, <2>2, CreateEffect DEF TypeInv, PlanOK, WfOK, RanOK, HistoryOK, BoundsOK
<1>3. CASE PlanFails(p) \/ EngineCompletes(p)
  BY <1>3, RunEffect DEF TypeInv, PlanOK, WfOK, RanOK, HistoryOK, BoundsOK
<1>4. CASE InsertWorkflow(p) \/ CountForWorkflow(p) \/ TrackWorkflow(p)
  BY <1>4, InsertEffect, CountForEffect, TrackEffect DEF TypeInv, PlanOK, RanOK, HistoryOK, BoundsOK
<1>5. CASE GateFirstStep(p) \/ GateNextStep(p)
  BY <1>5, FirstGateEffect, NextGateEffect DEF TypeInv, PlanOK, RanOK, HistoryOK, BoundsOK
<1>6. CASE RejectPlan(p) \/ CompleteWorkflow(p)
  BY <1>6, RejectEffect, CompleteEffect DEF TypeInv, PlanOK, RanOK, HistoryOK, BoundsOK
<1>7. CASE ApprovePending(p)
  BY <1>7, ApproveEffect DEF TypeInv, PlanOK, HistoryOK, BoundsOK
<1>8. CASE ExecuteSingleStep(p)
  BY <1>8, StepEffect DEF TypeInv, PlanOK, WfOK, HistoryOK, BoundsOK
<1>9. CASE MarkPlan(p)
  <2>1. plan' \in [Plans -> PlanStatuses]
    BY <1>0, <1>9, MarkEffect DEF TypeInv, PlanOK, PlanStatuses, Outcomes
  <2> QED BY <1>9, <2>1, MarkEffect DEF TypeInv, PlanOK, WfOK, RanOK, HistoryOK, BoundsOK
<1>10. CASE SyncPlanStatus(p)
  <2>1. exec' \in [Plans -> ExecStatuses]
    BY <1>0, <1>10, SyncEffect DEF TypeInv, PlanOK, ExecStatuses, Outcomes
  <2> QED BY <1>10, <2>1, SyncEffect DEF TypeInv, PlanOK, WfOK, RanOK, HistoryOK, BoundsOK
<1>11. ASSUME NEW ok \in BOOLEAN, ListWorkflows(p, ok) PROVE TypeInv' /\ Others(p)
  BY <1>11, ListEffect DEF TypeInv, PlanOK, WfOK, RanOK, HistoryOK, BoundsOK
<1> QED BY <1>1, <1>2, <1>3, <1>4, <1>5, <1>6, <1>7, <1>8, <1>9, <1>10, <1>11 DEF Handler, ExecutePlan, ResumePlan

LEMMA ActsTypes ==
    ASSUME TypeInv, NEW p \in Procs, Acts(p)
    PROVE  TypeInv' /\ Others(p)
BY RequestTypes, HandlerTypes, FaultTypes DEF Acts

LEMMA NextTypes == TypeInv /\ [Next]_vars => TypeInv'
<1> SUFFICES ASSUME TypeInv, [Next]_vars PROVE TypeInv'
  OBVIOUS
<1>1. CASE UNCHANGED vars
  BY <1>1 DEF vars, TypeInv, PlanOK, WfOK, ProcOK, RanOK, HistoryOK, BoundsOK
<1>2. CASE Next
  BY <1>2, ActsTypes DEF Next, Acts
<1> QED BY <1>1, <1>2

LEMMA TypeInvHolds == Spec => []TypeInv
BY InitTypes, NextTypes, PTL DEF Spec

LEMMA TypeInvImplies == TypeInv => TypeOK
<1> SUFFICES ASSUME TypeInv PROVE TypeOK
  OBVIOUS
<1>1. proc \in [Procs -> [pc: Pcs, plan: Plans, tracked: BOOLEAN, idx: Nat,
                          pend: Steps \cup {NoStep}, outcome: PlanStatuses]]
  <2>1. \A q \in Handling : q \in [pc: Pcs, plan: Plans, tracked: BOOLEAN, idx: Nat,
                          pend: Steps \cup {NoStep}, outcome: PlanStatuses]
    BY DEF Handling, ProcFields, Outcomes, PlanStatuses
  <2> QED BY <2>1 DEF TypeInv, ProcOK
<1>2. wf \in [Plans -> WfFields]
  BY DEF TypeInv, WfOK, Workflow
<1> QED BY <1>1, <1>2 DEF TypeInv, TypeOK, PlanOK, RanOK, HistoryOK, BoundsOK, WfFields

\* The handlers keep their rows, cursors and histories well-formed, whatever they
\* interleave: no step outside the plan is gated, approved or executed
\* (executePlanHandler, resumePlanHandler, cancelPlanHandler).
THEOREM TypeCorrect == Spec => []TypeOK
BY TypeInvHolds, TypeInvImplies, PTL

-----------------------------------------------------------------------------
(* The limit of concurrent executions.                                     *)

\* Handlers that have counted and not yet inserted.
Passing == {p \in Procs : proc[p].pc \in {"create", "wftrack"}}

LimitInv ==
    /\ IsFiniteSet(ActiveRows)
    /\ Cardinality(ActiveRows) + Cardinality(Passing) <= MaxActive + Cardinality(Procs) - 1 + miscounts

LEMMA Sizes ==
    ASSUME TypeInv
    PROVE  /\ IsFiniteSet(Passing) /\ Cardinality(Passing) \in Nat /\ Cardinality(Procs) \in Nat
           /\ Cardinality(Passing) <= Cardinality(Procs) /\ miscounts \in Nat /\ MaxActive \in Nat \ {0}
           /\ IsFiniteSet(ActiveRows) => Cardinality(ActiveRows) \in Nat
<1>1. Passing \subseteq Procs
  BY DEF Passing
<1>2. IsFiniteSet(Passing) /\ Cardinality(Passing) <= Cardinality(Procs)
  BY <1>1, RequestsAssumption, FS_Subset
<1> QED BY <1>2, RequestsAssumption, LimitAssumption, FS_CardinalityType DEF TypeInv, HistoryOK

\* Nobody goes in, no row is added.
LEMMA LimitKept ==
    ASSUME TypeInv, TypeInv', LimitInv, ActiveRows' \subseteq ActiveRows, Passing' \subseteq Passing,
           miscounts' = miscounts
    PROVE  LimitInv'
<1>1. IsFiniteSet(ActiveRows') /\ Cardinality(ActiveRows') <= Cardinality(ActiveRows)
  BY FS_Subset DEF LimitInv
<1>2. IsFiniteSet(Passing') /\ Cardinality(Passing') <= Cardinality(Passing)
  BY Sizes, FS_Subset
<1>3. Cardinality(ActiveRows') \in Nat /\ Cardinality(Passing') \in Nat /\ Cardinality(ActiveRows) \in Nat
  BY <1>1, <1>2, FS_CardinalityType DEF LimitInv
<1> QED BY <1>1, <1>2, <1>3, Sizes DEF LimitInv

LEMMA SameRows ==
    ASSUME \A pl \in Plans : exec'[pl] = "pending" => exec[pl] = "pending",
           \A pl \in Plans : wf'[pl].slot = TRUE => wf[pl].slot = TRUE,
           TypeInv, TypeInv'
    PROVE  ActiveRows' \subseteq ActiveRows
<1>1. \A pl \in Plans : wf[pl].slot \in BOOLEAN /\ wf'[pl].slot \in BOOLEAN
  BY DEF TypeInv, WfOK, Workflow, WfFields
<1>2. \A pl \in Plans : wf'[pl].slot => wf[pl].slot
  BY <1>1
<1> QED BY <1>2 DEF ActiveRows

LEMMA SamePassing ==
    ASSUME NEW p \in Procs, Others(p), proc'[p].pc \notin {"create", "wftrack"}
    PROVE  Passing' = Passing \ {p}
BY DEF Passing, Others

\* A count below the limit.
LEMMA PassLimit ==
    ASSUME TypeInv, TypeInv', LimitInv, ~AtLimit, UNCHANGED <<exec, wf, miscounts>>
    PROVE  LimitInv'
<1>1. ActiveRows' = ActiveRows
  BY DEF ActiveRows
<1>2. Cardinality(Passing') <= Cardinality(Procs) /\ Cardinality(Passing') \in Nat
  BY RequestsAssumption, FS_Subset, FS_CardinalityType DEF Passing
<1>3. Cardinality(ActiveRows) < MaxActive /\ Cardinality(ActiveRows) \in Nat
  BY Sizes DEF AtLimit, LimitInv
<1> QED BY <1>1, <1>2, <1>3, Sizes DEF LimitInv

\* A count that failed.
LEMMA MiscountLimit ==
    ASSUME TypeInv, TypeInv', LimitInv, UNCHANGED <<exec, wf>>, miscounts' = miscounts + 1,
           NEW p \in Procs, Others(p)
    PROVE  LimitInv'
<1>1. ActiveRows' = ActiveRows
  BY DEF ActiveRows
<1>2. Passing' \subseteq Passing \cup {p}
  BY DEF Passing, Others
<1>3. IsFiniteSet(Passing \cup {p}) /\ Cardinality(Passing \cup {p}) <= Cardinality(Passing) + 1
  BY Sizes, FS_AddElement
<1>4. Cardinality(Passing') <= Cardinality(Passing) + 1 /\ Cardinality(Passing') \in Nat
  BY <1>2, <1>3, Sizes, FS_Subset, FS_CardinalityType
<1> QED BY <1>1, <1>4, Sizes DEF LimitInv

\* An insert takes the place its handler has counted.
LEMMA InsertLimit ==
    ASSUME TypeInv, TypeInv', LimitInv, NEW x, ActiveRows' \subseteq ActiveRows \cup {x},
           NEW p \in Passing, Passing' = Passing \ {p}, miscounts' = miscounts
    PROVE  LimitInv'
<1>1. IsFiniteSet(ActiveRows \cup {x}) /\ Cardinality(ActiveRows \cup {x}) <= Cardinality(ActiveRows) + 1
  <2>1. IsFiniteSet(ActiveRows) /\ Cardinality(ActiveRows) \in Nat
    BY Sizes DEF LimitInv
  <2> QED BY <2>1, FS_AddElement
<1>2. /\ IsFiniteSet(ActiveRows') /\ Cardinality(ActiveRows') \in Nat
      /\ Cardinality(ActiveRows') <= Cardinality(ActiveRows \cup {x})
  BY <1>1, FS_Subset, FS_CardinalityType
<1>3. Cardinality(Passing') = Cardinality(Passing) - 1
  BY Sizes, FS_RemoveElement
<1>4. Cardinality(ActiveRows \cup {x}) \in Nat
  BY <1>1, FS_CardinalityType
<1> QED BY <1>1, <1>2, <1>3, <1>4, Sizes DEF LimitInv

\* A step that adds no row and after which the handler has not just counted.
LEMMA RestLimit ==
    ASSUME TypeInv, TypeInv', LimitInv, NEW p \in Procs, Others(p),
           proc'[p].pc \notin {"create", "wftrack"}, miscounts' = miscounts,
           \A pl \in Plans : exec'[pl] = "pending" => exec[pl] = "pending",
           \A pl \in Plans : wf'[pl].slot = TRUE => wf[pl].slot = TRUE
    PROVE  LimitInv'
<1>1. ActiveRows' \subseteq ActiveRows
  BY SameRows
<1>2. Passing' \subseteq Passing
  BY SamePassing
<1> QED BY <1>1, <1>2, LimitKept

LEMMA RequestLimit ==
    ASSUME TypeInv, TypeInv', LimitInv, NEW p \in Procs, Request(p)
    PROVE  LimitInv'
<1>1. PICK pl \in Plans : ClaimPlan(p, pl) \/ CheckCancel(p, pl) \/ GetPlan(p, pl)
  BY DEF Request
<1>2. CASE ClaimPlan(p, pl)
  BY <1>2, ClaimEffect, RestLimit
<1>3. CASE CheckCancel(p, pl)
  BY <1>3, CancelEffect, RestLimit
<1>4. CASE GetPlan(p, pl)
  BY <1>4, GetEffect, RestLimit
<1> QED BY <1>1, <1>2, <1>3, <1>4

LEMMA CreateLimit ==
    ASSUME TypeInv, TypeInv', LimitInv, NEW p \in Procs, StartPlanExecution(p) \/ TrackingFails(p)
    PROVE  LimitInv'
<1>1. p \in Passing /\ Passing' = Passing \ {p} /\ miscounts' = miscounts
  BY CreateEffect, SamePassing DEF Passing
<1>2. PICK t \in Plans : t = proc[p].plan
  BY TargetTyped DEF TypeInv
<1>3. \A pl \in Plans : exec'[pl] = "pending" => exec[pl] = "pending" \/ pl = t
  BY <1>2, CreateEffect DEF TypeInv, PlanOK
<1>4. UNCHANGED wf
  BY CreateEffect
<1>5. ActiveRows' \subseteq ActiveRows \cup {<<"map", t>>}
  BY <1>3, <1>4 DEF ActiveRows
<1> QED BY <1>1, <1>5, InsertLimit

LEMMA TrackLimit ==
    ASSUME TypeInv, TypeInv', LimitInv, NEW p \in Procs, TrackWorkflow(p)
    PROVE  LimitInv'
<1>1. p \in Passing /\ Passing' = Passing \ {p} /\ miscounts' = miscounts
  BY TrackEffect, SamePassing DEF Passing
<1>2. PICK t \in Plans : t = proc[p].plan
  BY TargetTyped DEF TypeInv
<1>3. UNCHANGED exec /\ \A pl \in Plans \ {t} : wf'[pl] = wf[pl]
  BY <1>2, TrackEffect DEF OtherWfs
<1>4. ActiveRows' \subseteq ActiveRows \cup {<<"wcp", t>>}
  BY <1>3 DEF ActiveRows
<1> QED BY <1>1, <1>4, InsertLimit

LEMMA FaultLimit ==
    ASSUME TypeInv, TypeInv', LimitInv, NEW p \in Procs, CallFails(p) \/ Disconnect(p)
    PROVE  LimitInv'
<1>1. UNCHANGED <<exec, wf>> /\ Others(p)
  BY FailEffect
<1>2. CASE miscounts' = miscounts + 1
  BY <1>1, <1>2, MiscountLimit
<1>3. CASE miscounts' # miscounts + 1
  <2>1. proc'[p].pc \notin {"create", "wftrack"} /\ miscounts' = miscounts
    BY <1>3, FailEffect
  <2> QED BY <1>1, <2>1, RestLimit
<1> QED BY <1>2, <1>3

LEMMA HandlerLimit ==
    ASSUME TypeInv, TypeInv', LimitInv, NEW p \in Procs, Handler(p)
    PROVE  LimitInv'
<1>0. PICK t \in Plans : t = proc[p].plan
  BY TargetTyped DEF TypeInv
<1>1. CASE CountActive(p)
  BY <1>1, CountEffect, RestLimit, PassLimit
<1>2. CASE StartPlanExecution(p)
  BY <1>2, CreateLimit
<1>3. CASE PlanFails(p) \/ EngineCompletes(p)
  BY <1>3, RunEffect, RestLimit
<1>4. CASE InsertWorkflow(p)
  <2>1. \A pl \in Plans : wf'[pl].slot = TRUE => wf[pl].slot = TRUE
    BY <1>0, <1>4, InsertEffect DEF OtherWfs
  <2> QED BY <1>4, <2>1, InsertEffect, RestLimit
<1>5. CASE CountForWorkflow(p)
  <2>1. CASE ~AtLimit /\ UNCHANGED wf
    BY <1>5, <2>1, CountForEffect, PassLimit
  <2>2. CASE wf'[t] = NoWorkflow /\ proc'[p].pc = "mark"
    <3>1. \A pl \in Plans : wf'[pl].slot = TRUE => wf[pl].slot = TRUE
      BY <1>0, <1>5, <2>2, CountForEffect, NoWorkflowIs DEF OtherWfs
    <3> QED BY <1>5, <2>2, <3>1, CountForEffect, RestLimit
  <2> QED BY <1>0, <1>5, <2>1, <2>2, CountForEffect
<1>6. CASE TrackWorkflow(p)
  BY <1>6, TrackLimit
<1>7. CASE GateFirstStep(p)
  <2>1. \A pl \in Plans : wf'[pl].slot = TRUE => wf[pl].slot = TRUE
    BY <1>0, <1>7, FirstGateEffect DEF OtherWfs, GateDone
  <2> QED BY <1>7, <2>1, FirstGateEffect, RestLimit
<1>8. CASE GateNextStep(p)
  <2>1. \A pl \in Plans : wf'[pl].slot = TRUE => wf[pl].slot = TRUE
    BY <1>0, <1>8, NextGateEffect DEF OtherWfs, GateDone
  <2> QED BY <1>8, <2>1, NextGateEffect, RestLimit
<1>9. CASE RejectPlan(p)
  <2>1. \A pl \in Plans : wf'[pl].slot = TRUE => wf[pl].slot = TRUE
    BY <1>0, <1>9, RejectEffect DEF OtherWfs
  <2> QED BY <1>9, <2>1, RejectEffect, RestLimit
<1>10. CASE CompleteWorkflow(p)
  <2>1. \A pl \in Plans : wf'[pl].slot = TRUE => wf[pl].slot = TRUE
    BY <1>0, <1>10, CompleteEffect DEF OtherWfs
  <2> QED BY <1>10, <2>1, CompleteEffect, RestLimit
<1>11. CASE ApprovePending(p)
  <2>1. \A pl \in Plans : wf'[pl].slot = TRUE => wf[pl].slot = TRUE
    BY <1>0, <1>11, ApproveEffect DEF OtherWfs
  <2> QED BY <1>11, <2>1, ApproveEffect, RestLimit
<1>12. CASE ExecuteSingleStep(p)
  BY <1>12, StepEffect, RestLimit
<1>13. CASE MarkPlan(p)
  BY <1>13, MarkEffect, RestLimit
<1>14. CASE SyncPlanStatus(p)
  <2>1. \A pl \in Plans : exec'[pl] = "pending" => exec[pl] = "pending"
    <3>1. proc[p].outcome # "pending"
      BY TargetTyped DEF TypeInv, Outcomes
    <3> QED BY <1>0, <1>14, <3>1, SyncEffect DEF TypeInv, PlanOK
  <2> QED BY <1>14, <2>1, SyncEffect, RestLimit
<1>15. ASSUME NEW ok \in BOOLEAN, ListWorkflows(p, ok) PROVE LimitInv'
  <2>1. Others(p) /\ proc'[p].pc \notin {"create", "wftrack"} /\ UNCHANGED <<exec, wf, miscounts>>
    BY <1>15, ListEffect DEF Listed
  <2> QED BY <2>1, RestLimit
<1> QED BY <1>1, <1>2, <1>3, <1>4, <1>5, <1>6, <1>7, <1>8, <1>9, <1>10, <1>11, <1>12, <1>13, <1>14, <1>15
        DEF Handler, ExecutePlan, ResumePlan

LEMMA NextLimit == TypeInv /\ TypeInv' /\ LimitInv /\ [Next]_vars => LimitInv'
<1> SUFFICES ASSUME TypeInv, TypeInv', LimitInv, [Next]_vars PROVE LimitInv'
  OBVIOUS
<1>1. CASE UNCHANGED vars
  <2>1. ActiveRows' = ActiveRows /\ Passing' = Passing /\ miscounts' = miscounts
    BY <1>1 DEF vars, ActiveRows, Passing
  <2> QED BY <2>1 DEF LimitInv
<1>2. CASE Next
  BY <1>2, RequestLimit, HandlerLimit, CreateLimit, FaultLimit DEF Next, Fault
<1> QED BY <1>1, <1>2

LEMMA InitLimit == Init => LimitInv
<1> SUFFICES ASSUME Init PROVE LimitInv
  OBVIOUS
<1>1. ActiveRows = {}
  BY NoWorkflowIs DEF Init, ActiveRows
<1>2. Passing = {}
  BY IdleIs DEF Init, Passing
<1>3. Cardinality(Procs) \in Nat /\ miscounts = 0
  BY RequestsAssumption, FS_CardinalityType DEF Init
<1> QED BY <1>1, <1>2, <1>3, FS_EmptySet, LimitAssumption DEF LimitInv

\* CountActive and the INSERT are two statements: the tenant's limit is exceeded by no
\* more than the other requests in flight, plus the counts whose error the tracker
\* ignored (StartExecution; CreateWorkflow's limit check).
THEOREM OvershootBounded == Spec => []LimitOvershoot
<1>1. TypeInv /\ LimitInv => LimitOvershoot
  <2> SUFFICES ASSUME TypeInv, LimitInv PROVE LimitOvershoot
    OBVIOUS
  <2>1. Cardinality(ActiveRows) \in Nat /\ Cardinality(Passing) \in Nat /\ Cardinality(Procs) \in Nat
    BY Sizes DEF LimitInv
  <2> QED BY <2>1, Sizes DEF LimitInv, LimitOvershoot
<1> QED BY <1>1, InitLimit, NextLimit, TypeInvHolds, PTL DEF Spec

-----------------------------------------------------------------------------
(* Who drives a plan: it is claimed once, and nothing of it exists before   *)
(* its executor has passed "run".                                          *)

Early     == {"count", "create", "run"}
Executing == Early \cup {"wfcount", "wftrack", "gate"}
Resuming  == {"abort", "approve", "step", "finish", "next"}
Driving   == Executing \cup Resuming \cup {"list"}

\* A handler that resumes its plan, or is going to store that it is completed.
Completing(q) == q.pc \in Resuming \/ (q.pc \in {"mark", "sync"} /\ q.outcome = "completed")

ClaimedInv  == \A p \in Procs : proc[p].pc \in Driving => plan[proc[p].plan] # "pending"
OneExecutor == \A p, q \in Procs :
    proc[p].pc \in Executing /\ proc[q].pc \in Executing /\ proc[p].plan = proc[q].plan => p = q
Unstarted(pl) ==
    /\ wf[pl] = NoWorkflow /\ ran[pl] = <<>> /\ plan[pl] # "completed"
    /\ \A q \in Procs : proc[q].plan = pl => ~Completing(proc[q])
StartInv == \A pl \in Plans :
    plan[pl] = "pending" \/ (\E p \in Procs : proc[p].plan = pl /\ proc[p].pc \in Early) => Unstarted(pl)

DriveInv == ClaimedInv /\ OneExecutor /\ StartInv

\* A step of p: what is left to show is about p and its plan.
LEMMA DriveKept ==
    ASSUME DriveInv, NEW p \in Procs, Others(p),
           \A pl \in Plans : plan'[pl] = "pending" => plan[pl] = "pending",
           \A q \in Procs : proc[q].plan \in Plans, proc'[p].plan \in Plans,
           proc'[p].pc \in Driving => plan'[proc'[p].plan] # "pending",
           proc'[p].pc \in Executing =>
              \/ plan[proc'[p].plan] = "pending"
              \/ /\ proc[p].pc \in Executing /\ proc'[p].plan = proc[p].plan
                 /\ proc'[p].pc \in Early => proc[p].pc \in Early,
           \A pl \in Plans :
              \/ /\ wf'[pl] = wf[pl] /\ ran'[pl] = ran[pl] /\ (plan'[pl] = "completed" => plan[pl] = "completed")
                 /\ ~(proc'[p].plan = pl /\ Completing(proc'[p]))
              \/ pl = proc[p].plan /\ Completing(proc[p])
              \/ pl = proc[p].plan /\ proc[p].pc \in Executing /\ proc'[p].pc \notin Early
              \/ wf[pl] # NoWorkflow
    PROVE  DriveInv'
<1>1. ClaimedInv'
  BY DEF DriveInv, ClaimedInv, Others
<1>2. OneExecutor'
  <2> SUFFICES ASSUME NEW v \in Procs, NEW q \in Procs, proc'[v].pc \in Executing, proc'[q].pc \in Executing,
                      proc'[v].plan = proc'[q].plan
               PROVE  v = q
    BY DEF OneExecutor
  <2>1. CASE v # p /\ q # p
    BY <2>1 DEF DriveInv, OneExecutor, Others
  <2>2. ASSUME NEW x \in Procs \ {p}, proc'[x].pc \in Executing, proc'[p].pc \in Executing, proc'[x].plan = proc'[p].plan
        PROVE  FALSE
    <3>1. proc[x].pc \in Executing /\ proc[x].plan = proc'[p].plan
      BY <2>2 DEF Others
    <3>2. plan[proc'[p].plan] # "pending"
      BY <3>1 DEF DriveInv, ClaimedInv, Driving
    <3> QED BY <2>2, <3>1, <3>2 DEF DriveInv, OneExecutor
  <2> QED BY <2>1, <2>2
<1>3. StartInv'
  <2> SUFFICES ASSUME NEW pl \in Plans,
                      plan'[pl] = "pending" \/ \E x \in Procs : proc'[x].plan = pl /\ proc'[x].pc \in Early
               PROVE  Unstarted(pl)'
    BY DEF StartInv
  <2>1. plan[pl] = "pending" \/ \E x \in Procs : proc[x].plan = pl /\ proc[x].pc \in Early
    BY DEF Others, Executing
  <2>2. Unstarted(pl)
    BY <2>1 DEF DriveInv, StartInv
  <2>3. ~(pl = proc[p].plan /\ Completing(proc[p]))
    BY <2>2 DEF Unstarted
  <2>4. ~(pl = proc[p].plan /\ proc[p].pc \in Executing /\ proc'[p].pc \notin Early)
    <3> SUFFICES ASSUME pl = proc[p].plan, proc[p].pc \in Executing, proc'[p].pc \notin Early PROVE FALSE
      OBVIOUS
    <3>1. plan[pl] # "pending"
      BY DEF DriveInv, ClaimedInv, Driving
    <3>2. PICK x \in Procs : proc'[x].plan = pl /\ proc'[x].pc \in Early
      BY <3>1
    <3>3. x # p /\ proc[x].plan = pl /\ proc[x].pc \in Executing
      BY <3>2 DEF Others, Executing
    <3> QED BY <3>3 DEF DriveInv, OneExecutor
  <2>5. /\ wf'[pl] = wf[pl] /\ ran'[pl] = ran[pl] /\ (plan'[pl] = "completed" => plan[pl] = "completed")
        /\ ~(proc'[p].plan = pl /\ Completing(proc'[p]))
    BY <2>2, <2>3, <2>4 DEF Unstarted
  <2>6. \A q \in Procs : proc'[q].plan = pl => ~Completing(proc'[q])
    BY <2>2, <2>5 DEF Unstarted, Others
  <2> QED BY <2>2, <2>5, <2>6 DEF Unstarted
<1> QED BY <1>1, <1>2, <1>3 DEF DriveInv

LEMMA InitDrive == Init => DriveInv
<1> SUFFICES ASSUME Init PROVE DriveInv
  OBVIOUS
<1>1. \A p \in Procs : proc[p].pc = "idle"
  BY IdleIs DEF Init
<1>2. \A p \in Procs : ~Completing(proc[p]) /\ proc[p].pc \notin Driving
  BY <1>1 DEF Completing, Resuming, Driving, Executing, Early
<1>3. \A pl \in Plans : Unstarted(pl)
  BY <1>2 DEF Init, Unstarted
<1> QED BY <1>2, <1>3 DEF DriveInv, ClaimedInv, OneExecutor, StartInv, Driving

\* Steps that leave the stores alone, and after which p neither executes nor completes.
LEMMA DriveRests ==
    ASSUME TypeInv, TypeInv', DriveInv, NEW p \in Procs, Others(p), UNCHANGED <<plan, wf, ran>>,
           proc'[p].pc \notin Driving, ~Completing(proc'[p])
    PROVE  DriveInv'
<1>1. proc'[p].plan \in Plans /\ \A q \in Procs : proc[q].plan \in Plans
  BY TargetTyped, ProcTyped DEF TypeInv
<1>2. proc'[p].pc \notin Executing
  BY DEF Driving
<1> QED BY <1>1, <1>2, DriveKept

LEMMA RequestDrive ==
    ASSUME TypeInv, TypeInv', DriveInv, NEW p \in Procs, Request(p)
    PROVE  DriveInv'
<1>0. proc'[p].plan \in Plans /\ \A q \in Procs : proc[q].plan \in Plans
  BY TargetTyped, ProcTyped DEF TypeInv
<1>1. PICK pl \in Plans : ClaimPlan(p, pl) \/ CheckCancel(p, pl) \/ GetPlan(p, pl)
  BY DEF Request
<1>2. ASSUME Others(p), UNCHANGED <<plan, proc, wf, ran>>
      PROVE  DriveInv'
  BY <1>2 DEF DriveInv, ClaimedInv, OneExecutor, StartInv, Unstarted
<1>3. CASE ClaimPlan(p, pl)
  <2>1. CASE UNCHANGED <<plan, proc>>
    BY <1>3, <2>1, <1>2, ClaimEffect
  <2>2. CASE /\ plan[pl] = "pending" /\ plan' = [plan EXCEPT ![pl] = "executing"]
             /\ proc'[p].pc = "count" /\ proc'[p].plan = pl
    <3>1. \A x \in Plans : plan'[x] = "pending" => plan[x] = "pending"
      BY <2>2 DEF TypeInv, PlanOK
    <3>2. \A x \in Plans : plan'[x] = "completed" => plan[x] = "completed"
      BY <2>2 DEF TypeInv, PlanOK
    <3>3. plan'[pl] # "pending"
      BY <2>2 DEF TypeInv, PlanOK
    <3>4. ~Completing(proc'[p])
      BY <2>2 DEF Completing, Resuming
    <3>5. Others(p) /\ UNCHANGED <<wf, ran>>
      BY <1>3, ClaimEffect
    <3> QED BY <1>0, <2>2, <3>1, <3>2, <3>3, <3>4, <3>5, DriveKept
  <2> QED BY <1>3, <2>1, <2>2, ClaimEffect
<1>4. CASE CheckCancel(p, pl)
  <2>1. CASE UNCHANGED proc
    BY <1>4, <2>1, <1>2, CancelEffect
  <2>2. CASE proc'[p].pc = "mark" /\ proc'[p].outcome = "cancelled"
    BY <1>4, <2>2, CancelEffect, DriveRests DEF Completing, Driving, Resuming, Executing, Early
  <2> QED BY <1>4, <2>1, <2>2, CancelEffect
<1>5. CASE GetPlan(p, pl)
  <2>1. CASE UNCHANGED proc
    BY <1>5, <2>1, <1>2, GetEffect
  <2>2. CASE plan[pl] = "executing" /\ proc'[p].pc = "list" /\ proc'[p].plan = pl
    <3>1. Others(p) /\ UNCHANGED <<plan, wf, ran>>
      BY <1>5, GetEffect
    <3>2. proc'[p].pc \notin Executing /\ ~Completing(proc'[p])
      BY <2>2 DEF Executing, Early, Completing, Resuming
    <3> QED BY <1>0, <2>2, <3>1, <3>2, DriveKept
  <2> QED BY <1>5, <2>1, <2>2, GetEffect
<1> QED BY <1>1, <1>3, <1>4, <1>5

\* A step of a handler under way touches only its own plan.
LEMMA DriveStep ==
    ASSUME TypeInv, TypeInv', DriveInv, NEW p \in Procs, Others(p), NEW t \in Plans, t = proc[p].plan,
           \A pl \in Plans \ {t} : wf'[pl] = wf[pl] /\ ran'[pl] = ran[pl] /\ plan'[pl] = plan[pl],
           plan'[t] = plan[t] \/ (plan'[t] # "pending" /\ proc'[p].pc \notin Driving),
           proc'[p].pc = "idle" \/ proc'[p].plan = t,
           proc'[p].pc \in Executing => proc[p].pc \in Executing,
           proc'[p].pc \in Early => proc[p].pc \in Early,
           proc'[p].pc \in Driving => proc[p].pc \in Driving,
           \/ /\ wf'[t] = wf[t] /\ ran'[t] = ran[t] /\ (plan'[t] = "completed" => plan[t] = "completed")
              /\ ~Completing(proc'[p])
           \/ Completing(proc[p])
           \/ proc[p].pc \in Executing /\ proc'[p].pc \notin Early
    PROVE  DriveInv'
<1>1. proc'[p].plan \in Plans /\ \A q \in Procs : proc[q].plan \in Plans
  BY TargetTyped, ProcTyped DEF TypeInv
<1>2. \A pl \in Plans : plan'[pl] = "pending" => plan[pl] = "pending"
  OBVIOUS
<1>3. proc'[p].pc \in Driving => proc'[p].plan = t /\ plan'[t] # "pending"
  <2>1. SUFFICES ASSUME proc'[p].pc \in Driving PROVE proc'[p].plan = t /\ plan'[t] # "pending"
    OBVIOUS
  <2>2. plan[t] # "pending" /\ plan'[t] = plan[t]
    BY <2>1 DEF DriveInv, ClaimedInv
  <2> QED BY <2>1, <2>2 DEF Driving, Executing, Early, Resuming
<1>4. proc'[p].pc \in Executing => proc'[p].plan = t
  BY <1>3 DEF Driving
<1>5. Completing(proc'[p]) => proc'[p].plan = t
  BY DEF Completing, Resuming
<1> QED BY <1>1, <1>2, <1>3, <1>4, <1>5, DriveKept

LEMMA FaultDrive ==
    ASSUME TypeInv, TypeInv', DriveInv, NEW p \in Procs, CallFails(p) \/ Disconnect(p)
    PROVE  DriveInv'
<1>0. PICK t \in Plans : t = proc[p].plan
  BY TargetTyped DEF TypeInv
<1>1. Others(p) /\ UNCHANGED <<plan, wf, ran>>
  BY FailEffect
<1>2. CASE proc'[p].pc = "idle"
  BY <1>0, <1>1, <1>2, DriveStep DEF Completing, Driving, Executing, Early, Resuming
<1>3. CASE proc'[p].pc # "idle"
  <2>1. \/ proc'[p].pc = "create" /\ proc'[p].plan = t /\ proc[p].pc = "count"
        \/ proc'[p].pc = "wftrack" /\ proc'[p].plan = t /\ proc[p].pc = "wfcount"
        \/ proc'[p].pc = "gate" /\ proc'[p].plan = t /\ proc[p].pc = "wftrack"
        \/ proc'[p].pc = "sync" /\ proc[p].pc = "mark" /\ Kept(proc[p], proc'[p])
        \/ /\ proc'[p].pc = "mark" /\ proc'[p].plan = t
           /\ proc'[p].outcome = "completed" => proc[p].pc = "finish"
    BY <1>0, <1>3, FailEffect
  <2> QED BY <1>0, <1>1, <2>1, DriveStep DEF Completing, Driving, Executing, Early, Resuming, Kept
<1> QED BY <1>2, <1>3

\* A resume that found the workflow of its plan: the plan has started.
LEMMA ListDrive ==
    ASSUME TypeInv, TypeInv', DriveInv, NEW p \in Procs, NEW ok \in BOOLEAN, ListWorkflows(p, ok)
    PROVE  DriveInv'
<1>0. PICK t \in Plans : t = proc[p].plan
  BY TargetTyped DEF TypeInv
<1>1. proc'[p].plan \in Plans /\ \A q \in Procs : proc[q].plan \in Plans
  BY TargetTyped, ProcTyped DEF TypeInv
<1>2. Others(p) /\ UNCHANGED <<plan, wf, ran>> /\ proc[p].pc = "list"
  BY ListEffect
<1>3. CASE proc'[p].pc = "idle"
  BY <1>2, <1>3, DriveRests DEF Completing, Driving, Executing, Early, Resuming
<1>4. CASE proc'[p].plan = t /\ Listed(proc'[p], wf[t])
  <2>1. wf[t] # NoWorkflow
    BY <1>4, NoWorkflowIs DEF Listed
  <2>2. proc'[p].pc \notin Executing
    BY <1>4 DEF Listed, Executing, Early
  <2>3. plan[t] # "pending"
    BY <1>0, <1>2 DEF DriveInv, ClaimedInv, Driving
  <2> QED BY <1>1, <1>2, <1>4, <2>1, <2>2, <2>3, DriveKept
<1> QED BY <1>0, <1>3, <1>4, ListEffect

LEMMA HandlerDrive ==
    ASSUME TypeInv, TypeInv', DriveInv, NEW p \in Procs, Handler(p) \/ TrackingFails(p)
    PROVE  DriveInv'
<1> USE DEF Completing, Driving, Executing, Early, Resuming, Kept
<1>0. PICK t \in Plans : t = proc[p].plan
  BY TargetTyped DEF TypeInv
<1>1. CASE CountActive(p)
  BY <1>0, <1>1, CountEffect, DriveStep
<1>2. CASE StartPlanExecution(p) \/ TrackingFails(p)
  BY <1>0, <1>2, CreateEffect, DriveStep
<1>3. CASE PlanFails(p) \/ EngineCompletes(p)
  BY <1>0, <1>3, RunEffect, DriveStep
<1>4. CASE InsertWorkflow(p)
  BY <1>0, <1>4, InsertEffect, DriveStep DEF OtherWfs
<1>5. CASE CountForWorkflow(p)
  BY <1>0, <1>5, CountForEffect, DriveStep DEF OtherWfs
<1>6. CASE TrackWorkflow(p)
  BY <1>0, <1>6, TrackEffect, DriveStep DEF OtherWfs
<1>7. CASE GateFirstStep(p)
  BY <1>0, <1>7, FirstGateEffect, DriveStep DEF OtherWfs
<1>8. CASE GateNextStep(p)
  BY <1>0, <1>8, NextGateEffect, DriveStep DEF OtherWfs
<1>9. CASE RejectPlan(p)
  BY <1>0, <1>9, RejectEffect, DriveStep DEF OtherWfs
<1>10. CASE CompleteWorkflow(p)
  BY <1>0, <1>10, CompleteEffect, DriveStep, ZenonT(60) DEF OtherWfs
<1>11. CASE ApprovePending(p)
  BY <1>0, <1>11, ApproveEffect, DriveStep DEF OtherWfs
<1>12. CASE ExecuteSingleStep(p)
  BY <1>0, <1>12, StepEffect, DriveStep
<1>13. CASE MarkPlan(p)
  <2>1. /\ \A pl \in Plans \ {t} : plan'[pl] = plan[pl]
        /\ plan'[t] = proc[p].outcome /\ plan'[t] # "pending"
    BY <1>0, <1>13, MarkEffect, TargetTyped DEF TypeInv, PlanOK, Outcomes
  <2> QED BY <1>0, <1>13, <2>1, MarkEffect, DriveStep
<1>14. CASE SyncPlanStatus(p)
  BY <1>0, <1>14, SyncEffect, DriveStep
<1>15. ASSUME NEW ok \in BOOLEAN, ListWorkflows(p, ok) PROVE DriveInv'
  BY <1>15, ListDrive
<1> QED BY <1>1, <1>2, <1>3, <1>4, <1>5, <1>6, <1>7, <1>8, <1>9, <1>10, <1>11, <1>12, <1>13, <1>14, <1>15
        DEF Handler, ExecutePlan, ResumePlan

LEMMA NextDrive == TypeInv /\ TypeInv' /\ DriveInv /\ [Next]_vars => DriveInv'
<1> SUFFICES ASSUME TypeInv, TypeInv', DriveInv, [Next]_vars PROVE DriveInv'
  OBVIOUS
<1>1. CASE UNCHANGED vars
  BY <1>1 DEF vars, DriveInv, ClaimedInv, OneExecutor, StartInv, Unstarted
<1>2. CASE Next
  BY <1>2, RequestDrive, HandlerDrive, FaultDrive DEF Next, Fault
<1> QED BY <1>1, <1>2

-----------------------------------------------------------------------------
(* The row of a plan in the tracker.  While it is active, a handler that    *)
(* will sync it is under way: for a plan the engine runs from the moment    *)
(* the row is inserted, for the others once the plan is completed.          *)

Syncing(q, pl)   == q.plan = pl /\ q.pc = "sync"
Releasing(q, pl) == q.plan = pl /\ (q.pc = "sync" \/ (q.pc \in {"run", "mark"} /\ q.tracked = TRUE))

SlotAt(pl) == exec[pl] = "pending" =>
    /\ pl \in AutoPlans => \E p \in Procs : Releasing(proc[p], pl)
    /\ pl \notin AutoPlans /\ plan[pl] = "completed" => \E p \in Procs : Syncing(proc[p], pl)
SlotInv == \A pl \in Plans \ faulty : SlotAt(pl)

LEMMA SlotKept ==
    ASSUME NEW pl \in Plans, SlotAt(pl), NEW p \in Procs, Others(p),
           exec'[pl] = "pending" => exec[pl] = "pending",
           pl \in AutoPlans /\ Releasing(proc[p], pl) /\ exec'[pl] = "pending" => Releasing(proc'[p], pl),
           pl \notin AutoPlans /\ plan'[pl] = "completed" => plan[pl] = "completed" \/ Syncing(proc'[p], pl),
           Syncing(proc[p], pl) /\ exec'[pl] = "pending" => Syncing(proc'[p], pl)
    PROVE  SlotAt(pl)'
<1> SUFFICES ASSUME exec'[pl] = "pending"
             PROVE  /\ pl \in AutoPlans => \E q \in Procs : Releasing(proc'[q], pl)
                    /\ pl \notin AutoPlans /\ plan'[pl] = "completed" => \E q \in Procs : Syncing(proc'[q], pl)
  BY DEF SlotAt
<1>1. ASSUME pl \in AutoPlans PROVE \E q \in Procs : Releasing(proc'[q], pl)
  <2>1. PICK q \in Procs : Releasing(proc[q], pl)
    BY <1>1 DEF SlotAt
  <2> QED BY <1>1, <2>1 DEF Others
<1>2. ASSUME pl \notin AutoPlans, plan'[pl] = "completed" PROVE \E q \in Procs : Syncing(proc'[q], pl)
  <2>1. CASE Syncing(proc'[p], pl)
    BY <2>1
  <2>2. CASE plan[pl] = "completed"
    <3>1. PICK q \in Procs : Syncing(proc[q], pl)
      BY <1>2, <2>2 DEF SlotAt
    <3> QED BY <3>1 DEF Others
  <2> QED BY <1>2, <2>1, <2>2
<1> QED BY <1>1, <1>2

\* Steps that leave the plans and their rows alone: the handler was not about to sync.
LEMMA SlotRests ==
    ASSUME NEW pl \in Plans, SlotAt(pl), NEW p \in Procs, Others(p), UNCHANGED <<plan, exec>>,
           ~Releasing(proc[p], pl) \/ (pl \notin AutoPlans /\ ~Syncing(proc[p], pl))
    PROVE  SlotAt(pl)'
BY SlotKept DEF Releasing, Syncing

LEMMA RequestSlot ==
    ASSUME TypeInv, NEW p \in Procs, Request(p), NEW pl \in Plans, SlotAt(pl)
    PROVE  SlotAt(pl)'
<1>1. PICK x \in Plans : ClaimPlan(p, x) \/ CheckCancel(p, x) \/ GetPlan(p, x)
  BY DEF Request
<1>2. Others(p) /\ proc[p].pc = "idle" /\ UNCHANGED exec
      /\ (plan' = plan \/ plan' = [plan EXCEPT ![x] = "executing"])
  <2>1. CASE ClaimPlan(p, x)
    BY <2>1, ClaimEffect
  <2>2. CASE CheckCancel(p, x)
    BY <2>2, CancelEffect
  <2>3. CASE GetPlan(p, x)
    BY <2>3, GetEffect
  <2> QED BY <1>1, <2>1, <2>2, <2>3
<1>3. plan'[pl] = "completed" => plan[pl] = "completed"
  BY <1>2 DEF TypeInv, PlanOK
<1>4. ~Releasing(proc[p], pl) /\ ~Syncing(proc[p], pl)
  BY <1>2 DEF Releasing, Syncing
<1> QED BY <1>2, <1>3, <1>4, SlotKept

LEMMA CreateSlot ==
    ASSUME TypeInv, TypeInv', DriveInv, NEW p \in Procs, StartPlanExecution(p) \/ TrackingFails(p),
           NEW pl \in Plans \ faulty', SlotAt(pl)
    PROVE  SlotAt(pl)'
<1>1. /\ Others(p) /\ proc[p].pc = "create" /\ proc'[p].pc = "run" /\ proc'[p].plan = proc[p].plan
      /\ UNCHANGED plan /\ exec' \in {exec, [exec EXCEPT ![proc[p].plan] = "pending"]}
  BY CreateEffect
<1>2. CASE pl = proc[p].plan
  <2>1. Releasing(proc'[p], pl)
    BY <1>1, <1>2, CreateEffect DEF Releasing
  <2>2. plan'[pl] # "completed"
    BY <1>1, <1>2 DEF DriveInv, StartInv, Unstarted, Early
  <2> QED BY <2>1, <2>2 DEF SlotAt
<1>3. CASE pl # proc[p].plan
  <2>1. exec'[pl] = exec[pl]
    BY <1>1, <1>3 DEF TypeInv, PlanOK
  <2>2. ~Releasing(proc[p], pl) /\ ~Syncing(proc[p], pl)
    BY <1>1 DEF Releasing, Syncing
  <2> QED BY <1>1, <2>1, <2>2, SlotKept
<1> QED BY <1>2, <1>3

LEMMA HandlerSlot ==
    ASSUME TypeInv, TypeInv', DriveInv, NEW p \in Procs, Handler(p), NEW pl \in Plans \ faulty', SlotAt(pl)
    PROVE  SlotAt(pl)'
<1>1. CASE CountActive(p)
  BY <1>1, CountEffect, SlotRests DEF Releasing, Syncing
<1>2. CASE StartPlanExecution(p)
  BY <1>2, CreateSlot
<1>3. CASE PlanFails(p) \/ EngineCompletes(p)
  BY <1>3, RunEffect, SlotKept DEF Releasing, Syncing
<1>4. CASE InsertWorkflow(p)
  BY <1>4, InsertEffect, SlotRests DEF Releasing, Syncing
<1>5. CASE CountForWorkflow(p)
  BY <1>5, CountForEffect, SlotRests DEF Releasing, Syncing
<1>6. CASE TrackWorkflow(p)
  BY <1>6, TrackEffect, SlotRests DEF Releasing, Syncing
<1>7. CASE GateFirstStep(p)
  BY <1>7, FirstGateEffect, SlotRests DEF Releasing, Syncing
<1>8. CASE GateNextStep(p)
  BY <1>8, NextGateEffect, SlotRests DEF Releasing, Syncing
<1>9. CASE RejectPlan(p)
  BY <1>9, RejectEffect, SlotRests DEF Releasing, Syncing
<1>10. CASE CompleteWorkflow(p)
  BY <1>10, CompleteEffect, SlotRests DEF Releasing, Syncing
<1>11. CASE ApprovePending(p)
  BY <1>11, ApproveEffect, SlotRests DEF Releasing, Syncing
<1>12. CASE ExecuteSingleStep(p)
  BY <1>12, StepEffect, SlotRests DEF Releasing, Syncing
<1>13. CASE MarkPlan(p)
  <2>0. /\ Others(p) /\ proc[p].pc = "mark" /\ UNCHANGED exec
        /\ proc[p].tracked => proc'[p].pc = "sync" /\ proc'[p].plan = proc[p].plan
    BY <1>13, MarkEffect DEF Kept
  <2>1. plan'[pl] = IF pl = proc[p].plan THEN proc[p].outcome ELSE plan[pl]
    BY <1>13, MarkEffect DEF TypeInv, PlanOK
  <2>2. proc[p].outcome = "completed" /\ proc[p].plan \notin AutoPlans => proc[p].tracked
    BY <2>0, TargetTyped, HandlingFields DEF TypeInv
  <2>3. Releasing(proc[p], pl) => Releasing(proc'[p], pl)
    BY <2>0 DEF Releasing
  <2>4. ~Syncing(proc[p], pl)
    BY <2>0 DEF Syncing
  <2>5. pl \notin AutoPlans /\ plan'[pl] = "completed" => plan[pl] = "completed" \/ Syncing(proc'[p], pl)
    BY <2>0, <2>1, <2>2 DEF Syncing
  <2> QED BY <2>0, <2>3, <2>4, <2>5, SlotKept
<1>14. CASE SyncPlanStatus(p)
  <2>1. proc[p].outcome # "pending"
    BY TargetTyped DEF TypeInv, Outcomes
  <2>2. exec'[pl] = IF pl # proc[p].plan THEN exec[pl] ELSE IF exec[pl] = "none" THEN "none" ELSE proc[p].outcome
    BY <1>14, SyncEffect DEF TypeInv, PlanOK
  <2> QED BY <1>14, <2>1, <2>2, SyncEffect, SlotKept DEF Releasing, Syncing
<1>15. ASSUME NEW ok \in BOOLEAN, ListWorkflows(p, ok) PROVE SlotAt(pl)'
  BY <1>15, ListEffect, SlotRests DEF Releasing, Syncing
<1> QED BY <1>1, <1>2, <1>3, <1>4, <1>5, <1>6, <1>7, <1>8, <1>9, <1>10, <1>11, <1>12, <1>13, <1>14, <1>15
        DEF Handler, ExecutePlan, ResumePlan

LEMMA FaultSlot ==
    ASSUME TypeInv, NEW p \in Procs, CallFails(p) \/ Disconnect(p), NEW pl \in Plans \ faulty', SlotAt(pl)
    PROVE  SlotAt(pl)'
<1>1. pl # proc[p].plan /\ Others(p) /\ UNCHANGED <<plan, exec>>
  BY FailEffect
<1> QED BY <1>1, SlotRests DEF Releasing

\* What one process does leaves its mark on the plans it fails: they stay faulty.
LEMMA FaultyGrows ==
    ASSUME TypeInv, NEW p \in Procs, Acts(p)
    PROVE  faulty \subseteq faulty'
<1>1. CASE Request(p)
  BY <1>1 DEF Request, ClaimPlan, CheckCancel, GetPlan, history
<1>2. CASE Fault(p)
  BY <1>2, CreateEffect, FailEffect DEF Fault
<1>3. CASE Handler(p)
  BY <1>3 DEF Handler, ExecutePlan, ResumePlan, history, CountActive, StartPlanExecution, PlanFails, EngineCompletes,
              InsertWorkflow, CountForWorkflow, TrackWorkflow, GateFirstStep, GateNextStep, ListWorkflows,
              RejectPlan, CompleteWorkflow, ApprovePending, ExecuteSingleStep, MarkPlan, SyncPlanStatus
<1> QED BY <1>1, <1>2, <1>3 DEF Acts

LEMMA NextSlot == TypeInv /\ TypeInv' /\ DriveInv /\ SlotInv /\ [Next]_vars => SlotInv'
<1> SUFFICES ASSUME TypeInv, TypeInv', DriveInv, SlotInv, [Next]_vars PROVE SlotInv'
  OBVIOUS
<1>1. CASE UNCHANGED vars
  BY <1>1 DEF vars, SlotInv, SlotAt
<1>2. CASE Next
  <2>1. PICK p \in Procs : Acts(p)
    BY <1>2 DEF Next, Acts
  <2>2. SUFFICES ASSUME NEW pl \in Plans \ faulty' PROVE SlotAt(pl)'
    BY DEF SlotInv
  <2>3. SlotAt(pl)
    BY <2>1, FaultyGrows DEF SlotInv
  <2> QED BY <2>1, <2>3, RequestSlot, HandlerSlot, CreateSlot, FaultSlot DEF Acts, Fault
<1> QED BY <1>1, <1>2

LEMMA DriveHolds == Spec => []DriveInv
BY InitDrive, NextDrive, TypeInvHolds, PTL DEF Spec

\* An ended plan whose requests have all answered holds no place under the tenant's limit:
\* a plan the engine ran whatever the order of execute and cancel, a plan of confirm or
\* step mode once it is completed (SyncPlanStatus after MarkPlanCompleted,
\* MarkPlanFailed and CancelPlan).
THEOREM SlotsReleased == Spec => []EndedPlansFreeTheirSlot
<1>1. Init => SlotInv
  BY DEF Init, SlotInv, SlotAt
<1>2. TypeInv /\ SlotInv => EndedPlansFreeTheirSlot
  BY DEF SlotInv, SlotAt, EndedPlansFreeTheirSlot, Quiet, At, Target, Releasing, Syncing
<1> QED BY <1>1, <1>2, NextSlot, DriveHolds, TypeInvHolds, PTL DEF Spec

-----------------------------------------------------------------------------
(* Step mode with one resume at a time.  Where the handler of a plan stands *)
(* tells how the cursor of the workflow, its pending step and the steps     *)
(* executed relate; while nobody works on the plan, its workflow waits for  *)
(* the approval of the step at its cursor.                                  *)

Working == {"step", "next", "finish"}
Drives(q, pl) == q.plan = pl /\ q.pc \in Driving

\* Handler q, its workflow w, the number n of steps executed, the approved steps a.
Stage(q, w, n, a) ==
    /\ q.pc \in {"wfcount", "wftrack"} => w.status = "in_progress" /\ n = 0 /\ w.cursor = 0 /\ w.pending = {}
    /\ q.pc \in Resuming => w.status = "in_progress"
    /\ q.pc = "approve" => q.idx = w.cursor /\ q.pend = w.cursor /\ w.cursor # 0
    /\ q.pc = "step" => /\ q.idx = n /\ w.cursor = n /\ w.pending = {} /\ n < NumSteps
                        /\ n > 0 => n \in a
    /\ q.pc = "next" => n = q.idx + 1 /\ w.cursor = q.idx /\ w.pending = {} /\ n < NumSteps
    /\ q.pc = "finish" => n = NumSteps /\ w.pending = {}
    /\ q.pc \in {"mark", "sync"} /\ q.outcome = "completed" => n = NumSteps

Waits(w, n) == w.cursor = n /\ n < NumSteps /\ w.pending = IF n = 0 THEN {} ELSE {n}

InOrder(s, a) == \A i \in 1 .. Len(s) : s[i] = i - 1 /\ (i > 1 => (i - 1) \in a)

OneDriver(pl) == \A p, q \in Procs : Drives(proc[p], pl) /\ Drives(proc[q], pl) => p = q
Stages(pl)    == \A p \in Procs : proc[p].plan = pl => Stage(proc[p], wf[pl], Len(ran[pl]), approved[pl])
Between(pl)   ==
    wf[pl].status = "in_progress" /\ (\A p \in Procs : ~(proc[p].plan = pl /\ proc[p].pc \in Working))
       => Waits(wf[pl], Len(ran[pl]))
AllRan(pl)    == plan[pl] = "completed" => Len(ran[pl]) = NumSteps

StepAt(pl) == OneDriver(pl) /\ Stages(pl) /\ Between(pl) /\ AllRan(pl) /\ InOrder(ran[pl], approved[pl])
StepInv    == \A pl \in StepPlans \ (faulty \cup overlapped) : StepAt(pl)

\* A process that was not driving pl, and leaves its rows alone.
LEMMA StandsBy ==
    ASSUME NEW pl \in Plans, StepAt(pl), NEW p \in Procs, Others(p),
           wf'[pl] = wf[pl], ran'[pl] = ran[pl], approved'[pl] = approved[pl],
           plan'[pl] = "completed" => Len(ran[pl]) = NumSteps,
           ~Drives(proc[p], pl),
           Drives(proc'[p], pl) => \A q \in Procs : ~Drives(proc[q], pl),
           proc'[p].plan = pl => Stage(proc'[p], wf[pl], Len(ran[pl]), approved[pl])
    PROVE  StepAt(pl)'
<1>1. OneDriver(pl)'
  BY DEF StepAt, OneDriver, Others
<1>2. Stages(pl)'
  BY DEF StepAt, Stages, Others
<1>3. Between(pl)'
  <2>1. SUFFICES ASSUME wf'[pl].status = "in_progress",
                        \A q \in Procs : ~(proc'[q].plan = pl /\ proc'[q].pc \in Working)
                 PROVE  Waits(wf'[pl], Len(ran'[pl]))
    BY DEF Between
  <2>2. \A q \in Procs : ~(proc[q].plan = pl /\ proc[q].pc \in Working)
    BY <2>1 DEF Others, Drives, Driving, Resuming, Working
  <2> QED BY <2>1, <2>2 DEF StepAt, Between
<1>4. AllRan(pl)' /\ InOrder(ran'[pl], approved'[pl])
  BY DEF StepAt, AllRan
<1> QED BY <1>1, <1>2, <1>3, <1>4 DEF StepAt

\* A step of the process that drives pl: the others on pl are about to answer.
LEMMA DriverMoves ==
    ASSUME NEW pl \in Plans, StepAt(pl), NEW p \in Procs, Others(p), Drives(proc[p], pl),
           ran'[pl] = ran[pl] \/ Len(ran[pl]) # NumSteps, plan'[pl] = plan[pl],
           InOrder(ran'[pl], approved'[pl]),
           proc'[p].plan = pl => Stage(proc'[p], wf'[pl], Len(ran'[pl]), approved'[pl]),
           wf'[pl].status = "in_progress" /\ ~(proc'[p].plan = pl /\ proc'[p].pc \in Working)
              => Waits(wf'[pl], Len(ran'[pl]))
    PROVE  StepAt(pl)'
<1>1. \A q \in Procs \ {p} : ~Drives(proc[q], pl) /\ proc'[q] = proc[q]
  BY DEF StepAt, OneDriver, Others
<1>2. OneDriver(pl)'
  BY <1>1 DEF OneDriver
<1>3. Stages(pl)'
  <2>1. SUFFICES ASSUME NEW q \in Procs \ {p}, proc[q].plan = pl
                 PROVE  Stage(proc[q], wf'[pl], Len(ran'[pl]), approved'[pl])
    BY <1>1 DEF Stages
  <2>2. Stage(proc[q], wf[pl], Len(ran[pl]), approved[pl])
    BY <2>1 DEF StepAt, Stages
  <2>3. proc[q].pc \notin Driving
    BY <1>1, <2>1 DEF Drives
  <2> QED BY <2>2, <2>3 DEF Stage, Driving, Executing, Early, Resuming
<1>4. Between(pl)'
  BY DEF Between
<1>5. AllRan(pl)'
  BY DEF StepAt, AllRan
<1> QED BY <1>2, <1>3, <1>4, <1>5 DEF StepAt

\* A handler under way on another plan.
LEMMA ElsewhereStands ==
    ASSUME NEW pl \in Plans, StepAt(pl), NEW p \in Procs, Others(p), proc[p].plan # pl,
           wf'[pl] = wf[pl], ran'[pl] = ran[pl], approved'[pl] = approved[pl], plan'[pl] = plan[pl],
           proc'[p].pc = "idle" \/ proc'[p].plan = proc[p].plan
    PROVE  StepAt(pl)'
<1>1. ~Drives(proc[p], pl) /\ ~Drives(proc'[p], pl)
  BY DEF Drives, Driving, Executing, Early, Resuming
<1>2. proc'[p].plan = pl => Stage(proc'[p], wf[pl], Len(ran[pl]), approved[pl])
  BY DEF Stage, Resuming
<1>3. plan'[pl] = "completed" => Len(ran[pl]) = NumSteps
  BY DEF StepAt, AllRan
<1> QED BY <1>1, <1>2, <1>3, StandsBy

LEMMA RequestStep ==
    ASSUME TypeInv, TypeInv', DriveInv, NEW p \in Procs, Request(p),
           NEW pl \in StepPlans \ overlapped', StepAt(pl)
    PROVE  StepAt(pl)'
<1>0. pl \in Plans /\ ~Drives(proc[p], pl)
  <2>1. proc[p].pc = "idle"
    BY DEF Request, ClaimPlan, CheckCancel, GetPlan, Arrives, At
  <2> QED BY <2>1 DEF Plans, Drives, Driving, Executing, Early, Resuming
<1>1. PICK x \in Plans : ClaimPlan(p, x) \/ CheckCancel(p, x) \/ GetPlan(p, x)
  BY DEF Request
<1>2. ASSUME UNCHANGED <<plan, wf, ran, approved, proc>> PROVE StepAt(pl)'
  BY <1>2 DEF StepAt, OneDriver, Stages, Between, AllRan
<1>3. CASE ClaimPlan(p, x)
  <2>1. CASE UNCHANGED <<plan, proc>>
    BY <1>3, <2>1, <1>2, ClaimEffect
  <2>2. CASE /\ plan[x] = "pending" /\ plan' = [plan EXCEPT ![x] = "executing"]
             /\ proc'[p].pc = "count" /\ proc'[p].plan = x
    <3>1. Others(p) /\ UNCHANGED <<wf, ran, approved>>
      BY <1>3, ClaimEffect
    <3>2. plan'[pl] = "completed" => Len(ran[pl]) = NumSteps
      BY <1>0, <2>2 DEF StepAt, AllRan, TypeInv, PlanOK
    <3>3. Drives(proc'[p], pl) => \A q \in Procs : ~Drives(proc[q], pl)
      BY <2>2 DEF Drives, DriveInv, ClaimedInv
    <3>4. Stage(proc'[p], wf[pl], Len(ran[pl]), approved[pl])
      BY <2>2 DEF Stage, Resuming
    <3> QED BY <1>0, <3>1, <3>2, <3>3, <3>4, StandsBy
  <2> QED BY <1>3, <2>1, <2>2, ClaimEffect
<1>4. CASE CheckCancel(p, x)
  <2>1. CASE UNCHANGED proc
    BY <1>4, <2>1, <1>2, CancelEffect
  <2>2. CASE proc'[p].pc = "mark" /\ proc'[p].outcome = "cancelled"
    <3>1. Others(p) /\ UNCHANGED <<plan, wf, ran, approved>>
      BY <1>4, CancelEffect
    <3>2. ~Drives(proc'[p], pl)
      BY <2>2 DEF Drives, Driving, Executing, Early, Resuming
    <3>3. Stage(proc'[p], wf[pl], Len(ran[pl]), approved[pl])
      BY <2>2 DEF Stage, Resuming
    <3>4. plan'[pl] = "completed" => Len(ran[pl]) = NumSteps
      BY <3>1 DEF StepAt, AllRan
    <3> QED BY <1>0, <3>1, <3>2, <3>3, <3>4, StandsBy
  <2> QED BY <1>4, <2>1, <2>2, CancelEffect
<1>5. CASE GetPlan(p, x)
  <2>1. CASE UNCHANGED proc
    BY <1>5, <2>1, <1>2, GetEffect
  <2>2. CASE proc'[p].pc = "list" /\ proc'[p].plan = x
    <3>1. Others(p) /\ UNCHANGED <<plan, wf, ran, approved>>
      BY <1>5, GetEffect
    <3>2. plan'[pl] = "completed" => Len(ran[pl]) = NumSteps
      BY <3>1 DEF StepAt, AllRan
    <3>3. Stage(proc'[p], wf[pl], Len(ran[pl]), approved[pl])
      BY <2>2 DEF Stage, Resuming
    <3>4. x = pl => \A q \in Procs : proc[q].pc = "idle" \/ proc[q].plan # pl
      BY <1>5, GetEffect
    <3>5. Drives(proc'[p], pl) => \A q \in Procs : ~Drives(proc[q], pl)
      BY <2>2, <3>4 DEF Drives, Driving, Executing, Early, Resuming
    <3> QED BY <1>0, <3>1, <3>2, <3>3, <3>5, StandsBy
  <2> QED BY <1>5, <2>1, <2>2, GetEffect
<1> QED BY <1>1, <1>3, <1>4, <1>5

\* What a driver of pl knows; nobody else works on pl.
LEMMA DriverKnows ==
    ASSUME TypeInv, NEW pl \in StepPlans, StepAt(pl), NEW p \in Procs, Drives(proc[p], pl)
    PROVE  /\ pl \in Plans /\ Stage(proc[p], wf[pl], Len(ran[pl]), approved[pl])
           /\ wf[pl].status = "in_progress" /\ proc[p].pc \notin Working => Waits(wf[pl], Len(ran[pl]))
           /\ Len(ran[pl]) \in Nat /\ wf[pl].cursor \in Nat /\ proc[p].idx \in Nat
           /\ InOrder(ran[pl], approved[pl])
<1>1. pl \in Plans
  BY DEF Plans
<1>2. Stage(proc[p], wf[pl], Len(ran[pl]), approved[pl])
  BY DEF StepAt, Stages, Drives
<1>3. ASSUME proc[p].pc \notin Working PROVE \A q \in Procs : ~(proc[q].plan = pl /\ proc[q].pc \in Working)
  BY <1>3 DEF StepAt, OneDriver, Drives, Driving, Resuming, Working
<1>4. Len(ran[pl]) \in Nat /\ wf[pl].cursor \in Nat /\ proc[p].idx \in Nat
  BY <1>1, LenProperties, TargetTyped DEF TypeInv, RanOK, WfOK, Workflow, WfFields
<1> QED BY <1>1, <1>2, <1>3, <1>4 DEF StepAt, Between

\* The executor of pl before its workflow exists.
LEMMA EarlyStep ==
    ASSUME TypeInv, TypeInv', NEW p \in Procs, NEW pl \in StepPlans, StepAt(pl), proc[p].plan = pl,
           CountActive(p) \/ StartPlanExecution(p) \/ TrackingFails(p) \/ PlanFails(p) \/ EngineCompletes(p)
    PROVE  StepAt(pl)'
<1>1. /\ proc[p].pc \in Early /\ Others(p) /\ UNCHANGED <<plan, wf, ran, approved>>
      /\ proc'[p].pc \in {"idle", "create", "run", "mark"}
      /\ proc'[p].pc = "mark" => proc'[p].outcome # "completed"
  <2>1. CASE CountActive(p)
    BY <2>1, CountEffect DEF Early
  <2>2. CASE StartPlanExecution(p) \/ TrackingFails(p)
    BY <2>2, CreateEffect DEF Early
  <2>3. CASE PlanFails(p) \/ EngineCompletes(p)
    BY <2>3, RunEffect, ModesAssumption DEF Early
  <2> QED BY <2>1, <2>2, <2>3
<1>2. Drives(proc[p], pl) /\ proc[p].pc \notin Working
  BY <1>1 DEF Drives, Driving, Executing, Early, Working
<1>3. Stage(proc'[p], wf'[pl], Len(ran'[pl]), approved'[pl])
  BY <1>1 DEF Stage, Resuming
<1> QED BY <1>1, <1>2, <1>3, DriverKnows, DriverMoves

LEMMA CreatingStep ==
    ASSUME TypeInv, TypeInv', DriveInv, NEW p \in Procs, NEW pl \in StepPlans, StepAt(pl), proc[p].plan = pl,
           InsertWorkflow(p) \/ CountForWorkflow(p) \/ TrackWorkflow(p)
    PROVE  StepAt(pl)'
<1>0. pl \in Plans /\ pl \notin ConfirmPlans
  BY ModesAssumption DEF Plans
<1>1. CASE InsertWorkflow(p)
  <2>1. Others(p) /\ UNCHANGED <<plan, ran, approved>> /\ proc[p].pc = "run" /\ proc'[p].pc = "wfcount"
    BY <1>1, InsertEffect
  <2>2. Drives(proc[p], pl)
    BY <2>1 DEF Drives, Driving, Executing, Early
  <2>3. wf[pl] = NoWorkflow /\ ran[pl] = <<>>
    BY <1>0, <2>1 DEF DriveInv, StartInv, Unstarted, Early
  <2>4. wf'[pl].status = "in_progress" /\ wf'[pl].cursor = 0 /\ wf'[pl].pending = {}
    BY <1>1, <2>3, InsertEffect, NoWorkflowIs
  <2>5. Len(ran'[pl]) = 0
    BY <2>1, <2>3
  <2>6. Stage(proc'[p], wf'[pl], Len(ran'[pl]), approved'[pl])
    BY <2>1, <2>4, <2>5 DEF Stage, Resuming
  <2>7. Waits(wf'[pl], Len(ran'[pl]))
    BY <2>4, <2>5, StepsAssumption DEF Waits
  <2> QED BY <1>0, <2>1, <2>2, <2>6, <2>7, DriverKnows, DriverMoves
<1>2. CASE CountForWorkflow(p)
  <2>1. Others(p) /\ UNCHANGED <<plan, ran, approved>> /\ proc[p].pc = "wfcount"
    BY <1>2, CountForEffect
  <2>2. Drives(proc[p], pl) /\ proc[p].pc \notin Working
    BY <2>1 DEF Drives, Driving, Executing, Early, Working
  <2>3. CASE wf'[pl] = NoWorkflow /\ proc'[p].pc = "mark" /\ proc'[p].outcome = "failed"
    <3>1. Stage(proc'[p], wf'[pl], Len(ran'[pl]), approved'[pl]) /\ wf'[pl].status # "in_progress"
      BY <2>3, NoWorkflowIs DEF Stage, Resuming
    <3> QED BY <1>0, <2>1, <2>2, <3>1, DriverKnows, DriverMoves
  <2>4. CASE UNCHANGED wf /\ proc'[p].pc = "wftrack"
    <3>1. Stage(proc'[p], wf'[pl], Len(ran'[pl]), approved'[pl])
      BY <2>1, <2>2, <2>4, DriverKnows DEF Stage, Resuming
    <3> QED BY <1>0, <2>1, <2>2, <2>4, <3>1, DriverKnows, DriverMoves
  <2> QED BY <1>2, <2>3, <2>4, CountForEffect
<1>3. CASE TrackWorkflow(p)
  <2>1. Others(p) /\ UNCHANGED <<plan, ran, approved>> /\ proc[p].pc = "wftrack" /\ proc'[p].pc = "idle"
    BY <1>0, <1>3, TrackEffect
  <2>2. Drives(proc[p], pl) /\ proc[p].pc \notin Working
    BY <2>1 DEF Drives, Driving, Executing, Early, Working
  <2>3. /\ wf'[pl].status = wf[pl].status /\ wf'[pl].cursor = wf[pl].cursor
        /\ wf'[pl].pending = wf[pl].pending
    BY <1>3, TrackEffect
  <2>4. Stage(proc'[p], wf'[pl], Len(ran'[pl]), approved'[pl])
    BY <2>1 DEF Stage, Resuming
  <2>5. wf'[pl].status = "in_progress" => Waits(wf'[pl], Len(ran'[pl]))
    BY <2>1, <2>2, <2>3, DriverKnows DEF Waits
  <2> QED BY <1>0, <2>1, <2>2, <2>4, <2>5, DriverKnows, DriverMoves
<1> QED BY <1>1, <1>2, <1>3

\* Executing the step at the cursor extends the steps executed in order.
LEMMA InOrderExtends ==
    ASSUME NEW s \in Seq(Steps), NEW a, InOrder(s, a), Len(s) > 0 => Len(s) \in a, Len(s) < NumSteps
    PROVE  InOrder(Append(s, Len(s)), a) /\ Len(Append(s, Len(s))) = Len(s) + 1
<1>1. Len(s) \in Nat
  BY LenProperties
<1>2. Len(s) \in Steps
  BY <1>1, StepsAssumption DEF Steps
<1>3. /\ Len(Append(s, Len(s))) = Len(s) + 1
      /\ \A i \in 1 .. Len(s) : Append(s, Len(s))[i] = s[i]
      /\ Append(s, Len(s))[Len(s) + 1] = Len(s)
  BY <1>1, <1>2, AppendProperties
<1>4. SUFFICES ASSUME NEW i \in 1 .. Len(s) + 1
               PROVE  Append(s, Len(s))[i] = i - 1 /\ (i > 1 => (i - 1) \in a)
  BY <1>3 DEF InOrder
<1>5. CASE i \in 1 .. Len(s)
  BY <1>3, <1>5 DEF InOrder
<1>6. CASE i = Len(s) + 1
  BY <1>1, <1>3, <1>6
<1> QED BY <1>1, <1>5, <1>6

LEMMA InOrderGrows ==
    ASSUME NEW s, NEW a, NEW b, InOrder(s, a), a \subseteq b
    PROVE  InOrder(s, b)
BY DEF InOrder

\* A resume finds the workflow waiting at its cursor.
LEMMA ListStepMode ==
    ASSUME TypeInv, TypeInv', NEW p \in Procs, NEW pl \in StepPlans, StepAt(pl), proc[p].plan = pl,
           NEW ok \in BOOLEAN, ListWorkflows(p, ok)
    PROVE  StepAt(pl)'
<1>1. Others(p) /\ UNCHANGED <<plan, wf, ran, approved>> /\ proc[p].pc = "list"
  BY ListEffect
<1>2. Drives(proc[p], pl) /\ proc[p].pc \notin Working
  BY <1>1 DEF Drives, Driving, Working
<1>3. /\ pl \in Plans /\ Len(ran[pl]) \in Nat
      /\ wf[pl].status = "in_progress" => Waits(wf[pl], Len(ran[pl]))
  BY <1>2, DriverKnows
<1>4. Stage(proc'[p], wf[pl], Len(ran[pl]), approved[pl])
  <2>1. CASE proc'[p].pc = "idle"
    BY <2>1 DEF Stage, Resuming
  <2>2. CASE Listed(proc'[p], wf[pl])
    <3>1. /\ wf[pl].status = "in_progress" /\ proc'[p].idx = wf[pl].cursor
          /\ \/ proc'[p].pc = "abort"
             \/ proc'[p].pc = "step" /\ wf[pl].pending = {}
             \/ proc'[p].pc = "approve" /\ proc'[p].pend \in wf[pl].pending
      BY <2>2 DEF Listed
    <3>2. Waits(wf[pl], Len(ran[pl])) /\ Len(ran[pl]) \in Nat
      BY <1>3, <3>1
    <3> QED BY <3>1, <3>2 DEF Stage, Waits, Resuming
  <2> QED BY <2>1, <2>2, ListEffect
<1> QED BY <1>1, <1>2, <1>3, <1>4, DriverKnows, DriverMoves

LEMMA ApproveStepMode ==
    ASSUME TypeInv, TypeInv', NEW p \in Procs, NEW pl \in StepPlans, StepAt(pl), proc[p].plan = pl,
           ApprovePending(p)
    PROVE  StepAt(pl)'
<1>1. /\ Others(p) /\ UNCHANGED <<plan, ran>> /\ proc[p].pc = "approve"
      /\ wf'[pl].status = wf[pl].status /\ wf'[pl].cursor = wf[pl].cursor
  BY ApproveEffect
<1>2. Drives(proc[p], pl) /\ proc[p].pc \notin Working
  BY <1>1 DEF Drives, Driving, Resuming, Working
<1>3. pl \in Plans /\ Len(ran[pl]) \in Nat
  BY <1>2, DriverKnows
<1>4. /\ wf[pl].status = "in_progress" /\ wf[pl].cursor # 0
      /\ proc[p].idx = wf[pl].cursor /\ proc[p].pend = wf[pl].cursor
  BY <1>1, <1>2, DriverKnows DEF Stage, Resuming
<1>5. Waits(wf[pl], Len(ran[pl]))
  BY <1>2, <1>4, DriverKnows
<1>6. approved[pl] \subseteq approved'[pl]
  BY <1>3, ApproveEffect
<1>7. InOrder(ran'[pl], approved'[pl])
  BY <1>1, <1>2, <1>6, DriverKnows, InOrderGrows
<1>8. /\ wf'[pl].pending = wf[pl].pending \ {proc[p].pend} /\ proc[p].pend \in approved'[pl]
      /\ proc'[p].pc = "step" /\ proc'[p].plan = pl /\ proc'[p].idx = proc[p].idx
  BY <1>4, <1>5, ApproveEffect DEF Waits
<1>9. Stage(proc'[p], wf'[pl], Len(ran'[pl]), approved'[pl])
  BY <1>1, <1>3, <1>4, <1>5, <1>8 DEF Stage, Resuming, Waits
<1> QED BY <1>1, <1>2, <1>3, <1>7, <1>8, <1>9, DriverMoves DEF Working

LEMMA ExecuteStepMode ==
    ASSUME TypeInv, TypeInv', NEW p \in Procs, NEW pl \in StepPlans, StepAt(pl), proc[p].plan = pl,
           ExecuteSingleStep(p)
    PROVE  StepAt(pl)'
<1>1. /\ Others(p) /\ UNCHANGED <<plan, wf, approved>> /\ proc[p].pc = "step" /\ Kept(proc[p], proc'[p])
  BY StepEffect
<1>2. Drives(proc[p], pl)
  BY <1>1 DEF Drives, Driving, Resuming
<1>3. pl \in Plans /\ Len(ran[pl]) \in Nat /\ InOrder(ran[pl], approved[pl]) /\ ran[pl] \in Seq(Steps)
  BY <1>2, DriverKnows DEF TypeInv, RanOK
<1>4. /\ proc[p].idx = Len(ran[pl]) /\ wf[pl].cursor = Len(ran[pl]) /\ wf[pl].pending = {}
      /\ Len(ran[pl]) < NumSteps /\ (Len(ran[pl]) > 0 => Len(ran[pl]) \in approved[pl])
      /\ wf[pl].status = "in_progress"
  BY <1>1, <1>2, DriverKnows DEF Stage, Resuming
<1>5. /\ ran'[pl] = Append(ran[pl], Len(ran[pl]))
      /\ proc'[p].pc = IF proc[p].idx + 1 >= NumSteps THEN "finish" ELSE "next"
  <2>1. ~(proc[p].idx >= NumSteps)
    BY <1>3, <1>4, StepsAssumption
  <2> QED BY <1>4, <2>1, StepEffect
<1>6. InOrder(ran'[pl], approved'[pl]) /\ Len(ran'[pl]) = Len(ran[pl]) + 1
  BY <1>1, <1>3, <1>4, <1>5, InOrderExtends
<1>7. Stage(proc'[p], wf'[pl], Len(ran'[pl]), approved'[pl])
  <2>1. CASE Len(ran[pl]) + 1 >= NumSteps
    <3>1. Len(ran'[pl]) = NumSteps /\ proc'[p].pc = "finish"
      BY <1>3, <1>4, <1>5, <1>6, <2>1, StepsAssumption
    <3> QED BY <1>1, <1>4, <3>1 DEF Stage, Resuming
  <2>2. CASE ~(Len(ran[pl]) + 1 >= NumSteps)
    <3>1. Len(ran'[pl]) < NumSteps /\ proc'[p].pc = "next" /\ proc'[p].idx = Len(ran[pl])
      BY <1>1, <1>3, <1>4, <1>5, <1>6, <2>2, StepsAssumption DEF Kept
    <3> QED BY <1>1, <1>4, <1>6, <3>1 DEF Stage, Resuming
  <2> QED BY <2>1, <2>2
<1>8. proc'[p].pc \in Working /\ proc'[p].plan = pl /\ Len(ran[pl]) # NumSteps
  BY <1>1, <1>3, <1>4, <1>5, StepsAssumption DEF Working, Kept
<1> QED BY <1>1, <1>2, <1>3, <1>6, <1>7, <1>8, DriverMoves

LEMMA NextStepMode ==
    ASSUME TypeInv, TypeInv', NEW p \in Procs, NEW pl \in StepPlans, StepAt(pl), proc[p].plan = pl,
           GateNextStep(p)
    PROVE  StepAt(pl)'
<1>1. Others(p) /\ UNCHANGED <<plan, ran, approved>> /\ proc[p].pc = "next" /\ proc'[p].pc = "idle"
  BY NextGateEffect
<1>2. Drives(proc[p], pl)
  BY <1>1 DEF Drives, Driving, Resuming
<1>3. pl \in Plans /\ Len(ran[pl]) \in Nat /\ proc[p].idx \in Nat
  BY <1>2, DriverKnows
<1>4. /\ wf[pl].status = "in_progress" /\ Len(ran[pl]) = proc[p].idx + 1 /\ wf[pl].cursor = proc[p].idx
      /\ wf[pl].pending = {} /\ Len(ran[pl]) < NumSteps
  BY <1>1, <1>2, DriverKnows DEF Stage, Resuming
<1>5. ~GateRefused(pl, proc[p].idx + 1)
  BY <1>4 DEF GateRefused
<1>6. wf'[pl].cursor = proc[p].idx + 1 /\ wf'[pl].pending = {proc[p].idx + 1}
  BY <1>4, <1>5, NextGateEffect DEF GateDone
<1>7. Waits(wf'[pl], Len(ran'[pl]))
  BY <1>1, <1>3, <1>4, <1>6 DEF Waits
<1>8. Stage(proc'[p], wf'[pl], Len(ran'[pl]), approved'[pl])
  BY <1>1 DEF Stage, Resuming
<1> QED BY <1>1, <1>2, <1>3, <1>7, <1>8, DriverKnows, DriverMoves

LEMMA EndStepMode ==
    ASSUME TypeInv, TypeInv', NEW p \in Procs, NEW pl \in StepPlans, StepAt(pl), proc[p].plan = pl,
           RejectPlan(p) \/ CompleteWorkflow(p)
    PROVE  StepAt(pl)'
<1>1. /\ Others(p) /\ UNCHANGED <<plan, ran, approved>> /\ proc[p].pc \in {"abort", "finish"}
      /\ proc'[p].pc = "mark" /\ (proc'[p].outcome = "completed" => proc[p].pc = "finish")
  <2>1. CASE RejectPlan(p)
    BY <2>1, RejectEffect
  <2>2. CASE CompleteWorkflow(p)
    BY <2>2, CompleteEffect
  <2> QED BY <2>1, <2>2
<1>2. Drives(proc[p], pl)
  BY <1>1 DEF Drives, Driving, Resuming
<1>3. proc[p].pc = "finish" => Len(ran[pl]) = NumSteps /\ wf[pl].pending = {}
  BY <1>2, DriverKnows DEF Stage
<1>4. wf'[pl].status # "in_progress"
  <2>1. CASE RejectPlan(p)
    BY <2>1, RejectEffect
  <2>2. CASE CompleteWorkflow(p)
    BY <1>3, <2>2, CompleteEffect
  <2> QED BY <2>1, <2>2
<1>5. Stage(proc'[p], wf'[pl], Len(ran'[pl]), approved'[pl])
  BY <1>1, <1>3 DEF Stage, Resuming
<1> QED BY <1>1, <1>2, <1>4, <1>5, DriverKnows, DriverMoves

LEMMA MarkStepMode ==
    ASSUME TypeInv, TypeInv', NEW p \in Procs, NEW pl \in StepPlans, StepAt(pl), proc[p].plan = pl,
           MarkPlan(p) \/ SyncPlanStatus(p)
    PROVE  StepAt(pl)'
<1>0. pl \in Plans
  BY DEF Plans
<1>1. /\ Others(p) /\ UNCHANGED <<wf, ran, approved>> /\ proc[p].pc \in {"mark", "sync"}
      /\ proc'[p].pc = "idle" \/ (proc'[p].pc = "sync" /\ proc'[p].outcome = proc[p].outcome)
      /\ plan'[pl] = plan[pl] \/ plan'[pl] = proc[p].outcome
  <2>1. CASE MarkPlan(p)
    BY <1>0, <2>1, MarkEffect DEF Kept, TypeInv, PlanOK
  <2>2. CASE SyncPlanStatus(p)
    BY <2>2, SyncEffect
  <2> QED BY <2>1, <2>2
<1>2. ~Drives(proc[p], pl) /\ ~Drives(proc'[p], pl)
  BY <1>1 DEF Drives, Driving, Executing, Early, Resuming
<1>3. proc[p].outcome = "completed" => Len(ran[pl]) = NumSteps
  BY <1>1 DEF StepAt, Stages, Stage
<1>4. Stage(proc'[p], wf[pl], Len(ran[pl]), approved[pl])
  BY <1>1, <1>3 DEF Stage, Resuming
<1>5. plan'[pl] = "completed" => Len(ran[pl]) = NumSteps
  BY <1>1, <1>3 DEF StepAt, AllRan
<1> QED BY <1>0, <1>1, <1>2, <1>4, <1>5, StandsBy

\* A handler changes the rows of its own plan only.
LEMMA HandlerElsewhere ==
    ASSUME TypeInv, TypeInv', NEW p \in Procs, Handler(p) \/ TrackingFails(p) \/ CallFails(p) \/ Disconnect(p),
           NEW pl \in Plans, proc[p].plan # pl
    PROVE  /\ Others(p) /\ (proc'[p].pc = "idle" \/ proc'[p].plan = proc[p].plan)
           /\ wf'[pl] = wf[pl] /\ ran'[pl] = ran[pl] /\ approved'[pl] = approved[pl] /\ plan'[pl] = plan[pl]
<1>1. CASE CountActive(p)
  BY <1>1, CountEffect DEF Kept
<1>2. CASE StartPlanExecution(p) \/ TrackingFails(p)
  BY <1>2, CreateEffect
<1>3. CASE PlanFails(p) \/ EngineCompletes(p)
  BY <1>3, RunEffect
<1>4. CASE InsertWorkflow(p)
  BY <1>4, InsertEffect DEF Kept, OtherWfs
<1>5. CASE CountForWorkflow(p)
  BY <1>5, CountForEffect DEF Kept, OtherWfs
<1>6. CASE TrackWorkflow(p)
  BY <1>6, TrackEffect DEF Kept, OtherWfs
<1>7. CASE GateFirstStep(p)
  BY <1>7, FirstGateEffect DEF OtherWfs
<1>8. CASE GateNextStep(p)
  BY <1>8, NextGateEffect DEF OtherWfs
<1>9. CASE RejectPlan(p)
  BY <1>9, RejectEffect DEF OtherWfs
<1>10. CASE CompleteWorkflow(p)
  BY <1>10, CompleteEffect DEF OtherWfs
<1>11. CASE ApprovePending(p)
  <2>1. approved'[pl] = approved[pl]
    BY <1>11 DEF ApprovePending, Target, TypeInv, RanOK
  <2> QED BY <1>11, <2>1, ApproveEffect DEF OtherWfs
<1>12. CASE ExecuteSingleStep(p)
  BY <1>12, StepEffect DEF Kept
<1>13. CASE MarkPlan(p)
  BY <1>13, MarkEffect DEF Kept, TypeInv, PlanOK
<1>14. CASE SyncPlanStatus(p)
  BY <1>14, SyncEffect
<1>15. CASE CallFails(p) \/ Disconnect(p)
  BY <1>15, FailEffect DEF Kept
<1>16. CASE \E ok \in BOOLEAN : ListWorkflows(p, ok)
  BY <1>16, ListEffect
<1> QED BY <1>1, <1>2, <1>3, <1>4, <1>5, <1>6, <1>7, <1>8, <1>9, <1>10, <1>11, <1>12, <1>13, <1>14, <1>15, <1>16
        DEF Handler, ExecutePlan, ResumePlan

LEMMA HandlerStep ==
    ASSUME TypeInv, TypeInv', DriveInv, NEW p \in Procs,
           Handler(p) \/ TrackingFails(p) \/ CallFails(p) \/ Disconnect(p),
           NEW pl \in StepPlans \ faulty', StepAt(pl)
    PROVE  StepAt(pl)'
<1>0. pl \in Plans
  BY DEF Plans
<1>1. CASE proc[p].plan # pl
  BY <1>0, <1>1, HandlerElsewhere, ElsewhereStands
<1>2. CASE proc[p].plan = pl
  <2>1. CASE CallFails(p) \/ Disconnect(p)
    BY <1>2, <2>1, FailEffect
  <2>2. CASE GateFirstStep(p)
    <3>1. pl \in ConfirmPlans
      BY <1>2, <2>2, FirstGateEffect, TargetTyped, HandlingFields DEF TypeInv
    <3> QED BY <3>1, ModesAssumption
  <2>3. CASE Handler(p) \/ TrackingFails(p)
    BY <1>2, <2>2, <2>3, EarlyStep, CreatingStep, ListStepMode, ApproveStepMode, ExecuteStepMode, NextStepMode,
       EndStepMode, MarkStepMode DEF Handler, ExecutePlan, ResumePlan
  <2> QED BY <2>1, <2>3
<1> QED BY <1>1, <1>2

LEMMA OverlapGrows ==
    ASSUME NEW p \in Procs, Acts(p)
    PROVE  overlapped \subseteq overlapped'
<1>1. CASE Request(p)
  BY <1>1 DEF Request, ClaimPlan, CheckCancel, GetPlan, history
<1>2. CASE Fault(p)
  BY <1>2 DEF Fault, TrackingFails, CallFails, Disconnect
<1>3. CASE Handler(p)
  BY <1>3 DEF Handler, ExecutePlan, ResumePlan, history, CountActive, StartPlanExecution, PlanFails, EngineCompletes,
              InsertWorkflow, CountForWorkflow, TrackWorkflow, GateFirstStep, GateNextStep, ListWorkflows,
              RejectPlan, CompleteWorkflow, ApprovePending, ExecuteSingleStep, MarkPlan, SyncPlanStatus
<1> QED BY <1>1, <1>2, <1>3 DEF Acts

LEMMA NextStep == TypeInv /\ TypeInv' /\ DriveInv /\ StepInv /\ [Next]_vars => StepInv'
<1> SUFFICES ASSUME TypeInv, TypeInv', DriveInv, StepInv, [Next]_vars PROVE StepInv'
  OBVIOUS
<1>1. CASE UNCHANGED vars
  BY <1>1 DEF vars, StepInv, StepAt, OneDriver, Stages, Between, AllRan
<1>2. CASE Next
  <2>1. PICK p \in Procs : Acts(p)
    BY <1>2 DEF Next, Acts
  <2>2. SUFFICES ASSUME NEW pl \in StepPlans \ (faulty' \cup overlapped') PROVE StepAt(pl)'
    BY DEF StepInv
  <2>3. StepAt(pl)
    BY <2>1, FaultyGrows, OverlapGrows DEF StepInv
  <2> QED BY <2>1, <2>3, RequestStep, HandlerStep DEF Acts, Fault
<1> QED BY <1>1, <1>2

LEMMA InitStep == Init => StepInv
<1> SUFFICES ASSUME Init, NEW pl \in StepPlans PROVE StepAt(pl)
  BY DEF StepInv
<1>0. pl \in Plans
  BY DEF Plans
<1>1. wf[pl] = NoWorkflow /\ ran[pl] = <<>> /\ plan[pl] = "pending" /\ \A p \in Procs : proc[p].pc = "idle"
  BY <1>0, IdleIs DEF Init
<1>2. OneDriver(pl) /\ Stages(pl)
  BY <1>1 DEF OneDriver, Stages, Stage, Drives, Driving, Executing, Early, Resuming
<1>3. Between(pl) /\ AllRan(pl)
  BY <1>1, NoWorkflowIs DEF Between, AllRan
<1>4. InOrder(ran[pl], approved[pl])
  BY <1>1 DEF InOrder
<1> QED BY <1>2, <1>3, <1>4 DEF StepAt

\* Step mode with one resume at a time executes the steps of a plan once each and in
\* order, each but the first after its own approval, and completes the plan only when all
\* of them have run (resumePlanHandler, ExecuteSingleStep, StepGate's current_step_index).
THEOREM StepsInOrder == Spec => []StepModeInOrder
<1>1. StepInv => StepModeInOrder
  BY DEF StepInv, StepAt, InOrder, AllRan, StepModeInOrder
<1> QED BY <1>1, InitStep, NextStep, DriveHolds, TypeInvHolds, PTL DEF Spec
=============================================================================

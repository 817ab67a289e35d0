------------------------ MODULE WorkflowControlProofs ------------------------
(***************************************************************************)
(* Proofs about WorkflowControl for every set of request slots, steps and  *)
(* keys and every value of the bounds.                                     *)
(***************************************************************************)
EXTENDS WorkflowControl, FiniteSetTheorems, TLAPS

(* The operations that name a step, and the pcs only a gate can be at.     *)
StepOps == {"gate", "approve", "reject", "mark", "resume", "resumeAt"}
EvaluatedPcs == {"count", "enqueue", "add", "cursor", "readback", "saveCheckpoint"}
GatePcs == EvaluatedPcs \cup {"bump", "reset", "resumeCount"}

\* A handler that is about to touch a step row holds the id of a step, which
\* the type invariant alone does not say: NoStep is a legal value of the field.
HandlerOK(q) ==
    /\ q.op \in StepOps => q.step \in Steps
    /\ q.pc \in GatePcs \cup {"row", "abortRejected"} => q.op \in StepOps
    /\ q.pc = "steps" => q.op \in {"gate", "resume", "complete"}
    /\ q.pc = "workflow" => q.op \in AllOps \cup {"resume"}
    /\ q.pc = "checkpoint" => q.op \in {"resumeLast", "resumeAt"}

HandlersOK == \A p \in Procs : HandlerOK(proc[p])

TypeInv == TypeOK /\ HandlersOK

SweepRecords == [pc: {"idle", "step", "abort"}, step: Steps \cup {NoStep}, todo: [Steps -> Nat]]

SlotsOK == proc \in [Procs -> Handlers] /\ resp \in [Procs -> Responses] /\ HandlersOK

\* The tables of a new workflow and its idle handlers have their types.
LEMMA InitTypeInv == Init => TypeInv
  BY NamesAssumption DEF Init, TypeInv, TypeOK, HandlersOK, HandlerOK, NoRow, NoCheckpoint,
     IdleHandler, NoResponse, IdleSweep, Rows, Checkpoints, Handlers, Responses, HandlerPcs,
     HandlerOps, AllOps, AllModes, Statuses, Decisions, Approvals, NoTotal, NoDecision,
     GatePcs, EvaluatedPcs, StepOps

\* Assigning legal values to the locals of a handler keeps their shape.
LEMMA SetDec ==
    ASSUME NEW q \in Handlers, NEW c \in HandlerPcs, NEW d \in Decisions \cup {NoDecision}
    PROVE  [q EXCEPT !.pc = c, !.dec = d] \in Handlers
  BY DEF Handlers

\* The same for what a gate remembers about the last step.
LEMMA SetHold ==
    ASSUME NEW q \in Handlers, NEW c \in HandlerPcs, NEW b \in BOOLEAN
    PROVE  [q EXCEPT !.pc = c, !.hold = b] \in Handlers
  BY DEF Handlers

\* The same for the status and index taken from the workflows row.
LEMMA SetRead ==
    ASSUME NEW q \in Handlers, NEW c \in HandlerPcs, NEW st \in Statuses, NEW i \in Nat
    PROVE  [q EXCEPT !.pc = c, !.status = st, !.idx = i] \in Handlers
  BY DEF Handlers

\* The same for the outcome of an evaluation.
LEMMA SetEvaluated ==
    ASSUME NEW q \in Handlers, NEW c \in HandlerPcs, NEW d \in Decisions \cup {NoDecision}
    PROVE  [q EXCEPT !.dec = d, !.pc = c] \in Handlers
  BY DEF Handlers

\* The same for a resume that turns into a gate of its checkpoint's step.
LEMMA SetResume ==
    ASSUME NEW q \in Handlers, NEW c \in HandlerPcs, NEW s \in Steps
    PROVE  [q EXCEPT !.op = "resume", !.step = s, !.mode = "reevaluate", !.pc = c] \in Handlers
<1>1. "resume" \in HandlerOps /\ "reevaluate" \in AllModes /\ s \in Steps \cup {NoStep}
  BY DEF HandlerOps, AllModes
<1> QED BY <1>1 DEF Handlers

USE DEF Statuses, Decisions, Approvals, AllModes, NoTotal, NoDecision

\* A handler that answers leaves a slot and a response of the right shape.
LEMMA ReturnType ==
    ASSUME TypeInv, NEW p \in Procs, NEW r \in Responses, Return(p, r)
    PROVE  SlotsOK'
  BY DEF SlotsOK, Return, TypeInv, TypeOK, HandlersOK, HandlerOK, IdleHandler, Handlers, HandlerPcs,
     HandlerOps, AllOps, GatePcs, EvaluatedPcs, StepOps

\* Errors, mismatches and bare successes are such answers.
LEMMA ErrorType ==
    ASSUME TypeInv, NEW p \in Procs, Error(p) \/ Ok(p) \/ KeyMismatch(p)
    PROVE  SlotsOK'
<1>1. [NoResponse EXCEPT !.out = "error"] \in Responses /\ [NoResponse EXCEPT !.out = "ok"] \in Responses
  BY DEF NoResponse, Responses, HandlerOps
<1>2. [NoResponse EXCEPT !.op = proc[p].op, !.out = "mismatch"] \in Responses
  BY DEF NoResponse, Responses, HandlerOps, TypeInv, TypeOK, Handlers
<1> QED BY <1>1, <1>2, ReturnType DEF Error, Ok, KeyMismatch

\* So is an answer that carries a decision.
LEMMA DecidedType ==
    ASSUME TypeInv, NEW p \in Procs, NEW d \in Decisions \cup {NoDecision}, Decided(p, d)
    PROVE  SlotsOK'
<1>1. [op |-> proc[p].op, out |-> "ok", step |-> proc[p].step, dec |-> d] \in Responses
  BY DEF Responses, TypeInv, TypeOK, Handlers
<1> QED BY <1>1, ReturnType DEF Decided

\* Going on with legal locals keeps the shape.
LEMMA ProceedType ==
    ASSUME TypeInv, NEW p \in Procs, NEW q \in Handlers, HandlerOK(q), Proceed(p, q)
    PROVE  SlotsOK'
  BY DEF SlotsOK, Proceed, TypeInv, TypeOK, HandlersOK

\* So does moving on to another statement.
LEMMA GotoType ==
    ASSUME TypeInv, NEW p \in Procs, NEW c \in HandlerPcs, Goto(p, c),
           c \in GatePcs \cup {"row", "abortRejected"} => proc[p].op \in StepOps,
           c = "workflow" => proc[p].op \in AllOps \cup {"resume"},
           c \notin {"steps", "checkpoint"}
    PROVE  SlotsOK'
<1>1. [proc[p] EXCEPT !.pc = c] \in Handlers
  BY DEF TypeInv, TypeOK, Handlers
<1>2. HandlerOK([proc[p] EXCEPT !.pc = c])
  BY DEF TypeInv, TypeOK, HandlersOK, HandlerOK, Handlers
<1> QED BY <1>1, <1>2, ProceedType DEF Goto

\* The decision a cached answer reports is a decision.
LEMMA CachedDecisionType ==
    ASSUME NEW row \in Rows
    PROVE  CachedDecision(row) \in Decisions \cup {NoDecision}
  BY DEF CachedDecision, Rows

\* A gate that answers, or hands its decision to the resume that called it.
LEMMA GateAnswerType ==
    ASSUME TypeInv, NEW p \in Procs, NEW d \in Decisions \cup {NoDecision}, GateAnswer(p, d)
    PROVE  SlotsOK'
<1>1. CASE proc[p].op = "resume"
  <2> DEFINE q == [proc[p] EXCEPT !.pc = "resumeCount", !.dec = d]
  <2>1. q \in Handlers
    BY SetDec DEF TypeInv, TypeOK, HandlerPcs
  <2>2. HandlerOK(q)
    BY <1>1 DEF TypeInv, TypeOK, HandlersOK, HandlerOK, Handlers, StepOps, GatePcs, EvaluatedPcs
  <2> QED BY <1>1, <2>1, <2>2, ProceedType DEF GateAnswer
<1>2. CASE proc[p].op # "resume"
  BY <1>2, DecidedType DEF GateAnswer
<1> QED BY <1>1, <1>2

\* A new request starts with legal locals.
LEMMA CallType == ASSUME TypeInv, NEW p \in Procs, Call(p) PROVE TypeInv'
<1>1. PICK r \in Requests : Proceed(p, NewHandler(r))
  BY DEF Call
<1>2. /\ r.op \in AllOps /\ r.step \in Steps \cup {NoStep} /\ r.key \in Keys \cup {NoKey}
      /\ r.mode \in AllModes /\ r.mine \in BOOLEAN
      /\ r.op \in StepOps => r.step \in Steps
  BY InputsAssumption DEF Requests, StepOps
<1>3. NewHandler(r) \in Handlers
  BY <1>2 DEF NewHandler, Handlers, HandlerPcs, HandlerOps
<1>4. HandlerOK(NewHandler(r))
  BY <1>2 DEF NewHandler, HandlerOK, GatePcs, EvaluatedPcs
<1> QED BY <1>1, <1>3, <1>4, ProceedType DEF Call, SlotsOK, TypeInv, TypeOK, rows, ghosts

\* GetByID's first statement copies a status and an index of the right type.
LEMMA ReadWorkflowType == ASSUME TypeInv, NEW p \in Procs, ReadWorkflow(p) PROVE TypeInv'
<1>1. CASE Error(p)
  BY <1>1, ErrorType DEF ReadWorkflow, SlotsOK, TypeInv, TypeOK, rows, ghosts
<1>2. CASE ~Error(p)
  <2> DEFINE op == proc[p].op
             c == AfterWorkflowRead(op)
             q == [proc[p] EXCEPT !.pc = c, !.status = wf.status, !.idx = wf.cur + 1]
  <2>1. Proceed(p, q) /\ proc[p].pc = "workflow"
    BY <1>2 DEF ReadWorkflow
  <2>2. /\ c \in {"steps", "row", "write", "checkpoint"}
        /\ c = "row" => op \in StepOps
        /\ c = "steps" => op \in {"gate", "resume", "complete"}
        /\ c = "checkpoint" => op \in {"resumeLast", "resumeAt"}
    BY <2>1 DEF AfterWorkflowRead, TypeInv, HandlersOK, HandlerOK, AllOps, StepOps
  <2> HIDE DEF c
  <2>3. proc[p] \in Handlers /\ c \in HandlerPcs /\ wf.status \in Statuses /\ wf.cur + 1 \in Nat
    BY <2>2 DEF TypeInv, TypeOK, HandlerPcs
  <2>5. q \in Handlers
    BY <2>3, SetRead
  <2>4. HandlerOK(q)
    BY <2>2 DEF TypeInv, TypeOK, HandlersOK, HandlerOK, Handlers, GatePcs, EvaluatedPcs
  <2> QED BY <2>1, <2>5, <2>4, ProceedType DEF ReadWorkflow, SlotsOK, TypeInv, TypeOK, rows, ghosts
<1> QED BY <1>1, <1>2

\* GetByID's second statement only sets a flag or ends the handler.
LEMMA ReadStepsType == ASSUME TypeInv, NEW p \in Procs, ReadSteps(p) PROVE TypeInv'
<1>0. proc[p].pc = "steps" /\ proc[p].op \in {"gate", "resume", "complete"}
  BY DEF ReadSteps, TypeInv, HandlersOK, HandlerOK
<1>1. CASE Error(p)
  BY <1>1, ErrorType DEF ReadSteps, SlotsOK, TypeInv, TypeOK, rows, ghosts
<1>2. CASE proc[p].op = "complete" /\ Goto(p, "write")
  BY <1>2, GotoType DEF ReadSteps, SlotsOK, TypeInv, TypeOK, rows, ghosts, HandlerPcs, GatePcs, EvaluatedPcs
<1>3. CASE proc[p].op # "complete" /\ Goto(p, "row")
  BY <1>0, <1>3, GotoType DEF ReadSteps, SlotsOK, TypeInv, TypeOK, rows, ghosts, HandlerPcs, StepOps
<1>4. ASSUME proc[p].op # "complete", NEW l \in LastSteps,
             Proceed(p, [proc[p] EXCEPT !.pc = "row",
                                        !.hold = IsPending(steps[l]) /\ l # proc[p].step])
      PROVE  TypeInv'
  <2> DEFINE h == IsPending(steps[l]) /\ l # proc[p].step
             q == [proc[p] EXCEPT !.pc = "row", !.hold = h]
  <2>1. h \in BOOLEAN
    BY DEF IsPending
  <2> HIDE DEF h
  <2>2. q \in Handlers
    BY <2>1, SetHold DEF TypeInv, TypeOK, HandlerPcs
  <2>3. HandlerOK(q)
    BY <1>0, <1>4 DEF TypeInv, TypeOK, HandlersOK, HandlerOK, Handlers, StepOps
  <2>4. Proceed(p, q)
    BY <1>4 DEF h
  <2> QED BY <2>2, <2>3, <2>4, ProceedType DEF ReadSteps, SlotsOK, TypeInv, TypeOK, rows, ghosts
<1> QED BY <1>1, <1>2, <1>3, <1>4 DEF ReadSteps

\* GetStep of a review changes the pc only.
LEMMA ReadStepForReviewType ==
    ASSUME TypeInv, NEW p \in Procs, ReadStepForReview(p) PROVE TypeInv'
<1>1. CASE Error(p)
  BY <1>1, ErrorType DEF ReadStepForReview, SlotsOK, TypeInv, TypeOK, rows, ghosts
<1>2. CASE Goto(p, "write")
  BY <1>2, GotoType DEF ReadStepForReview, SlotsOK, TypeInv, TypeOK, rows, ghosts, HandlerPcs, GatePcs, EvaluatedPcs
<1> QED BY <1>1, <1>2 DEF ReadStepForReview

\* The read of MarkStepCompleted changes the pc only.
LEMMA ReadStepForCompletionType ==
    ASSUME TypeInv, NEW p \in Procs, ReadStepForCompletion(p) PROVE TypeInv'
<1>1. CASE KeyMismatch(p)
  BY <1>1, ErrorType DEF ReadStepForCompletion, SlotsOK, TypeInv, TypeOK, rows, ghosts
<1>2. CASE Goto(p, "write")
  BY <1>2, GotoType DEF ReadStepForCompletion, SlotsOK, TypeInv, TypeOK, rows, ghosts, HandlerPcs, GatePcs, EvaluatedPcs
<1> QED BY <1>1, <1>2 DEF ReadStepForCompletion

\* Whatever StepGate finds in the row, its locals keep their types.
LEMMA ReadStepForGateType == ASSUME TypeInv, NEW p \in Procs, ReadStepForGate(p) PROVE TypeInv'
<1>0. /\ proc[p] \in Handlers /\ proc[p].op \in {"gate", "resume"} /\ proc[p].step \in Steps
      /\ UNCHANGED <<rows, hitl, sweep, calls, faults>>
  BY DEF ReadStepForGate, TypeInv, TypeOK, HandlersOK, HandlerOK, StepOps
<1>1. CASE (Error(p) \/ KeyMismatch(p)) /\ UNCHANGED ghosts
  BY <1>0, <1>1, ErrorType DEF SlotsOK, TypeInv, TypeOK, rows, ghosts
<1>2. CASE Goto(p, "bump") /\ UNCHANGED ghosts
  BY <1>0, <1>2, GotoType
  DEF SlotsOK, TypeInv, TypeOK, rows, ghosts, HandlerPcs, StepOps, GatePcs
<1>3. CASE Evaluate(p)
  <2> DEFINE c(d) == IF EvalTier /\ d = "require_approval" /\ proc[p].mode # "override"
                     THEN "count" ELSE "add"
  <2>1. PICK d \in Decisions :
           /\ Proceed(p, [proc[p] EXCEPT !.dec = d, !.pc = c(d)])
           /\ allowed' = IF d = "allow" THEN allowed \cup {proc[p].step} ELSE allowed
    BY <1>3 DEF Evaluate
  <2>2. c(d) \in {"count", "add"}
    OBVIOUS
  <2> DEFINE q == [proc[p] EXCEPT !.dec = d, !.pc = c(d)]
  <2> HIDE DEF c
  <2>3. q \in Handlers
    BY <1>0, <2>2, SetEvaluated DEF HandlerPcs
  <2>4. HandlerOK(q)
    BY <1>0, <2>2 DEF TypeInv, TypeOK, HandlersOK, HandlerOK, Handlers, StepOps
  <2>5. SlotsOK'
    BY <2>1, <2>3, <2>4, ProceedType
  <2>6. allowed' \subseteq Steps /\ approved' = approved
    BY <1>0, <1>3, <2>1 DEF Evaluate, TypeInv, TypeOK
  <2> QED BY <1>0, <2>5, <2>6 DEF SlotsOK, TypeInv, TypeOK, rows
<1> QED BY <1>1, <1>2, <1>3 DEF ReadStepForGate

\* A resume takes its step from a checkpoint, hence from Steps.
LEMMA ReadCheckpointType == ASSUME TypeInv, NEW p \in Procs, ReadCheckpoint(p) PROVE TypeInv'
<1>1. CASE Error(p)
  BY <1>1, ErrorType DEF ReadCheckpoint, SlotsOK, TypeInv, TypeOK, rows, ghosts
<1>2. CASE ~Error(p)
  <2> DEFINE c == IF proc[p].status = "aborted" THEN "reset" ELSE "workflow"
  <2>1. PICK s \in Steps \cup {NoStep} :
           /\ s \in Steps \/ (s = proc[p].step /\ proc[p].op = "resumeAt")
           /\ Proceed(p, [proc[p] EXCEPT !.op = "resume", !.step = s,
                                         !.mode = "reevaluate", !.pc = c])
    BY <1>2 DEF ReadCheckpoint, LastCheckpoints, TypeInv, TypeOK, Handlers, HandlersOK, HandlerOK
  <2>2. s \in Steps
    BY <2>1 DEF TypeInv, HandlersOK, HandlerOK, StepOps
  <2> DEFINE q == [proc[p] EXCEPT !.op = "resume", !.step = s, !.mode = "reevaluate", !.pc = c]
  <2>3. c \in {"reset", "workflow"}
    OBVIOUS
  <2> HIDE DEF c
  <2>4. q \in Handlers
    BY <2>2, <2>3, SetResume DEF TypeInv, TypeOK, HandlerPcs
  <2>5. HandlerOK(q)
    BY <2>2, <2>3 DEF TypeInv, TypeOK, HandlerOK, Handlers, StepOps
  <2> QED BY <2>1, <2>4, <2>5, ProceedType DEF ReadCheckpoint, SlotsOK, TypeInv, TypeOK, rows, ghosts
<1> QED BY <1>1, <1>2

\* The handler that is at one of these pcs works for a step that exists.
LEMMA HandlerStep ==
    ASSUME TypeInv, NEW p \in Procs, proc[p].op \in StepOps \/ proc[p].pc \in GatePcs \cup {"row", "abortRejected"}
    PROVE  /\ proc[p].op \in StepOps /\ proc[p].step \in Steps
           /\ proc[p].dec \in Decisions \cup {NoDecision} /\ proc[p].idx \in Nat
           /\ proc[p].key \in Keys \cup {NoKey}
           /\ steps[proc[p].step] \in Rows /\ cps[proc[p].step] \in Checkpoints
           /\ hitl[proc[p].step] \in Nat
  BY DEF TypeInv, TypeOK, HandlersOK, HandlerOK, Handlers

\* Counting the pending approvals changes the pc only.
LEMMA CountType == ASSUME TypeInv, NEW p \in Procs, CountPendingApprovals(p) PROVE TypeInv'
<1>1. proc[p].op \in StepOps
  BY HandlerStep DEF CountPendingApprovals, GatePcs, EvaluatedPcs
<1>2. Goto(p, "add") \/ Goto(p, "enqueue")
  BY DEF CountPendingApprovals
<1> QED BY <1>1, <1>2, GotoType
        DEF CountPendingApprovals, SlotsOK, TypeInv, TypeOK, rows, ghosts, HandlerPcs

\* The insert into the queue moves its gate on and marks it.
LEMMA EnqueueFields ==
    ASSUME TypeInv, NEW p \in Procs, EnqueueApproval(p)
    PROVE  /\ proc' = [proc EXCEPT ![p] = proc'[p]] /\ proc'[p] \in Handlers /\ Proceed(p, proc'[p])
           /\ proc[p].pc = "enqueue" /\ proc'[p].pc = "add"
           /\ proc'[p].op = proc[p].op /\ proc'[p].step = proc[p].step /\ proc'[p].dec = proc[p].dec
<1>1. proc[p] \in Handlers /\ proc \in [Procs -> Handlers]
  BY DEF TypeInv, TypeOK
<1>2. PICK q : q = [proc[p] EXCEPT !.pc = "add", !.queued = TRUE]
  OBVIOUS
<1>3. proc[p].pc = "enqueue" /\ Proceed(p, q)
  BY <1>2 DEF EnqueueApproval
<1>4. q \in Handlers
  BY <1>1, <1>2 DEF Handlers, HandlerPcs
<1>5. q.pc = "add" /\ q.op = proc[p].op /\ q.step = proc[p].step /\ q.dec = proc[p].dec
  BY <1>1, <1>2 DEF Handlers
<1>6. proc' = [proc EXCEPT ![p] = q] /\ proc'[p] = q
  BY <1>1, <1>3 DEF Proceed
<1> QED BY <1>3, <1>4, <1>5, <1>6

\* One more queue row for a step.
LEMMA EnqueueType == ASSUME TypeInv, NEW p \in Procs, EnqueueApproval(p) PROVE TypeInv'
<1>1. proc[p].op \in StepOps /\ proc[p].step \in Steps
  BY HandlerStep DEF EnqueueApproval, GatePcs, EvaluatedPcs
<1>2. SlotsOK'
  <2>1. HandlerOK(proc'[p])
    BY <1>1, EnqueueFields DEF HandlerOK, StepOps
  <2> QED BY <2>1, EnqueueFields, ProceedType
<1>3. hitl' \in [Steps -> Nat]
  BY <1>1 DEF EnqueueApproval, TypeInv, TypeOK
<1> QED BY <1>2, <1>3 DEF EnqueueApproval, SlotsOK, TypeInv, TypeOK, rows, ghosts

\* Updates of one or two columns of a step row.
LEMMA SetColumns ==
    ASSUME NEW row \in Rows
    PROVE  /\ \A g \in Nat, d \in Decisions \cup {NoDecision} :
                  [row EXCEPT !.gates = g, !.last = d] \in Rows
           /\ \A a \in Approvals : [row EXCEPT !.approval = a] \in Rows
           /\ \A n \in Nat : [row EXCEPT !.completions = n] \in Rows
           /\ row.gates + 1 \in Nat /\ row.completions + 1 \in Nat
           /\ row.decision \in Decisions \cup {NoDecision}
<1>1. ASSUME NEW g \in Nat, NEW d \in Decisions \cup {NoDecision}
      PROVE  [row EXCEPT !.gates = g, !.last = d] \in Rows
  BY DEF Rows
<1>2. ASSUME NEW a \in Approvals PROVE [row EXCEPT !.approval = a] \in Rows
  BY DEF Rows
<1>3. ASSUME NEW n \in Nat PROVE [row EXCEPT !.completions = n] \in Rows
  BY DEF Rows
<1>4. /\ row.gates + 1 \in Nat /\ row.completions + 1 \in Nat
      /\ row.decision \in Decisions \cup {NoDecision}
  BY DEF Rows
<1> QED BY <1>1, <1>2, <1>3, <1>4, Zenon

\* BumpGateCountCached keeps a row a row and answers a decision.
LEMMA BumpType == ASSUME TypeInv, NEW p \in Procs, BumpGateCountCached(p) PROVE TypeInv'
<1>1. proc[p].step \in Steps /\ steps[proc[p].step] \in Rows
  BY HandlerStep DEF BumpGateCountCached, GatePcs
<1>2. SlotsOK'
  BY <1>1, CachedDecisionType, DecidedType DEF BumpGateCountCached
<1>3. BumpedRow(steps[proc[p].step]) \in Rows
  BY <1>1, SetColumns DEF BumpedRow
<1>4. steps' \in [Steps -> Rows]
  BY <1>1, <1>3 DEF BumpGateCountCached, TypeInv, TypeOK
<1> QED BY <1>2, <1>4 DEF BumpGateCountCached, SlotsOK, TypeInv, TypeOK, ghosts

\* The upsert of AddStep yields a row.
LEMMA AddStepRowType ==
    ASSUME TypeInv, NEW p \in Procs, proc[p].pc \in GatePcs
    PROVE  AddStepRow(steps[proc[p].step], proc[p]) \in Rows
<1> DEFINE q == proc[p]
           row == steps[q.step]
<1>1. /\ row \in Rows /\ q.idx \in Nat /\ q.dec \in Decisions \cup {NoDecision}
      /\ q.key \in Keys \cup {NoKey}
  BY HandlerStep
<1>2. GatedApproval(row, q.dec) \in Approvals
  BY DEF GatedApproval
<1>3. NextGateCount(row) \in Nat
  BY <1>1 DEF NextGateCount, Rows
<1>4. GatedKey(row, q.key) \in Keys \cup {NoKey}
  BY <1>1 DEF GatedKey, Rows
<1>5. /\ row.idx \in Nat /\ row.completions \in Nat
      /\ row.decision \in Decisions \cup {NoDecision}
  BY <1>1 DEF Rows
<1> HIDE DEF row, q
<1>6. AddStepRow(row, q) \in Rows
  BY <1>1, <1>2, <1>3, <1>4, <1>5 DEF AddStepRow, Rows
<1> QED BY <1>6 DEF row, q

\* AddStep writes such a row.
LEMMA AddStepType == ASSUME TypeInv, NEW p \in Procs, AddStep(p) PROVE TypeInv'
<1>1. proc[p].op \in StepOps /\ proc[p].step \in Steps /\ proc[p].pc \in GatePcs
  BY HandlerStep DEF AddStep, GatePcs, EvaluatedPcs
<1>2. SlotsOK'
  BY <1>1, GotoType DEF AddStep, HandlerPcs
<1>3. steps' \in [Steps -> Rows]
  BY <1>1, AddStepRowType DEF AddStep, TypeInv, TypeOK
<1> QED BY <1>2, <1>3 DEF AddStep, SlotsOK, TypeInv, TypeOK, ghosts

\* The cursor stays a natural number.
LEMMA CursorType == ASSUME TypeInv, NEW p \in Procs, UpdateCurrentStepIndex(p) PROVE TypeInv'
<1>1. proc[p].op \in StepOps /\ proc[p].idx \in Nat
  BY HandlerStep DEF UpdateCurrentStepIndex, GatePcs, EvaluatedPcs
<1>2. SlotsOK'
  BY <1>1, GotoType DEF UpdateCurrentStepIndex, HandlerPcs
<1>3. AdvancedCursor(wf.cur, proc[p].idx) \in Nat
  BY <1>1 DEF AdvancedCursor, TypeInv, TypeOK
<1> QED BY <1>2, <1>3 DEF UpdateCurrentStepIndex, SlotsOK, TypeInv, TypeOK, ghosts

\* Reading the row back answers or moves on.
LEMMA ReadBackType == ASSUME TypeInv, NEW p \in Procs, ReadBack(p) PROVE TypeInv'
<1>1. proc[p].op \in StepOps /\ steps[proc[p].step] \in Rows
  BY HandlerStep DEF ReadBack, GatePcs, EvaluatedPcs
<1>2. CASE GateAnswer(p, CachedDecision(steps[proc[p].step]))
  BY <1>1, <1>2, CachedDecisionType, GateAnswerType
  DEF ReadBack, SlotsOK, TypeInv, TypeOK, rows, ghosts
<1>3. CASE Goto(p, "saveCheckpoint")
  BY <1>1, <1>3, GotoType DEF ReadBack, SlotsOK, TypeInv, TypeOK, rows, ghosts, HandlerPcs
<1> QED BY <1>2, <1>3 DEF ReadBack

\* The upsert of a checkpoint yields a checkpoint.
LEMMA CreateCheckpointType == ASSUME TypeInv, NEW p \in Procs, CreateCheckpoint(p) PROVE TypeInv'
<1>1. /\ proc[p].step \in Steps /\ proc[p].idx \in Nat /\ cps[proc[p].step] \in Checkpoints
      /\ proc[p].dec \in Decisions \cup {NoDecision}
  BY HandlerStep DEF CreateCheckpoint, GatePcs, EvaluatedPcs
<1>2. SlotsOK'
  BY <1>1, GateAnswerType DEF CreateCheckpoint
<1>3. CheckpointRow(cps[proc[p].step], proc[p]) \in Checkpoints
  BY <1>1 DEF CheckpointRow, Checkpoints
<1>4. cps' \in [Steps -> Checkpoints]
  BY <1>1, <1>3 DEF CreateCheckpoint, TypeInv, TypeOK
<1> QED BY <1>2, <1>4 DEF CreateCheckpoint, SlotsOK, TypeInv, TypeOK, ghosts

\* A resume resets the workflow to a legal status.
LEMMA ResetStatusType == ASSUME TypeInv, NEW p \in Procs, ResetStatus(p) PROVE TypeInv'
<1>1. proc[p].op \in StepOps
  BY HandlerStep DEF ResetStatus, GatePcs
<1>2. SlotsOK'
  BY <1>1, GotoType DEF ResetStatus, HandlerPcs, StepOps, AllOps, GatePcs, EvaluatedPcs
<1> QED BY <1>2 DEF ResetStatus, SlotsOK, TypeInv, TypeOK, ghosts

\* resume_count stays a natural number.
LEMMA ResumeCountType == ASSUME TypeInv, NEW p \in Procs, IncrementResumeCount(p) PROVE TypeInv'
<1>1. /\ proc[p].step \in Steps /\ cps[proc[p].step] \in Checkpoints
      /\ proc[p].dec \in Decisions \cup {NoDecision}
  BY HandlerStep DEF IncrementResumeCount, GatePcs
<1>2. SlotsOK'
  BY <1>1, DecidedType DEF IncrementResumeCount
<1>3. [cps[proc[p].step] EXCEPT !.resumes = @ + 1] \in Checkpoints
  BY <1>1 DEF Checkpoints
<1>4. cps' \in [Steps -> Checkpoints]
  BY <1>1, <1>3 DEF IncrementResumeCount, TypeInv, TypeOK
<1> QED BY <1>2, <1>4 DEF IncrementResumeCount, SlotsOK, TypeInv, TypeOK, ghosts

\* Approving sets a legal approval state and names a step.
LEMMA ApproveType == ASSUME TypeInv, NEW p \in Procs, ApproveStep(p) PROVE TypeInv'
<1>1. proc[p].step \in Steps /\ steps[proc[p].step] \in Rows
  BY HandlerStep DEF ApproveStep, StepOps
<1>2. SlotsOK'
  BY ErrorType DEF ApproveStep
<1>3. steps' \in [Steps -> Rows]
  BY <1>1, SetColumns DEF ApproveStep, TypeInv, TypeOK
<1> QED BY <1>1, <1>2, <1>3 DEF ApproveStep, SlotsOK, TypeInv, TypeOK

\* Rejecting sets a legal approval state.
LEMMA RejectType == ASSUME TypeInv, NEW p \in Procs, RejectStep(p) PROVE TypeInv'
<1>1. proc[p].op \in StepOps /\ proc[p].step \in Steps /\ steps[proc[p].step] \in Rows
  BY HandlerStep DEF RejectStep, StepOps
<1>2. SlotsOK'
  BY <1>1, GotoType DEF RejectStep, HandlerPcs
<1>3. steps' \in [Steps -> Rows]
  BY <1>1, SetColumns DEF RejectStep, TypeInv, TypeOK
<1> QED BY <1>2, <1>3 DEF RejectStep, SlotsOK, TypeInv, TypeOK, ghosts

\* COALESCE leaves total_steps a count or NULL.
LEMMA FinalisedType ==
    ASSUME TypeInv, NEW st \in Statuses
    PROVE  Finalised(wf, st) \in [status: Statuses, cur: Nat, total: Nat \cup {NoTotal}]
  BY DEF Finalised, TypeInv, TypeOK

\* Complete, abort and fail, and the abort after a rejection, leave a legal workflow row.
LEMMA FinaliseType ==
    ASSUME TypeInv, NEW p \in Procs,
           AbortRejected(p) \/ CompleteWorkflow(p) \/ AbortWorkflow(p) \/ FailWorkflow(p)
    PROVE  TypeInv'
<1>1. PICK st \in Statuses : wf' = Finalised(wf, st)
  BY DEF AbortRejected, CompleteWorkflow, AbortWorkflow, FailWorkflow, FinaliseWorkflow
<1>2. Ok(p) /\ UNCHANGED <<steps, cps, hitl, sweep, ghosts, calls, faults>>
  BY DEF AbortRejected, CompleteWorkflow, AbortWorkflow, FailWorkflow, FinaliseWorkflow
<1> QED BY <1>1, <1>2, FinalisedType, ErrorType DEF SlotsOK, TypeInv, TypeOK, ghosts

\* completion_count stays a natural number.
LEMMA MarkType == ASSUME TypeInv, NEW p \in Procs, MarkStepCompleted(p) PROVE TypeInv'
<1>1. proc[p].step \in Steps /\ steps[proc[p].step] \in Rows
  BY HandlerStep DEF MarkStepCompleted, StepOps
<1>2. SlotsOK'
  BY ErrorType DEF MarkStepCompleted
<1>3. [steps[proc[p].step] EXCEPT !.completions = @ + 1] \in Rows
  BY <1>1, SetColumns
<1>4. steps' \in [Steps -> Rows]
  BY <1>1, <1>3 DEF MarkStepCompleted, TypeInv, TypeOK
<1> QED BY <1>2, <1>4 DEF MarkStepCompleted, SlotsOK, TypeInv, TypeOK, ghosts

\* A failed statement ends the handler and changes no table.
LEMMA StatementFailsType == ASSUME TypeInv, NEW p \in Procs, StatementFails(p) PROVE TypeInv'
  BY ErrorType DEF StatementFails, SlotsOK, TypeInv, TypeOK, rows, ghosts

\* A tolerated failure moves the handler on as success would.
LEMMA BestEffortFailsType == ASSUME TypeInv, NEW p \in Procs, BestEffortFails(p) PROVE TypeInv'
<1>1. CASE proc[p].pc \in DOMAIN BestEffort /\ Goto(p, BestEffort[proc[p].pc])
  <2>1. proc[p].pc \in GatePcs /\ BestEffort[proc[p].pc] \in {"add", "readback"}
    BY <1>1 DEF BestEffort, GatePcs, EvaluatedPcs
  <2>2. proc[p].op \in StepOps
    BY <2>1, HandlerStep
  <2>3. SlotsOK'
    BY <1>1, <2>1, <2>2, GotoType DEF HandlerPcs
  <2> QED BY <2>3 DEF BestEffortFails, SlotsOK, TypeInv, TypeOK, rows, ghosts
<1>2. CASE proc[p].pc \in {"saveCheckpoint", "resumeCount"} /\
              (GateAnswer(p, proc[p].dec) \/ Decided(p, proc[p].dec))
  <2>1. proc[p].dec \in Decisions \cup {NoDecision}
    BY <1>2, HandlerStep DEF GatePcs, EvaluatedPcs
  <2>2. SlotsOK'
    BY <1>2, <2>1, GateAnswerType, DecidedType
  <2> QED BY <2>2 DEF BestEffortFails, SlotsOK, TypeInv, TypeOK, rows, ghosts
<1>3. CASE Ok(p)
  BY <1>3, ErrorType DEF BestEffortFails, SlotsOK, TypeInv, TypeOK, rows, ghosts
<1> QED BY <1>1, <1>2, <1>3 DEF BestEffortFails

\* The sweep's own record keeps its shape.
LEMMA SweepRecordType ==
    ASSUME TypeInv
    PROVE  /\ NextExpired \in SweepRecords
           /\ IdleSweep \in SweepRecords
           /\ \A s \in Steps : sweep.todo[s] > 0 =>
                /\ [sweep EXCEPT !.pc = "abort", !.step = s, !.todo[s] = @ - 1] \in SweepRecords
                /\ AfterRow([sweep EXCEPT !.todo[s] = @ - 1]) \in SweepRecords
<1>1. sweep.todo \in [Steps -> Nat] /\ sweep \in SweepRecords
  BY DEF TypeInv, TypeOK, SweepRecords
<1>2. IdleSweep \in SweepRecords
  BY DEF IdleSweep, SweepRecords
<1>5. \A w \in SweepRecords : AfterRow(w) \in SweepRecords
  BY <1>2 DEF AfterRow, SweepRecords
<1>3. NextExpired \in SweepRecords
  BY <1>1, <1>5 DEF NextExpired
<1>4. ASSUME NEW s \in Steps, sweep.todo[s] > 0
      PROVE  /\ [sweep EXCEPT !.pc = "abort", !.step = s, !.todo[s] = @ - 1] \in SweepRecords
             /\ AfterRow([sweep EXCEPT !.todo[s] = @ - 1]) \in SweepRecords
  <2>1. [sweep.todo EXCEPT ![s] = @ - 1] \in [Steps -> Nat]
    BY <1>1, <1>4
  <2>2. [sweep EXCEPT !.todo[s] = @ - 1] \in SweepRecords
    BY <1>1, <2>1 DEF SweepRecords
  <2>3. [sweep EXCEPT !.pc = "abort", !.step = s, !.todo[s] = @ - 1] \in SweepRecords
    BY <1>1, <2>1 DEF SweepRecords
  <2> QED BY <1>5, <2>2, <2>3
<1> QED BY <1>2, <1>3, <1>4

\* Taking due rows leaves counts: no more rows are taken than there are.
LEMMA SweepExpireType == ASSUME TypeInv, SweepExpire PROVE TypeInv'
<1>0. PICK due \in [Steps -> 0..MaxCalls] :
         /\ \A s \in Steps : due[s] + Young(s) =< hitl[s]
         /\ hitl' = [s \in Steps |-> hitl[s] - due[s]]
         /\ sweep' = [sweep EXCEPT !.pc = "step", !.todo = due]
  BY DEF SweepExpire
<1>1. \A s \in Steps : due[s] =< hitl[s]
  <2> TAKE s \in Steps
  <2>1. Young(s) \in Nat
    BY RequestsAssumption, FS_Subset, FS_CardinalityType DEF Young
  <2> QED BY <1>0, <2>1, BoundsAssumption DEF TypeInv, TypeOK
<1>2. hitl' \in [Steps -> Nat] /\ due \in [Steps -> Nat]
  BY <1>0, <1>1, BoundsAssumption DEF TypeInv, TypeOK
<1>3. sweep' \in SweepRecords
  BY <1>0, <1>2 DEF TypeInv, TypeOK, SweepRecords
<1> QED BY <1>2, <1>3 DEF SweepRecords, SweepExpire, TypeInv, TypeOK, HandlersOK, rows, ghosts

\* Expiring a step sets a legal approval state.
LEMMA SweepStepType == ASSUME TypeInv, SweepStep PROVE TypeInv'
<1>1. PICK s \in Steps :
         /\ sweep.todo[s] > 0
         /\ steps' = [steps EXCEPT ![s] = ExpiredRow(@)]
         /\ sweep' = [sweep EXCEPT !.pc = "abort", !.step = s, !.todo[s] = @ - 1]
  BY DEF SweepStep
<1>2. ExpiredRow(steps[s]) \in Rows
  BY SetColumns DEF ExpiredRow, TypeInv, TypeOK
<1>3. steps' \in [Steps -> Rows]
  BY <1>1, <1>2 DEF TypeInv, TypeOK
<1> QED BY <1>1, <1>3, SweepRecordType DEF SweepStep, SweepRecords, TypeInv, TypeOK, HandlersOK, ghosts

\* Aborting for an expired step sets a legal status.
LEMMA SweepAbortType == ASSUME TypeInv, SweepAbort PROVE TypeInv'
<1>1. wf' \in [status: Statuses, cur: Nat, total: Nat \cup {NoTotal}]
  BY DEF SweepAbort, SweptStatus, TypeInv, TypeOK
<1> QED BY <1>1, SweepRecordType DEF SweepAbort, SweepRecords, TypeInv, TypeOK, HandlersOK, ghosts

\* A sweep that fails or dies changes only its own record.
LEMMA SweepFaultType == ASSUME TypeInv, SweepStatementFails \/ SweepDies PROVE TypeInv'
<1>1. sweep' \in SweepRecords
  BY SweepRecordType DEF SweepStatementFails, SweepDies
<1>2. faults' = faults + 1 /\ UNCHANGED <<rows, hitl, proc, resp, ghosts, calls>>
  BY Zenon DEF SweepStatementFails, SweepDies
<1> QED BY <1>1, <1>2 DEF SweepRecords, TypeInv, TypeOK, HandlersOK, rows, ghosts

\* Every step preserves the type invariant: one case per action.
LEMMA NextTypeInv == TypeInv /\ [Next]_vars => TypeInv'
<1> SUFFICES ASSUME TypeInv, [Next]_vars PROVE TypeInv'
  OBVIOUS
<1>1. ASSUME NEW p \in Procs, Read(p) PROVE TypeInv'
  BY <1>1, ReadWorkflowType, ReadStepsType, ReadStepForReviewType, ReadStepForCompletionType,
     ReadStepForGateType, ReadCheckpointType, CountType, ReadBackType DEF Read
<1>2. ASSUME NEW p \in Procs, Write(p) PROVE TypeInv'
  BY <1>2, EnqueueType, BumpType, AddStepType, CursorType, CreateCheckpointType,
     ResetStatusType, ResumeCountType, ApproveType, RejectType, FinaliseType, MarkType DEF Write
<1>3. ASSUME NEW p \in Procs, Call(p) \/ Fault(p) PROVE TypeInv'
  BY <1>3, CallType, StatementFailsType, BestEffortFailsType DEF Fault
<1>4. CASE Sweep \/ SweepStatementFails \/ SweepDies
  BY <1>4, SweepExpireType, SweepStepType, SweepAbortType, SweepFaultType DEF Sweep
<1>5. CASE Done \/ UNCHANGED vars
  BY <1>5 DEF Done, vars, TypeInv, TypeOK, HandlersOK, HandlerOK
<1> QED BY <1>1, <1>2, <1>3, <1>4, <1>5 DEF Next, Serve

\* In every reachable state each row, each handler's locals and each response
\* keeps its shape (types.go), for any number of requests, steps and keys.
THEOREM TypeCorrect == Spec => []TypeOK
<1>1. Spec => []TypeInv
  BY InitTypeInv, NextTypeInv, PTL DEF Spec
<1>2. TypeInv => TypeOK
  BY DEF TypeInv
<1> QED BY <1>1, <1>2, PTL

-----------------------------------------------------------------------------
(* AllowIsBacked.  A response copies what a handler carried or a row said,  *)
(* so the invariant also has to say that these are backed.                 *)

RowBacked(row, s, al, ap) ==
    /\ row.decision = "allow" => s \in al
    /\ row.approval = "approved" => s \in ap

\* From the evaluation to the readback a gate carries its own decision; the
\* gate inside a resume may hand over a cached one.
HandlerBacked(q, al, ap) ==
    q.dec = "allow" => /\ q.pc \in EvaluatedPcs => q.step \in al
                       /\ q.pc = "resumeCount" => q.step \in al \cup ap

RowsBacked == \A s \in Steps : RowBacked(steps[s], s, allowed, approved)
HandlersBacked == \A p \in Procs : HandlerBacked(proc[p], allowed, approved)
BackedInv == TypeInv /\ RowsBacked /\ HandlersBacked /\ AllowIsBacked

Grow == allowed \subseteq allowed' /\ approved \subseteq approved'

\* The inductive invariant holds before the first request.
LEMMA InitBacked == Init => BackedInv
<1> SUFFICES ASSUME Init PROVE BackedInv
  OBVIOUS
<1>1. RowsBacked
  BY DEF Init, RowsBacked, RowBacked, NoRow
<1>2. HandlersBacked /\ AllowIsBacked
  BY DEF Init, HandlersBacked, HandlerBacked, AllowIsBacked, IdleHandler, NoResponse
<1> QED BY <1>1, <1>2, InitTypeInv DEF BackedInv

\* An answer that is backed, or going on with backed locals, keeps every slot backed.
LEMMA ReturnBacked ==
    ASSUME BackedInv, Grow, NEW p \in Procs, NEW r \in Responses, Return(p, r),
           r.dec = "allow" => r.step \in allowed' \cup approved'
    PROVE  HandlersBacked' /\ AllowIsBacked'
<1>1. proc \in [Procs -> Handlers] /\ resp \in [Procs -> Responses]
  BY DEF BackedInv, TypeInv, TypeOK
<1>2. HandlersBacked'
  BY <1>1 DEF Return, Grow, BackedInv, HandlersBacked, HandlerBacked, IdleHandler
<1>3. AllowIsBacked'
  BY <1>1 DEF Return, Grow, BackedInv, AllowIsBacked
<1> QED BY <1>2, <1>3

\* Going on with backed locals.
LEMMA ProceedBacked ==
    ASSUME BackedInv, Grow, NEW p \in Procs, NEW q \in Handlers, Proceed(p, q),
           HandlerBacked(q, allowed', approved')
    PROVE  HandlersBacked' /\ AllowIsBacked'
<1>1. proc \in [Procs -> Handlers] /\ resp \in [Procs -> Responses]
  BY DEF BackedInv, TypeInv, TypeOK
<1>2. HandlersBacked'
  BY <1>1 DEF Proceed, Grow, BackedInv, HandlersBacked, HandlerBacked
<1>3. AllowIsBacked'
  BY <1>1 DEF Proceed, Grow, BackedInv, AllowIsBacked
<1> QED BY <1>2, <1>3

\* An error, a mismatch or a bare success carries no decision.
LEMMA ErrorBacked ==
    ASSUME BackedInv, Grow, NEW p \in Procs, Error(p) \/ Ok(p) \/ KeyMismatch(p)
    PROVE  HandlersBacked' /\ AllowIsBacked'
<1>1. /\ [NoResponse EXCEPT !.out = "error"] \in Responses
      /\ [NoResponse EXCEPT !.out = "ok"] \in Responses
      /\ [NoResponse EXCEPT !.op = proc[p].op, !.out = "mismatch"] \in Responses
  BY DEF NoResponse, Responses, HandlerOps, BackedInv, TypeInv, TypeOK, Handlers
<1>2. /\ [NoResponse EXCEPT !.out = "error"].dec # "allow"
      /\ [NoResponse EXCEPT !.out = "ok"].dec # "allow"
      /\ [NoResponse EXCEPT !.op = proc[p].op, !.out = "mismatch"].dec # "allow"
  BY DEF NoResponse
<1> QED BY <1>1, <1>2, ReturnBacked DEF Error, Ok, KeyMismatch

\* An answer with a backed decision.
LEMMA DecidedBacked ==
    ASSUME BackedInv, Grow, NEW p \in Procs, NEW d \in Decisions \cup {NoDecision}, Decided(p, d),
           d = "allow" => proc[p].step \in allowed' \cup approved'
    PROVE  HandlersBacked' /\ AllowIsBacked'
<1> DEFINE r == [op |-> proc[p].op, out |-> "ok", step |-> proc[p].step, dec |-> d]
<1>1. r \in Responses
  BY DEF Responses, BackedInv, TypeInv, TypeOK, Handlers
<1>2. r.dec = "allow" => r.step \in allowed' \cup approved'
  OBVIOUS
<1>3. Return(p, r)
  BY DEF Decided
<1> QED BY <1>1, <1>2, <1>3, ReturnBacked

\* A jump to a pc before the evaluation, or between pcs after it, changes no
\* decision a handler carries.
LEMMA GotoBacked ==
    ASSUME BackedInv, Grow, NEW p \in Procs, NEW c \in HandlerPcs, Goto(p, c),
           c \in EvaluatedPcs => proc[p].pc \in EvaluatedPcs, c # "resumeCount"
    PROVE  HandlersBacked' /\ AllowIsBacked'
<1>1. proc[p] \in Handlers /\ [proc[p] EXCEPT !.pc = c] \in Handlers
  BY DEF BackedInv, TypeInv, TypeOK, Handlers
<1>2. HandlerBacked([proc[p] EXCEPT !.pc = c], allowed', approved')
  BY <1>1 DEF BackedInv, HandlersBacked, HandlerBacked, Handlers, Grow
<1> QED BY <1>1, <1>2, ProceedBacked DEF Goto

\* A gate that answers a backed decision, to its caller or to its resume.
LEMMA GateAnswerBacked ==
    ASSUME BackedInv, Grow, NEW p \in Procs, NEW d \in Decisions \cup {NoDecision}, GateAnswer(p, d),
           d = "allow" => proc[p].step \in allowed' \cup approved'
    PROVE  HandlersBacked' /\ AllowIsBacked'
<1>1. CASE proc[p].op = "resume"
  <2> DEFINE q == [proc[p] EXCEPT !.pc = "resumeCount", !.dec = d]
  <2>1. proc[p] \in Handlers /\ q \in Handlers
    BY SetDec DEF BackedInv, TypeInv, TypeOK, HandlerPcs
  <2>2. q.dec = d /\ q.step = proc[p].step /\ q.pc = "resumeCount"
    BY <2>1 DEF Handlers
  <2>3. HandlerBacked(q, allowed', approved')
    BY <2>2 DEF HandlerBacked, EvaluatedPcs
  <2>4. Proceed(p, q)
    BY <1>1 DEF GateAnswer
  <2> QED BY <2>1, <2>3, <2>4, ProceedBacked
<1>2. CASE proc[p].op # "resume"
  BY <1>2, DecidedBacked DEF GateAnswer
<1> QED BY <1>1, <1>2

\* A cached answer allows a step only if its row was allowed or approved.
LEMMA CachedBacked ==
    ASSUME BackedInv, NEW s \in Steps, CachedDecision(steps[s]) = "allow"
    PROVE  s \in allowed \cup approved
  BY DEF CachedDecision, BackedInv, RowsBacked, RowBacked

\* StepGate's read: an evaluation that allows is recorded in the history.
LEMMA GateBacked ==
    ASSUME BackedInv, NEW p \in Procs, ReadStepForGate(p)
    PROVE  RowsBacked' /\ HandlersBacked' /\ AllowIsBacked'
<1>0. /\ proc[p] \in Handlers /\ proc[p].step \in Steps /\ steps' = steps
      /\ TypeInv
  BY HandlerStep DEF ReadStepForGate, BackedInv, TypeInv, TypeOK, rows, StepOps
<1>1. CASE UNCHANGED ghosts /\ (Error(p) \/ KeyMismatch(p) \/ Goto(p, "bump"))
  <2>1. Grow /\ RowsBacked'
    BY <1>0, <1>1 DEF ghosts, Grow, BackedInv, RowsBacked
  <2> QED BY <1>1, <2>1, ErrorBacked, GotoBacked DEF HandlerPcs, EvaluatedPcs
<1>2. CASE Evaluate(p)
  <2> DEFINE c(d) == IF EvalTier /\ d = "require_approval" /\ proc[p].mode # "override"
                     THEN "count" ELSE "add"
  <2>1. PICK d \in Decisions :
           /\ Proceed(p, [proc[p] EXCEPT !.dec = d, !.pc = c(d)])
           /\ allowed' = IF d = "allow" THEN allowed \cup {proc[p].step} ELSE allowed
    BY <1>2 DEF Evaluate
  <2>2. c(d) \in {"count", "add"}
    OBVIOUS
  <2> DEFINE q == [proc[p] EXCEPT !.dec = d, !.pc = c(d)]
  <2> HIDE DEF c
  <2>3. q \in Handlers
    BY <1>0, <2>2, SetEvaluated DEF HandlerPcs
  <2>4. q.dec = d /\ q.step = proc[p].step /\ q.pc = c(d)
    BY <1>0 DEF Handlers
  <2>5. HandlerBacked(q, allowed', approved')
    BY <2>1, <2>2, <2>4 DEF HandlerBacked
  <2>6. Grow
    BY <1>2, <2>1 DEF Evaluate, Grow
  <2>7. RowsBacked'
    BY <1>0, <2>6 DEF Grow, BackedInv, RowsBacked, RowBacked
  <2> QED BY <2>1, <2>3, <2>5, <2>6, <2>7, ProceedBacked
<1> QED BY <1>1, <1>2 DEF ReadStepForGate

\* The other reads change no row and take over no decision but the cached one.
LEMMA ReadBacked ==
    ASSUME BackedInv, NEW p \in Procs, Read(p)
    PROVE  RowsBacked' /\ HandlersBacked' /\ AllowIsBacked'
<1>0. proc[p] \in Handlers /\ TypeInv
  BY DEF BackedInv, TypeInv, TypeOK
<1>1. CASE ReadStepForGate(p)
  BY <1>1, GateBacked
<1>2. CASE ~ReadStepForGate(p)
  <2>0. Grow /\ RowsBacked'
    BY <1>2 DEF Read, ReadWorkflow, ReadSteps, ReadStepForReview, ReadStepForCompletion,
       ReadCheckpoint, CountPendingApprovals, ReadBack, rows, ghosts, Grow, BackedInv, RowsBacked
  <2>1. CASE Error(p) \/ KeyMismatch(p)
    BY <2>0, <2>1, ErrorBacked
  <2>2. CASE ReadWorkflow(p) /\ ~Error(p)
    <3> DEFINE c == AfterWorkflowRead(proc[p].op)
               q == [proc[p] EXCEPT !.pc = c, !.status = wf.status, !.idx = wf.cur + 1]
    <3>1. Proceed(p, q) /\ proc[p].pc = "workflow"
      BY <2>2 DEF ReadWorkflow
    <3>2. c \in {"steps", "row", "write", "checkpoint"}
      BY <1>0, <3>1 DEF AfterWorkflowRead, TypeInv, HandlersOK, HandlerOK, AllOps
    <3> HIDE DEF c
    <3>3. c \in HandlerPcs /\ wf.status \in Statuses /\ wf.cur + 1 \in Nat
      BY <1>0, <3>2 DEF TypeInv, TypeOK, HandlerPcs
    <3>4. q \in Handlers
      BY <1>0, <3>3, SetRead
    <3>5. q.pc = c
      BY <1>0 DEF Handlers
    <3>6. HandlerBacked(q, allowed', approved')
      BY <3>2, <3>5 DEF HandlerBacked, EvaluatedPcs
    <3> QED BY <2>0, <3>1, <3>4, <3>6, ProceedBacked
  <2>3. CASE ReadSteps(p) /\ (Goto(p, "write") \/ Goto(p, "row"))
    BY <2>0, <2>3, GotoBacked DEF HandlerPcs, EvaluatedPcs
  <2>4. ASSUME NEW l \in LastSteps,
               Proceed(p, [proc[p] EXCEPT !.pc = "row",
                                          !.hold = IsPending(steps[l]) /\ l # proc[p].step])
        PROVE  HandlersBacked' /\ AllowIsBacked'
    <3> DEFINE h == IsPending(steps[l]) /\ l # proc[p].step
               q == [proc[p] EXCEPT !.pc = "row", !.hold = h]
    <3>1. h \in BOOLEAN
      BY DEF IsPending
    <3>2. Proceed(p, q)
      BY <2>4
    <3> HIDE DEF h
    <3>3. q \in Handlers
      BY <1>0, <3>1, SetHold DEF HandlerPcs
    <3>5. q.pc = "row"
      BY <1>0 DEF Handlers
    <3>4. HandlerBacked(q, allowed', approved')
      BY <3>5 DEF HandlerBacked, EvaluatedPcs
    <3> QED BY <2>0, <3>2, <3>3, <3>4, ProceedBacked
  <2>5. CASE ReadStepForReview(p) \/ ReadStepForCompletion(p)
    BY <2>0, <2>1, <2>5, GotoBacked
    DEF ReadStepForReview, ReadStepForCompletion, HandlerPcs, EvaluatedPcs
  <2>6. CASE ReadCheckpoint(p) /\ ~Error(p)
    <3> DEFINE c == IF proc[p].status = "aborted" THEN "reset" ELSE "workflow"
    <3>1. PICK s \in Steps \cup {NoStep} :
             /\ s \in Steps \/ (s = proc[p].step /\ proc[p].op = "resumeAt")
             /\ Proceed(p, [proc[p] EXCEPT !.op = "resume", !.step = s,
                                           !.mode = "reevaluate", !.pc = c])
      BY <1>0, <2>6 DEF ReadCheckpoint, LastCheckpoints, TypeInv, TypeOK, Handlers, HandlersOK, HandlerOK
    <3>2. s \in Steps
      BY <1>0, <3>1 DEF TypeInv, HandlersOK, HandlerOK, StepOps
    <3> DEFINE q == [proc[p] EXCEPT !.op = "resume", !.step = s, !.mode = "reevaluate", !.pc = c]
    <3>3. c \in {"reset", "workflow"}
      OBVIOUS
    <3> HIDE DEF c
    <3>4. q \in Handlers
      BY <1>0, <3>2, <3>3, SetResume DEF HandlerPcs
    <3>6. q.pc = c
      BY <1>0 DEF Handlers
    <3>5. HandlerBacked(q, allowed', approved')
      BY <3>3, <3>6 DEF HandlerBacked, EvaluatedPcs
    <3> QED BY <2>0, <3>1, <3>4, <3>5, ProceedBacked
  <2>7. CASE CountPendingApprovals(p)
    <3>1. Goto(p, "add") \/ Goto(p, "enqueue")
      BY <2>7 DEF CountPendingApprovals
    <3> QED BY <2>0, <2>7, <3>1, GotoBacked DEF CountPendingApprovals, HandlerPcs, EvaluatedPcs
  <2>8. CASE ReadBack(p)
    <3>1. proc[p].step \in Steps /\ steps[proc[p].step] \in Rows
      BY <1>0, <2>8, HandlerStep DEF ReadBack, GatePcs, EvaluatedPcs
    <3>2. CASE GateAnswer(p, CachedDecision(steps[proc[p].step]))
      BY <2>0, <3>1, <3>2, CachedDecisionType, CachedBacked, GateAnswerBacked DEF Grow
    <3>3. CASE Goto(p, "saveCheckpoint")
      BY <2>0, <2>8, <3>3, GotoBacked DEF ReadBack, HandlerPcs, EvaluatedPcs
    <3> QED BY <2>8, <3>2, <3>3 DEF ReadBack
  <2>9. CASE ReadSteps(p)
    BY <2>0, <2>1, <2>3, <2>4, <2>9 DEF ReadSteps
  <2> QED BY <1>2, <2>0, <2>1, <2>2, <2>5, <2>6, <2>7, <2>8, <2>9 DEF Read
<1> QED BY <1>1, <1>2

\* The writes: a row says allow or approved only after the history does.
LEMMA WriteBacked ==
    ASSUME BackedInv, NEW p \in Procs, Write(p)
    PROVE  RowsBacked' /\ HandlersBacked' /\ AllowIsBacked'
<1>0. proc[p] \in Handlers /\ TypeInv /\ steps \in [Steps -> Rows]
  BY DEF BackedInv, TypeInv, TypeOK
<1>1. Grow
  BY DEF Write, EnqueueApproval, BumpGateCountCached, AddStep, UpdateCurrentStepIndex,
     CreateCheckpoint, ResetStatus, IncrementResumeCount, ApproveStep, RejectStep, AbortRejected,
     CompleteWorkflow, AbortWorkflow, FailWorkflow, FinaliseWorkflow, MarkStepCompleted,
     ghosts, Grow
<1>2. CASE BumpGateCountCached(p)
  <2>1. proc[p].step \in Steps /\ steps[proc[p].step] \in Rows
    BY <1>0, <1>2, HandlerStep DEF BumpGateCountCached, GatePcs
  <2>2. HandlersBacked' /\ AllowIsBacked'
    BY <1>1, <1>2, <2>1, CachedDecisionType, CachedBacked, DecidedBacked
    DEF BumpGateCountCached, Grow
  <2>3. RowsBacked'
    BY <1>0, <1>2, <2>1 DEF BumpGateCountCached, BumpedRow, BackedInv, RowsBacked, RowBacked,
       Rows, ghosts
  <2> QED BY <2>2, <2>3
<1>3. CASE AddStep(p)
  <2>1. proc[p].step \in Steps
    BY <1>0, <1>3, HandlerStep DEF AddStep, GatePcs, EvaluatedPcs
  <2>2. HandlersBacked' /\ AllowIsBacked'
    BY <1>1, <1>3, GotoBacked DEF AddStep, HandlerPcs, EvaluatedPcs
  <2>3. RowBacked(AddStepRow(steps[proc[p].step], proc[p]), proc[p].step, allowed, approved)
    BY <1>3 DEF AddStep, AddStepRow, GatedApproval, RowBacked, BackedInv, HandlersBacked,
       HandlerBacked, EvaluatedPcs
  <2>4. RowsBacked'
    BY <1>0, <1>3, <2>1, <2>3 DEF AddStep, BackedInv, RowsBacked, ghosts
  <2> QED BY <2>2, <2>4
<1>4. CASE ApproveStep(p)
  <2>1. proc[p].step \in Steps /\ steps[proc[p].step] \in Rows
    BY <1>0, <1>4, HandlerStep DEF ApproveStep, StepOps
  <2>2. RowsBacked'
    BY <1>0, <1>4, <2>1 DEF ApproveStep, BackedInv, RowsBacked, RowBacked, Rows
  <2> QED BY <1>1, <1>4, <2>2, ErrorBacked DEF ApproveStep
<1>5. CASE RejectStep(p)
  <2>1. proc[p].step \in Steps /\ steps[proc[p].step] \in Rows
    BY <1>0, <1>5, HandlerStep DEF RejectStep, StepOps
  <2>2. RowsBacked'
    BY <1>0, <1>5, <2>1 DEF RejectStep, BackedInv, RowsBacked, RowBacked, Rows, ghosts
  <2> QED BY <1>1, <1>5, <2>2, GotoBacked DEF RejectStep, HandlerPcs, EvaluatedPcs
<1>6. CASE MarkStepCompleted(p)
  <2>1. proc[p].step \in Steps /\ steps[proc[p].step] \in Rows
    BY <1>0, <1>6, HandlerStep DEF MarkStepCompleted, StepOps
  <2>2. ASSUME UNCHANGED steps PROVE RowsBacked'
    BY <1>6, <2>2 DEF MarkStepCompleted, BackedInv, RowsBacked, ghosts
  <2>3. ASSUME steps' = [steps EXCEPT ![proc[p].step].completions = @ + 1] PROVE RowsBacked'
    BY <1>0, <1>6, <2>1, <2>3 DEF MarkStepCompleted, BackedInv, RowsBacked, RowBacked, Rows, ghosts
  <2> QED BY <1>1, <1>6, <2>2, <2>3, ErrorBacked DEF MarkStepCompleted
<1>7. CASE UpdateCurrentStepIndex(p) \/ ResetStatus(p)
  <2>1. RowsBacked'
    BY <1>7 DEF UpdateCurrentStepIndex, ResetStatus, BackedInv, RowsBacked, ghosts
  <2> QED BY <1>1, <1>7, <2>1, GotoBacked
          DEF UpdateCurrentStepIndex, ResetStatus, HandlerPcs, EvaluatedPcs
<1>10. CASE EnqueueApproval(p)
  <2>1. RowsBacked'
    BY <1>10 DEF EnqueueApproval, BackedInv, RowsBacked, rows, ghosts
  <2>2. HandlerBacked(proc'[p], allowed', approved')
    BY <1>0, <1>1, <1>10, EnqueueFields DEF BackedInv, HandlersBacked, HandlerBacked, EvaluatedPcs, Grow
  <2> QED BY <1>0, <1>1, <1>10, <2>1, <2>2, EnqueueFields, ProceedBacked
<1>8. CASE CreateCheckpoint(p) \/ IncrementResumeCount(p)
  <2>1. RowsBacked'
    BY <1>8 DEF CreateCheckpoint, IncrementResumeCount, BackedInv, RowsBacked, ghosts
  <2>2. /\ proc[p].dec \in Decisions \cup {NoDecision}
        /\ proc[p].dec = "allow" => proc[p].step \in allowed' \cup approved'
    BY <1>0, <1>1, <1>8 DEF CreateCheckpoint, IncrementResumeCount, BackedInv, HandlersBacked,
       HandlerBacked, EvaluatedPcs, Handlers, Grow
  <2> QED BY <1>1, <1>8, <2>1, <2>2, GateAnswerBacked, DecidedBacked
          DEF CreateCheckpoint, IncrementResumeCount
<1>9. CASE AbortRejected(p) \/ CompleteWorkflow(p) \/ AbortWorkflow(p) \/ FailWorkflow(p)
  <2>1. Ok(p) /\ UNCHANGED <<steps, ghosts>>
    BY <1>9 DEF AbortRejected, CompleteWorkflow, AbortWorkflow, FailWorkflow, FinaliseWorkflow
  <2> QED BY <1>1, <2>1, ErrorBacked DEF BackedInv, RowsBacked, ghosts
<1> QED BY <1>2, <1>3, <1>4, <1>5, <1>6, <1>7, <1>8, <1>9, <1>10 DEF Write

\* A failed statement hands out nothing that the handler did not already carry.
LEMMA FaultBacked ==
    ASSUME BackedInv, NEW p \in Procs, Fault(p)
    PROVE  RowsBacked' /\ HandlersBacked' /\ AllowIsBacked'
<1>0. proc[p] \in Handlers /\ TypeInv
  BY DEF BackedInv, TypeInv, TypeOK
<1>1. Grow /\ RowsBacked'
  BY DEF Fault, StatementFails, BestEffortFails, rows, ghosts, Grow, BackedInv, RowsBacked
<1>2. CASE Error(p) \/ Ok(p)
  BY <1>1, <1>2, ErrorBacked
<1>3. CASE proc[p].pc \in DOMAIN BestEffort /\ Goto(p, BestEffort[proc[p].pc])
  <2>1. proc[p].pc \in EvaluatedPcs /\ BestEffort[proc[p].pc] \in {"add", "readback"}
    BY <1>3 DEF BestEffort, EvaluatedPcs
  <2> QED BY <1>1, <1>3, <2>1, GotoBacked DEF HandlerPcs
<1>4. CASE /\ proc[p].pc \in {"saveCheckpoint", "resumeCount"}
           /\ GateAnswer(p, proc[p].dec) \/ Decided(p, proc[p].dec)
  <2>1. /\ proc[p].dec \in Decisions \cup {NoDecision}
        /\ proc[p].dec = "allow" => proc[p].step \in allowed' \cup approved'
    BY <1>0, <1>1, <1>4 DEF BackedInv, HandlersBacked, HandlerBacked, EvaluatedPcs, Handlers, Grow
  <2> QED BY <1>1, <1>4, <2>1, GateAnswerBacked, DecidedBacked
<1> QED BY <1>2, <1>3, <1>4 DEF Fault, StatementFails, BestEffortFails

\* A new request carries no decision.
LEMMA CallBacked ==
    ASSUME BackedInv, NEW p \in Procs, Call(p)
    PROVE  RowsBacked' /\ HandlersBacked' /\ AllowIsBacked'
<1>1. PICK r \in Requests : Proceed(p, NewHandler(r))
  BY DEF Call
<1>2. /\ r.op \in AllOps /\ r.step \in Steps \cup {NoStep} /\ r.key \in Keys \cup {NoKey}
      /\ r.mode \in AllModes /\ r.mine \in BOOLEAN
  BY InputsAssumption DEF Requests
<1>3. NewHandler(r) \in Handlers
  BY <1>2 DEF NewHandler, Handlers, HandlerPcs, HandlerOps
<1>4. HandlerBacked(NewHandler(r), allowed', approved')
  BY DEF NewHandler, HandlerBacked
<1>5. Grow /\ RowsBacked'
  BY DEF Call, rows, ghosts, Grow, BackedInv, RowsBacked
<1> QED BY <1>1, <1>3, <1>4, <1>5, ProceedBacked

\* The sweep only ever takes an approval away.
LEMMA SweepBacked ==
    ASSUME BackedInv, Sweep \/ SweepStatementFails \/ SweepDies
    PROVE  RowsBacked' /\ HandlersBacked' /\ AllowIsBacked'
<1>1. UNCHANGED <<proc, resp, ghosts>>
  BY DEF Sweep, SweepExpire, SweepStep, SweepAbort, SweepStatementFails, SweepDies
<1>2. HandlersBacked' /\ AllowIsBacked'
  BY <1>1 DEF BackedInv, HandlersBacked, AllowIsBacked, ghosts
<1>3. CASE SweepStep
  <2>1. PICK s \in Steps : steps' = [steps EXCEPT ![s] = ExpiredRow(@)]
    BY <1>3 DEF SweepStep
  <2>2. steps \in [Steps -> Rows]
    BY DEF BackedInv, TypeInv, TypeOK
  <2>3. RowBacked(ExpiredRow(steps[s]), s, allowed, approved)
    BY <2>2 DEF ExpiredRow, BackedInv, RowsBacked, RowBacked, Rows
  <2>4. RowsBacked'
    BY <1>1, <2>1, <2>2, <2>3 DEF BackedInv, RowsBacked, ghosts
  <2> QED BY <1>2, <2>4
<1>4. CASE ~SweepStep
  <2>1. UNCHANGED steps
    BY <1>4 DEF Sweep, SweepExpire, SweepAbort, SweepStatementFails, SweepDies, rows
  <2> QED BY <1>1, <1>2, <2>1 DEF BackedInv, RowsBacked, ghosts
<1> QED BY <1>3, <1>4

\* Every step preserves the invariant behind AllowIsBacked.
LEMMA NextBacked == BackedInv /\ [Next]_vars => BackedInv'
<1> SUFFICES ASSUME BackedInv, [Next]_vars PROVE BackedInv'
  OBVIOUS
<1>1. TypeInv'
  BY NextTypeInv DEF BackedInv
<1>2. CASE \E p \in Procs : Call(p) \/ Read(p) \/ Write(p) \/ Fault(p)
  BY <1>1, <1>2, CallBacked, ReadBacked, WriteBacked, FaultBacked DEF BackedInv
<1>3. CASE Sweep \/ SweepStatementFails \/ SweepDies
  BY <1>1, <1>3, SweepBacked DEF BackedInv
<1>4. CASE UNCHANGED vars
  BY <1>1, <1>4 DEF vars, BackedInv, RowsBacked, HandlersBacked, AllowIsBacked
<1> QED BY <1>2, <1>3, <1>4 DEF Next, Serve, Done

\* StepGate, the cached path and resume never answer "allow" for a step that no
\* evaluation allowed and no reviewer approved, for any number of concurrent
\* requests, any interleaving with the expiry sweep and any failed statement.
THEOREM AllowBacked == Spec => []AllowIsBacked
<1>1. Spec => []BackedInv
  BY InitBacked, NextBacked, PTL DEF Spec
<1>2. BackedInv => AllowIsBacked
  BY DEF BackedInv
<1> QED BY <1>1, <1>2, PTL

-----------------------------------------------------------------------------
(* Action properties.                                                      *)

\* No statement moves the cursor back.
LEMMA CursorStep == TypeInv /\ [Next]_vars => (wf'.cur >= wf.cur)
<1> SUFFICES ASSUME TypeInv, [Next]_vars PROVE wf'.cur >= wf.cur
  OBVIOUS
<1>0. wf \in [status: Statuses, cur: Nat, total: Nat \cup {NoTotal}]
  BY DEF TypeInv, TypeOK
<1>1. CASE UNCHANGED wf
  BY <1>0, <1>1
<1>2. ASSUME NEW p \in Procs, UpdateCurrentStepIndex(p) PROVE wf'.cur >= wf.cur
  <2>1. proc[p].idx \in Nat
    BY DEF TypeInv, TypeOK, Handlers
  <2> QED BY <1>0, <1>2, <2>1 DEF UpdateCurrentStepIndex, AdvancedCursor
<1>3. ASSUME NEW p \in Procs,
             AbortRejected(p) \/ CompleteWorkflow(p) \/ AbortWorkflow(p) \/ FailWorkflow(p)
      PROVE  wf'.cur >= wf.cur
  <2>1. PICK st \in Statuses : wf' = Finalised(wf, st)
    BY <1>3 DEF AbortRejected, CompleteWorkflow, AbortWorkflow, FailWorkflow, FinaliseWorkflow
  <2> QED BY <1>0, <2>1 DEF Finalised
<1>4. ASSUME NEW p \in Procs, ResetStatus(p) PROVE wf'.cur >= wf.cur
  BY <1>0, <1>4 DEF ResetStatus
<1>5. CASE SweepAbort
  BY <1>0, <1>5 DEF SweepAbort
<1>6. ASSUME NEW p \in Procs, Call(p) \/ Read(p) \/ Fault(p) PROVE wf'.cur >= wf.cur
  BY <1>1, <1>6 DEF Call, Read, Fault, ReadWorkflow, ReadSteps, ReadStepForReview,
     ReadStepForCompletion, ReadStepForGate, ReadCheckpoint, CountPendingApprovals, ReadBack,
     StatementFails, BestEffortFails, rows
<1>7. ASSUME NEW p \in Procs, Write(p) PROVE wf'.cur >= wf.cur
  BY <1>1, <1>2, <1>3, <1>4, <1>7 DEF Write, EnqueueApproval, BumpGateCountCached, AddStep,
     CreateCheckpoint, IncrementResumeCount, ApproveStep, RejectStep, MarkStepCompleted, rows
<1>8. CASE Sweep \/ SweepStatementFails \/ SweepDies
  BY <1>1, <1>5, <1>8 DEF Sweep, SweepExpire, SweepStep, SweepStatementFails, SweepDies, rows
<1>9. CASE Done \/ UNCHANGED vars
  BY <1>1, <1>9 DEF Done, vars
<1> QED BY <1>6, <1>7, <1>8, <1>9 DEF Next, Serve

\* current_step_index never moves back (the WHERE clause of the UPDATE in
\* AddStep), although handlers compute it from reads that may be stale.
THEOREM CursorMonotone == Spec => CursorNeverRetreats
<1>1. Spec => []TypeInv
  BY InitTypeInv, NextTypeInv, PTL DEF Spec
<1> QED BY <1>1, CursorStep, PTL DEF Spec, CursorNeverRetreats

\* No statement replaces a key.
LEMMA KeyStep ==
    TypeInv /\ [Next]_vars => \A s \in Steps : steps[s].key # NoKey => steps'[s].key = steps[s].key
<1> SUFFICES ASSUME TypeInv, [Next]_vars, NEW s \in Steps, steps[s].key # NoKey
             PROVE  steps'[s].key = steps[s].key
  OBVIOUS
<1>0. steps \in [Steps -> Rows] /\ steps[s] \in Rows
  BY DEF TypeInv, TypeOK
<1>1. CASE UNCHANGED steps
  BY <1>1
<1>2. ASSUME NEW p \in Procs, AddStep(p) PROVE steps'[s].key = steps[s].key
  BY <1>0, <1>2 DEF AddStep, AddStepRow, GatedKey
<1>3. ASSUME NEW p \in Procs, BumpGateCountCached(p) PROVE steps'[s].key = steps[s].key
  BY <1>0, <1>3 DEF BumpGateCountCached, BumpedRow, Rows
<1>4. ASSUME NEW p \in Procs, ApproveStep(p) \/ RejectStep(p) PROVE steps'[s].key = steps[s].key
  BY <1>0, <1>4 DEF ApproveStep, RejectStep, Rows
<1>5. ASSUME NEW p \in Procs, MarkStepCompleted(p) PROVE steps'[s].key = steps[s].key
  <2>1. UNCHANGED steps \/ steps' = [steps EXCEPT ![proc[p].step].completions = @ + 1]
    BY <1>5 DEF MarkStepCompleted
  <2> QED BY <1>0, <1>1, <2>1 DEF Rows
<1>6. CASE SweepStep
  <2>1. PICK t \in Steps : steps' = [steps EXCEPT ![t] = ExpiredRow(@)]
    BY <1>6 DEF SweepStep
  <2> QED BY <1>0, <2>1 DEF ExpiredRow, Rows
<1>7. ASSUME NEW p \in Procs, Call(p) \/ Read(p) \/ Fault(p) PROVE steps'[s].key = steps[s].key
  BY <1>1, <1>7 DEF Call, Read, Fault, ReadWorkflow, ReadSteps, ReadStepForReview,
     ReadStepForCompletion, ReadStepForGate, ReadCheckpoint, CountPendingApprovals, ReadBack,
     StatementFails, BestEffortFails, rows
<1>8. ASSUME NEW p \in Procs, Write(p) PROVE steps'[s].key = steps[s].key
  BY <1>1, <1>2, <1>3, <1>4, <1>5, <1>8 DEF Write, EnqueueApproval, UpdateCurrentStepIndex,
     CreateCheckpoint, ResetStatus, IncrementResumeCount, AbortRejected, CompleteWorkflow,
     AbortWorkflow, FailWorkflow, FinaliseWorkflow, rows
<1>9. CASE Sweep \/ SweepStatementFails \/ SweepDies
  BY <1>1, <1>6, <1>9 DEF Sweep, SweepExpire, SweepAbort, SweepStatementFails, SweepDies, rows
<1>10. CASE Done \/ UNCHANGED vars
  BY <1>1, <1>10 DEF Done, vars
<1> QED BY <1>7, <1>8, <1>9, <1>10 DEF Next, Serve

\* The idempotency key a step was first gated with is never replaced, whatever
\* gates, completions and reviews race on the step (COALESCE in AddStep).
THEOREM KeyStable == Spec => KeyIsImmutable
<1>1. Spec => []TypeInv
  BY InitTypeInv, NextTypeInv, PTL DEF Spec
<1> QED BY <1>1, KeyStep, PTL DEF Spec, KeyIsImmutable

\* What the sweep writes leaves every settled approval and workflow as it was.
LEMMA SweepSettledStep ==
    TypeInv /\ [Next]_vars =>
       (sweep' # sweep =>
          /\ IsTerminal(wf.status) => wf'.status = wf.status
          /\ \A s \in Steps : steps[s].approval # "pending" => steps'[s] = steps[s])
<1> SUFFICES ASSUME TypeInv, [Next]_vars, sweep' # sweep
             PROVE  /\ IsTerminal(wf.status) => wf'.status = wf.status
                    /\ \A s \in Steps : steps[s].approval # "pending" => steps'[s] = steps[s]
  OBVIOUS
<1>0. steps \in [Steps -> Rows] /\ wf \in [status: Statuses, cur: Nat, total: Nat \cup {NoTotal}]
  BY DEF TypeInv, TypeOK
<1>1. ASSUME NEW p \in Procs, Call(p) \/ Read(p) \/ Fault(p) PROVE FALSE
  BY <1>1 DEF Call, Read, Fault, ReadWorkflow, ReadSteps, ReadStepForReview,
     ReadStepForCompletion, ReadStepForGate, ReadCheckpoint, CountPendingApprovals, ReadBack,
     StatementFails, BestEffortFails
<1>2. ASSUME NEW p \in Procs, Write(p) PROVE FALSE
  BY <1>2 DEF Write, EnqueueApproval, BumpGateCountCached, AddStep, UpdateCurrentStepIndex,
     CreateCheckpoint, ResetStatus, IncrementResumeCount, ApproveStep, RejectStep, AbortRejected,
     CompleteWorkflow, AbortWorkflow, FailWorkflow, FinaliseWorkflow, MarkStepCompleted
<1>3. CASE SweepExpire \/ SweepStatementFails \/ SweepDies
  BY <1>3 DEF SweepExpire, SweepStatementFails, SweepDies, rows
<1>4. CASE SweepStep
  <2>1. PICK t \in Steps : steps' = [steps EXCEPT ![t] = ExpiredRow(@)]
    BY <1>4 DEF SweepStep
  <2> QED BY <1>0, <1>4, <2>1 DEF SweepStep, ExpiredRow
<1>5. CASE SweepAbort
  BY <1>0, <1>5 DEF SweepAbort, SweptStatus
<1> QED BY <1>1, <1>2, <1>3, <1>4, <1>5 DEF Next, Serve, Sweep, Done, vars

\* The expiry goroutine never undoes a settled approval or a finished workflow,
\* however old the queue rows it works through (expireEvalApprovals).
THEOREM SweepSafe == Spec => SweepKeepsSettled
<1>1. Spec => []TypeInv
  BY InitTypeInv, NextTypeInv, PTL DEF Spec
<1> QED BY <1>1, SweepSettledStep, PTL DEF Spec, SweepKeepsSettled
-----------------------------------------------------------------------------
(* ResumesWereGated.  resume_count is written some statements after the    *)
(* gate that justifies it, so the invariant also counts the resumes whose   *)
(* gate is recorded and which have not counted themselves yet.             *)

AddedPcs == {"cursor", "readback", "saveCheckpoint"}

\* The handler is a resume of s that recorded its gate and may still count itself.
Owes(q, s) == q.op = "resume" /\ q.step = s /\ q.pc \in AddedPcs \cup {"resumeCount"}

Owing(s) == {p \in Procs : Owes(proc[p], s)}

\* A resume started from a checkpoint, only a resume counts itself, a gate past its
\* evaluation has a decision, and one past its upsert finds a counted row.
ResumeLocal(q, cs, st) ==
    /\ q.op = "resume" => cs[q.step].decision # NoDecision
    /\ q.pc = "resumeCount" => q.op = "resume"
    /\ q.pc \in EvaluatedPcs => q.dec # NoDecision
    /\ q.pc \in AddedPcs => st[q.step].gates > 0

ResumesLocal == \A p \in Procs : ResumeLocal(proc[p], cps, steps)

ResumesPaid ==
    \A s \in Steps : cps[s].decision # NoDecision
                        => cps[s].resumes + Cardinality(Owing(s)) < steps[s].gates

ResumeInv == TypeInv /\ ResumesLocal /\ ResumesPaid

\* Handlers in flight are finitely many, so those that owe a count are a number.
LEMMA OwingFinite ==
    ASSUME NEW s
    PROVE  IsFiniteSet(Owing(s)) /\ Cardinality(Owing(s)) \in Nat
<1>1. Owing(s) \subseteq Procs
  BY DEF Owing
<1> QED BY <1>1, RequestsAssumption, FS_Subset, FS_CardinalityType

\* Fewer of them after a step are not more.
LEMMA OwingShrinks ==
    ASSUME NEW s, Owing(s)' \subseteq Owing(s)
    PROVE  IsFiniteSet(Owing(s)') /\ Cardinality(Owing(s)') \in Nat
           /\ Cardinality(Owing(s)') <= Cardinality(Owing(s))
  BY OwingFinite, FS_Subset, FS_CardinalityType

\* One more counts one more.
LEMMA OwingGrows ==
    ASSUME NEW s, NEW p, Owing(s)' \subseteq Owing(s) \cup {p}
    PROVE  IsFiniteSet(Owing(s)') /\ Cardinality(Owing(s)') \in Nat
           /\ Cardinality(Owing(s)') <= Cardinality(Owing(s)) + 1
<1>1. IsFiniteSet(Owing(s)) /\ Cardinality(Owing(s)) \in Nat
  BY OwingFinite
<1>2. /\ IsFiniteSet(Owing(s) \cup {p})
      /\ \/ Cardinality(Owing(s) \cup {p}) = Cardinality(Owing(s))
         \/ Cardinality(Owing(s) \cup {p}) = Cardinality(Owing(s)) + 1
  BY <1>1, FS_AddElement
<1>3. /\ IsFiniteSet(Owing(s)') /\ Cardinality(Owing(s)') \in Nat
      /\ Cardinality(Owing(s)') <= Cardinality(Owing(s) \cup {p})
  BY <1>2, FS_Subset, FS_CardinalityType
<1> QED BY <1>1, <1>2, <1>3

\* A handler that counted itself is one less.
LEMMA OwingPaid ==
    ASSUME NEW s, NEW p \in Owing(s), Owing(s)' \subseteq Owing(s) \ {p}
    PROVE  IsFiniteSet(Owing(s)') /\ Cardinality(Owing(s)') \in Nat
           /\ Cardinality(Owing(s)') + 1 <= Cardinality(Owing(s))
<1>1. IsFiniteSet(Owing(s)) /\ Cardinality(Owing(s)) \in Nat
  BY OwingFinite
<1>2. /\ IsFiniteSet(Owing(s) \ {p})
      /\ Cardinality(Owing(s) \ {p}) = Cardinality(Owing(s)) - 1
  BY <1>1, FS_RemoveElement
<1>3. /\ IsFiniteSet(Owing(s)') /\ Cardinality(Owing(s)') \in Nat
      /\ Cardinality(Owing(s)') <= Cardinality(Owing(s) \ {p})
  BY <1>2, FS_Subset, FS_CardinalityType
<1> QED BY <1>1, <1>2, <1>3

\* Before the first request nothing was resumed.
LEMMA InitResume == Init => ResumeInv
<1> SUFFICES ASSUME Init PROVE ResumeInv
  OBVIOUS
<1>1. ResumesLocal
  BY DEF Init, ResumesLocal, ResumeLocal, IdleHandler, EvaluatedPcs, AddedPcs
<1>2. ResumesPaid
  BY DEF Init, ResumesPaid, NoCheckpoint
<1> QED BY <1>1, <1>2, InitTypeInv DEF ResumeInv

Counted == \A s \in Steps : steps'[s].gates >= steps[s].gates

\* A step that leaves the checkpoints alone and takes no gate back is harmless if the
\* handler that moves owes a count only if it did before.
LEMMA ResumeKept ==
    ASSUME ResumeInv, TypeInv', NEW p \in Procs, cps' = cps, Counted,
           proc' = [proc EXCEPT ![p] = proc'[p]],
           ResumeLocal(proc'[p], cps, steps),
           \A s \in Steps : Owes(proc'[p], s) => Owes(proc[p], s)
    PROVE  ResumeInv'
<1>0. /\ proc \in [Procs -> Handlers] /\ steps \in [Steps -> Rows] /\ cps \in [Steps -> Checkpoints]
      /\ steps' \in [Steps -> Rows] /\ proc' \in [Procs -> Handlers]
  BY DEF ResumeInv, TypeInv, TypeOK
<1>1. \A x \in Procs : ResumeLocal(proc'[x], cps, steps)
  BY <1>0 DEF ResumeInv, ResumesLocal
<1>2. \A x \in Procs : proc'[x].pc \in AddedPcs => proc'[x].step \in Steps
  <2> SUFFICES ASSUME NEW x \in Procs, proc'[x].pc \in AddedPcs PROVE proc'[x].step \in Steps
    OBVIOUS
  <2> QED BY DEF TypeInv, HandlersOK, HandlerOK, AddedPcs, GatePcs, EvaluatedPcs
<1>3. \A s \in Steps : steps[s].gates \in Nat /\ steps'[s].gates \in Nat /\ cps[s].resumes \in Nat
  BY <1>0 DEF Rows, Checkpoints
<1>4. ResumesLocal'
  <2> SUFFICES ASSUME NEW x \in Procs PROVE ResumeLocal(proc'[x], cps', steps')
    BY DEF ResumesLocal
  <2>1. proc'[x].pc \in AddedPcs => steps'[proc'[x].step].gates > 0
    BY <1>1, <1>2, <1>3 DEF ResumeLocal, Counted
  <2> QED BY <1>1, <2>1 DEF ResumeLocal
<1>5. ASSUME NEW s \in Steps PROVE Owing(s)' \subseteq Owing(s)
  BY <1>0 DEF Owing
<1>6. ASSUME NEW s \in Steps, cps'[s].decision # NoDecision
      PROVE  cps'[s].resumes + Cardinality(Owing(s)') < steps'[s].gates
  <2>1. cps[s].resumes + Cardinality(Owing(s)) < steps[s].gates
    BY <1>6 DEF ResumeInv, ResumesPaid
  <2>2. Cardinality(Owing(s)') \in Nat /\ Cardinality(Owing(s)') <= Cardinality(Owing(s))
    BY <1>5, OwingShrinks
  <2> QED BY <1>3, <2>1, <2>2, OwingFinite DEF Counted
<1>7. ResumesPaid'
  BY <1>6 DEF ResumesPaid
<1> QED BY <1>4, <1>7 DEF ResumeInv

\* A slot that becomes idle owes nothing.
LEMMA ReturnResume ==
    ASSUME ResumeInv, TypeInv', NEW p \in Procs, NEW r, Return(p, r), cps' = cps, Counted
    PROVE  ResumeInv'
<1>1. proc' = [proc EXCEPT ![p] = proc'[p]] /\ proc'[p] = IdleHandler
  BY DEF Return, ResumeInv, TypeInv, TypeOK
<1>2. ResumeLocal(proc'[p], cps, steps) /\ \A s \in Steps : ~Owes(proc'[p], s)
  BY <1>1 DEF ResumeLocal, Owes, IdleHandler, EvaluatedPcs, AddedPcs
<1> QED BY <1>1, <1>2, ResumeKept

\* Whatever it answers.
LEMMA EndResume ==
    ASSUME ResumeInv, TypeInv', NEW p \in Procs, cps' = cps, Counted,
           Error(p) \/ Ok(p) \/ KeyMismatch(p) \/ \E d : Decided(p, d)
    PROVE  ResumeInv'
  BY ReturnResume DEF Error, Ok, KeyMismatch, Decided

\* A jump changes the pc only.
LEMMA GotoFields ==
    ASSUME TypeInv, NEW p \in Procs, NEW c, Goto(p, c)
    PROVE  /\ proc' = [proc EXCEPT ![p] = proc'[p]]
           /\ proc'[p].pc = c /\ proc'[p].op = proc[p].op /\ proc'[p].step = proc[p].step
           /\ proc'[p].dec = proc[p].dec
  BY DEF Goto, Proceed, TypeInv, TypeOK, Handlers

\* A move that does not pass the upsert, the evaluation or the answer of a gate.
LEMMA MoveResume ==
    ASSUME ResumeInv, TypeInv', NEW p \in Procs, NEW c, cps' = cps, Counted,
           proc' = [proc EXCEPT ![p] = proc'[p]],
           proc'[p].pc = c, proc'[p].op = proc[p].op, proc'[p].step = proc[p].step,
           proc'[p].dec = proc[p].dec,
           c # "resumeCount",
           c \in EvaluatedPcs => proc[p].pc \in EvaluatedPcs,
           c \in AddedPcs => proc[p].pc \in AddedPcs
    PROVE  ResumeInv'
<1>1. /\ proc' = [proc EXCEPT ![p] = proc'[p]]
      /\ proc'[p].pc = c /\ proc'[p].op = proc[p].op /\ proc'[p].step = proc[p].step
      /\ proc'[p].dec = proc[p].dec
  OBVIOUS
<1>2. ResumeLocal(proc[p], cps, steps)
  BY DEF ResumeInv, ResumesLocal
<1>3. ResumeLocal(proc'[p], cps, steps)
  BY <1>1, <1>2 DEF ResumeLocal
<1>4. \A s \in Steps : Owes(proc'[p], s) => Owes(proc[p], s)
  BY <1>1 DEF Owes
<1> QED BY <1>1, <1>3, <1>4, ResumeKept

\* A jump of that kind.
LEMMA GotoResume ==
    ASSUME ResumeInv, TypeInv', NEW p \in Procs, NEW c, Goto(p, c), cps' = cps, Counted,
           c # "resumeCount",
           c \in EvaluatedPcs => proc[p].pc \in EvaluatedPcs,
           c \in AddedPcs => proc[p].pc \in AddedPcs
    PROVE  ResumeInv'
<1>1. /\ proc' = [proc EXCEPT ![p] = proc'[p]]
      /\ proc'[p].pc = c /\ proc'[p].op = proc[p].op /\ proc'[p].step = proc[p].step
      /\ proc'[p].dec = proc[p].dec
  BY GotoFields DEF ResumeInv
<1> QED BY <1>1, MoveResume

\* A gate past its upsert that answers: the resume around it still owes its count.
LEMMA GateAnswerResume ==
    ASSUME ResumeInv, TypeInv', NEW p \in Procs, NEW d, GateAnswer(p, d), cps' = cps, Counted,
           proc[p].pc \in AddedPcs
    PROVE  ResumeInv'
<1>1. CASE proc[p].op # "resume"
  BY <1>1, EndResume DEF GateAnswer
<1>2. CASE proc[p].op = "resume"
  <2>1. /\ proc' = [proc EXCEPT ![p] = proc'[p]]
        /\ proc'[p].pc = "resumeCount" /\ proc'[p].op = "resume" /\ proc'[p].step = proc[p].step
    <3>1. Proceed(p, [proc[p] EXCEPT !.pc = "resumeCount", !.dec = d])
      BY <1>2 DEF GateAnswer
    <3> QED BY <1>2, <3>1 DEF Proceed, ResumeInv, TypeInv, TypeOK, Handlers
  <2>2. ResumeLocal(proc[p], cps, steps)
    BY DEF ResumeInv, ResumesLocal
  <2>3. ResumeLocal(proc'[p], cps, steps)
    BY <1>2, <2>1, <2>2 DEF ResumeLocal, EvaluatedPcs, AddedPcs
  <2>4. \A s \in Steps : Owes(proc'[p], s) => Owes(proc[p], s)
    BY <1>2, <2>1 DEF Owes
  <2> QED BY <2>1, <2>3, <2>4, ResumeKept
<1> QED BY <1>1, <1>2

\* A new request is no resume yet.
LEMMA CallResume == ASSUME ResumeInv, TypeInv', NEW p \in Procs, Call(p) PROVE ResumeInv'
<1>1. PICK r \in Requests : proc' = [proc EXCEPT ![p] = NewHandler(r)]
  BY DEF Call, Proceed
<1>2. r.op \in AllOps
  BY InputsAssumption DEF Requests
<1>3. proc' = [proc EXCEPT ![p] = proc'[p]] /\ proc'[p] = NewHandler(r)
  BY <1>1 DEF ResumeInv, TypeInv, TypeOK
<1>4. proc'[p].pc = "workflow" /\ proc'[p].op # "resume"
  BY <1>2, <1>3 DEF NewHandler, AllOps
<1>5. ResumeLocal(proc'[p], cps, steps) /\ \A s \in Steps : ~Owes(proc'[p], s)
  BY <1>4 DEF ResumeLocal, Owes, EvaluatedPcs, AddedPcs
<1>6. cps' = cps /\ steps' = steps
  BY DEF Call, rows
<1>7. Counted
  BY <1>6 DEF Counted, ResumeInv, TypeInv, TypeOK, Rows
<1> QED BY <1>3, <1>5, <1>6, <1>7, ResumeKept

\* GetByID, before anything is evaluated.
LEMMA ReadWorkflowResume ==
    ASSUME ResumeInv, TypeInv', NEW p \in Procs, cps' = cps, Counted, ReadWorkflow(p)
    PROVE  ResumeInv'
<1>1. CASE Error(p)
  BY <1>1, EndResume
<1>2. CASE ~Error(p)
  <2> DEFINE c == AfterWorkflowRead(proc[p].op)
  <2>1. /\ Proceed(p, [proc[p] EXCEPT !.pc = c, !.status = wf.status, !.idx = wf.cur + 1])
        /\ proc[p].pc = "workflow"
    BY <1>2 DEF ReadWorkflow
  <2>2. c \in {"steps", "row", "write", "checkpoint"}
    BY <2>1 DEF AfterWorkflowRead, ResumeInv, TypeInv, HandlersOK, HandlerOK, AllOps
  <2> HIDE DEF c
  <2>3. /\ proc' = [proc EXCEPT ![p] = proc'[p]]
        /\ proc'[p].pc = c /\ proc'[p].op = proc[p].op /\ proc'[p].step = proc[p].step
    BY <2>1 DEF Proceed, ResumeInv, TypeInv, TypeOK, Handlers
  <2>4. ResumeLocal(proc[p], cps, steps)
    BY DEF ResumeInv, ResumesLocal
  <2>5. ResumeLocal(proc'[p], cps, steps)
    BY <2>2, <2>3, <2>4 DEF ResumeLocal, EvaluatedPcs, AddedPcs
  <2>6. \A s \in Steps : ~Owes(proc'[p], s)
    BY <2>2, <2>3 DEF Owes, AddedPcs
  <2> QED BY <2>3, <2>5, <2>6, ResumeKept
<1> QED BY <1>1, <1>2

\* The second statement of GetByID.
LEMMA ReadStepsResume ==
    ASSUME ResumeInv, TypeInv', NEW p \in Procs, cps' = cps, Counted, ReadSteps(p)
    PROVE  ResumeInv'
<1>1. CASE Error(p) \/ Goto(p, "write") \/ Goto(p, "row")
  BY <1>1, EndResume, GotoResume DEF EvaluatedPcs, AddedPcs
<1>2. ASSUME NEW l \in LastSteps,
             Proceed(p, [proc[p] EXCEPT !.pc = "row",
                                        !.hold = IsPending(steps[l]) /\ l # proc[p].step])
      PROVE  ResumeInv'
  <2>3. /\ proc' = [proc EXCEPT ![p] = proc'[p]]
        /\ proc'[p].pc = "row" /\ proc'[p].op = proc[p].op /\ proc'[p].step = proc[p].step
    BY <1>2 DEF Proceed, ResumeInv, TypeInv, TypeOK, Handlers
  <2>4. ResumeLocal(proc[p], cps, steps)
    BY DEF ResumeInv, ResumesLocal
  <2>5. ResumeLocal(proc'[p], cps, steps)
    BY <2>3, <2>4 DEF ResumeLocal, EvaluatedPcs, AddedPcs
  <2>6. \A s \in Steps : ~Owes(proc'[p], s)
    BY <2>3 DEF Owes, AddedPcs
  <2> QED BY <2>3, <2>5, <2>6, ResumeKept
<1>3. CASE proc[p].op = "complete"
  BY <1>1, <1>3 DEF ReadSteps
<1>4. CASE proc[p].op # "complete"
  <2>1. \/ Goto(p, "row")
        \/ \E l \in LastSteps : Proceed(p, [proc[p] EXCEPT !.pc = "row",
                                        !.hold = IsPending(steps[l]) /\ l # proc[p].step])
    BY <1>4, Zenon DEF ReadSteps
  <2> QED BY <1>1, <1>2, <2>1, Zenon
<1> QED BY <1>3, <1>4

\* StepGate's read and evaluation: the outcome is a decision.
LEMMA ReadStepForGateResume ==
    ASSUME ResumeInv, TypeInv', NEW p \in Procs, cps' = cps, Counted, ReadStepForGate(p)
    PROVE  ResumeInv'
<1>1. CASE Error(p) \/ KeyMismatch(p) \/ Goto(p, "bump")
  BY <1>1, EndResume, GotoResume DEF EvaluatedPcs, AddedPcs
<1>2. CASE Evaluate(p)
  <2> DEFINE c(d) == IF EvalTier /\ d = "require_approval" /\ proc[p].mode # "override"
                     THEN "count" ELSE "add"
  <2>1. PICK d \in Decisions : Proceed(p, [proc[p] EXCEPT !.dec = d, !.pc = c(d)])
    BY <1>2 DEF Evaluate
  <2>2. c(d) \in {"count", "add"}
    OBVIOUS
  <2> HIDE DEF c
  <2>3. /\ proc' = [proc EXCEPT ![p] = proc'[p]]
        /\ proc'[p].pc = c(d) /\ proc'[p].op = proc[p].op /\ proc'[p].step = proc[p].step
        /\ proc'[p].dec = d
    BY <2>1 DEF Proceed, ResumeInv, TypeInv, TypeOK, Handlers
  <2>4. ResumeLocal(proc[p], cps, steps)
    BY DEF ResumeInv, ResumesLocal
  <2>5. ResumeLocal(proc'[p], cps, steps)
    BY <2>2, <2>3, <2>4 DEF ResumeLocal, AddedPcs
  <2>6. \A s \in Steps : ~Owes(proc'[p], s)
    BY <2>2, <2>3 DEF Owes, AddedPcs
  <2> QED BY <2>3, <2>5, <2>6, ResumeKept
<1> QED BY <1>1, <1>2 DEF ReadStepForGate

\* A resume begins with a checkpoint that exists.
LEMMA ReadCheckpointResume ==
    ASSUME ResumeInv, TypeInv', NEW p \in Procs, cps' = cps, Counted, ReadCheckpoint(p)
    PROVE  ResumeInv'
<1>1. CASE Error(p)
  BY <1>1, EndResume
<1>2. CASE ~Error(p)
  <2> DEFINE c == IF proc[p].status = "aborted" THEN "reset" ELSE "workflow"
  <2>1. PICK s : /\ Resumable(cps[s])
                 /\ Proceed(p, [proc[p] EXCEPT !.op = "resume", !.step = s,
                                               !.mode = "reevaluate", !.pc = c])
    <3> DEFINE candidates == IF proc[p].op = "resumeLast" THEN LastCheckpoints
                             ELSE {s \in {proc[p].step} : Resumable(cps[s])}
    <3>1. \E s \in candidates :
             Proceed(p, [proc[p] EXCEPT !.op = "resume", !.step = s, !.mode = "reevaluate", !.pc = c])
      BY <1>2, Zenon DEF ReadCheckpoint
    <3>2. \A s \in candidates : Resumable(cps[s])
      BY DEF LastCheckpoints
    <3> QED BY <3>1, <3>2, Zenon
  <2>2. c \in {"reset", "workflow"}
    OBVIOUS
  <2> HIDE DEF c
  <2>3. /\ proc' = [proc EXCEPT ![p] = proc'[p]]
        /\ proc'[p].pc = c /\ proc'[p].op = "resume" /\ proc'[p].step = s
    BY <2>1 DEF Proceed, ResumeInv, TypeInv, TypeOK, Handlers
  <2>4. cps[s].decision # NoDecision
    BY <2>1 DEF Resumable
  <2>5. ResumeLocal(proc'[p], cps, steps)
    BY <2>2, <2>3, <2>4 DEF ResumeLocal, EvaluatedPcs, AddedPcs
  <2>6. \A t \in Steps : ~Owes(proc'[p], t)
    BY <2>2, <2>3 DEF Owes, AddedPcs
  <2> QED BY <2>3, <2>5, <2>6, ResumeKept
<1> QED BY <1>1, <1>2

\* The reads change no row; the last two stay on the same side of the upsert.
LEMMA ReadResume == ASSUME ResumeInv, TypeInv', NEW p \in Procs, Read(p) PROVE ResumeInv'
<1>0. cps' = cps /\ steps' = steps
  <2>1. UNCHANGED rows
    BY Zenon DEF Read, ReadWorkflow, ReadSteps, ReadStepForReview, ReadStepForCompletion,
       ReadStepForGate, ReadCheckpoint, CountPendingApprovals, ReadBack
  <2> QED BY <2>1 DEF rows
<1>1. Counted
  BY <1>0 DEF Counted, ResumeInv, TypeInv, TypeOK, Rows
<1>2. CASE ReadStepForReview(p) \/ ReadStepForCompletion(p)
  <2>1. Error(p) \/ KeyMismatch(p) \/ Goto(p, "write")
    BY <1>2 DEF ReadStepForReview, ReadStepForCompletion
  <2> QED BY <1>0, <1>1, <2>1, EndResume, GotoResume DEF EvaluatedPcs, AddedPcs
<1>3. CASE CountPendingApprovals(p)
  <2>1. proc[p].pc = "count" /\ (Goto(p, "add") \/ Goto(p, "enqueue"))
    BY <1>3 DEF CountPendingApprovals
  <2> QED BY <1>0, <1>1, <2>1, GotoResume DEF EvaluatedPcs, AddedPcs
<1>4. CASE ReadBack(p)
  <2>1. proc[p].pc = "readback" /\ (Goto(p, "saveCheckpoint") \/ \E d : GateAnswer(p, d))
    BY <1>4 DEF ReadBack
  <2> QED BY <1>0, <1>1, <2>1, GotoResume, GateAnswerResume DEF EvaluatedPcs, AddedPcs
<1> QED BY <1>0, <1>1, <1>2, <1>3, <1>4, ReadWorkflowResume, ReadStepsResume,
           ReadStepForGateResume, ReadCheckpointResume DEF Read

\* AddStep counts the gate before the resume around it owes anything.
LEMMA AddStepResume == ASSUME ResumeInv, TypeInv', NEW p \in Procs, AddStep(p) PROVE ResumeInv'
<1>0. /\ proc \in [Procs -> Handlers] /\ steps \in [Steps -> Rows] /\ cps \in [Steps -> Checkpoints]
      /\ TypeInv
  BY DEF ResumeInv, TypeInv, TypeOK
<1>1. proc[p].pc = "add" /\ Goto(p, "cursor") /\ cps' = cps
      /\ steps' = [steps EXCEPT ![proc[p].step] = AddStepRow(@, proc[p])]
  BY DEF AddStep
<1>2. proc[p].step \in Steps
  BY <1>0, <1>1, HandlerStep DEF GatePcs, EvaluatedPcs
<1>3. AddStepRow(steps[proc[p].step], proc[p]).gates = steps[proc[p].step].gates + 1
  BY DEF AddStepRow, NextGateCount
<1>4. \A s \in Steps : /\ steps[s].gates \in Nat /\ cps[s].resumes \in Nat
                       /\ steps'[s].gates = IF s = proc[p].step THEN steps[s].gates + 1 ELSE steps[s].gates
  BY <1>0, <1>1, <1>2, <1>3 DEF Rows, Checkpoints
<1>5. /\ proc' = [proc EXCEPT ![p] = proc'[p]]
      /\ proc'[p].pc = "cursor" /\ proc'[p].op = proc[p].op /\ proc'[p].step = proc[p].step
      /\ proc'[p].dec = proc[p].dec
  BY <1>0, <1>1, GotoFields
<1>6. ResumesLocal'
  <2> SUFFICES ASSUME NEW x \in Procs PROVE ResumeLocal(proc'[x], cps', steps')
    BY DEF ResumesLocal
  <2>1. ResumeLocal(proc[x], cps, steps)
    BY DEF ResumeInv, ResumesLocal
  <2>2. CASE x = p
    BY <1>1, <1>2, <1>4, <1>5, <2>1, <2>2 DEF ResumeLocal, EvaluatedPcs
  <2>3. CASE x # p
    <3>1. proc'[x] = proc[x]
      BY <1>0, <1>5, <2>3
    <3>2. proc[x].pc \in AddedPcs => proc[x].step \in Steps
      BY <1>0, HandlerStep DEF AddedPcs, GatePcs, EvaluatedPcs
    <3>3. proc[x].pc \in AddedPcs => steps'[proc[x].step].gates > 0
      BY <1>4, <2>1, <3>2 DEF ResumeLocal
    <3> QED BY <1>1, <2>1, <3>1, <3>3 DEF ResumeLocal
  <2> QED BY <2>2, <2>3
<1>7. ASSUME NEW s \in Steps, cps'[s].decision # NoDecision
      PROVE  cps'[s].resumes + Cardinality(Owing(s)') < steps'[s].gates
  <2>1. cps[s].resumes + Cardinality(Owing(s)) < steps[s].gates
    BY <1>1, <1>7 DEF ResumeInv, ResumesPaid
  <2>2. CASE s = proc[p].step
    <3>1. Owing(s)' \subseteq Owing(s) \cup {p}
      BY <1>0, <1>5 DEF Owing
    <3>2. Cardinality(Owing(s)') \in Nat /\ Cardinality(Owing(s)') <= Cardinality(Owing(s)) + 1
      BY <3>1, OwingGrows
    <3> QED BY <1>1, <1>4, <2>1, <2>2, <3>2, OwingFinite
  <2>3. CASE s # proc[p].step
    <3>1. Owing(s)' \subseteq Owing(s)
      BY <1>0, <1>5, <2>3 DEF Owing, Owes
    <3>2. Cardinality(Owing(s)') \in Nat /\ Cardinality(Owing(s)') <= Cardinality(Owing(s))
      BY <3>1, OwingShrinks
    <3> QED BY <1>1, <1>4, <2>1, <2>3, <3>2, OwingFinite
  <2> QED BY <2>2, <2>3
<1>8. ResumesPaid'
  BY <1>7 DEF ResumesPaid
<1> QED BY <1>6, <1>8 DEF ResumeInv

\* A new checkpoint has no resume and a gate; an old one keeps its count.
LEMMA CreateCheckpointResume ==
    ASSUME ResumeInv, TypeInv', NEW p \in Procs, CreateCheckpoint(p) PROVE ResumeInv'
<1>0. /\ proc \in [Procs -> Handlers] /\ steps \in [Steps -> Rows] /\ cps \in [Steps -> Checkpoints]
      /\ TypeInv
  BY DEF ResumeInv, TypeInv, TypeOK
<1>1. /\ proc[p].pc = "saveCheckpoint" /\ GateAnswer(p, proc[p].dec) /\ steps' = steps
      /\ cps' = [cps EXCEPT ![proc[p].step] = CheckpointRow(@, proc[p])]
  BY DEF CreateCheckpoint
<1>2. proc[p].step \in Steps
  BY <1>0, <1>1, HandlerStep DEF GatePcs, EvaluatedPcs
<1>3. ResumeLocal(proc[p], cps, steps)
  BY DEF ResumeInv, ResumesLocal
<1>4. proc[p].dec # NoDecision /\ steps[proc[p].step].gates > 0
  BY <1>1, <1>3 DEF ResumeLocal, EvaluatedPcs, AddedPcs
<1>5. /\ CheckpointRow(cps[proc[p].step], proc[p]).decision = proc[p].dec
      /\ CheckpointRow(cps[proc[p].step], proc[p]).resumes
            = IF cps[proc[p].step].decision = NoDecision THEN 0 ELSE cps[proc[p].step].resumes
  BY <1>0, <1>2 DEF CheckpointRow, Checkpoints
<1>6. \A s \in Steps :
         /\ steps[s].gates \in Nat /\ cps[s].resumes \in Nat
         /\ cps[s].decision # NoDecision => /\ cps'[s].decision # NoDecision
                                            /\ cps'[s].resumes = cps[s].resumes
         /\ cps[s].decision = NoDecision /\ cps'[s].decision # NoDecision
               => s = proc[p].step /\ cps'[s].resumes = 0
  BY <1>0, <1>1, <1>2, <1>4, <1>5 DEF Rows, Checkpoints
<1>7. /\ proc' = [proc EXCEPT ![p] = proc'[p]]
      /\ \/ proc'[p] = IdleHandler
         \/ /\ proc'[p].pc = "resumeCount" /\ proc'[p].op = "resume"
            /\ proc[p].op = "resume" /\ proc'[p].step = proc[p].step
  <2>1. CASE proc[p].op # "resume"
    BY <1>0, <1>1, <2>1 DEF GateAnswer, Decided, Return
  <2>2. CASE proc[p].op = "resume"
    <3>1. Proceed(p, [proc[p] EXCEPT !.pc = "resumeCount", !.dec = proc[p].dec])
      BY <1>1, <2>2 DEF GateAnswer
    <3> QED BY <1>0, <2>2, <3>1 DEF Proceed, Handlers
  <2> QED BY <2>1, <2>2
<1>8. \A s \in Steps : Owes(proc'[p], s) => Owes(proc[p], s)
  BY <1>1, <1>7 DEF Owes, IdleHandler, AddedPcs
<1>9. \A x \in Procs : ResumeLocal(proc'[x], cps, steps)
  <2>1. ResumeLocal(proc'[p], cps, steps)
    BY <1>3, <1>7 DEF ResumeLocal, IdleHandler, EvaluatedPcs, AddedPcs
  <2> QED BY <1>0, <1>7, <2>1 DEF ResumeInv, ResumesLocal
<1>10. ResumesLocal'
  <2> SUFFICES ASSUME NEW x \in Procs PROVE ResumeLocal(proc'[x], cps', steps')
    BY DEF ResumesLocal
  <2>1. proc'[x].op = "resume" => proc'[x].step \in Steps
    BY DEF TypeInv, HandlersOK, HandlerOK, StepOps
  <2> QED BY <1>1, <1>6, <1>9, <2>1 DEF ResumeLocal
<1>11. ASSUME NEW s \in Steps, cps'[s].decision # NoDecision
       PROVE  cps'[s].resumes + Cardinality(Owing(s)') < steps'[s].gates
  <2>0. Owing(s)' \subseteq Owing(s)
    BY <1>0, <1>7, <1>8 DEF Owing
  <2>1. /\ Cardinality(Owing(s)') \in Nat /\ Cardinality(Owing(s)) \in Nat
        /\ Cardinality(Owing(s)') <= Cardinality(Owing(s))
    BY <2>0, OwingShrinks, OwingFinite
  <2>2. CASE cps[s].decision # NoDecision
    <3>1. cps[s].resumes + Cardinality(Owing(s)) < steps[s].gates
      BY <2>2 DEF ResumeInv, ResumesPaid
    <3> QED BY <1>1, <1>6, <2>1, <2>2, <3>1
  <2>3. CASE cps[s].decision = NoDecision
    <3>1. Owing(s) = {}
      BY <2>3 DEF Owing, Owes, ResumeInv, ResumesLocal, ResumeLocal
    <3>2. Owing(s)' = {}
      BY <2>0, <3>1
    <3>3. Cardinality(Owing(s)') = 0
      BY <3>2, FS_EmptySet
    <3>4. s = proc[p].step /\ cps'[s].resumes = 0
      BY <1>6, <1>11, <2>3
    <3> QED BY <1>1, <1>4, <3>3, <3>4
  <2> QED BY <2>2, <2>3
<1>12. ResumesPaid'
  BY <1>11 DEF ResumesPaid
<1> QED BY <1>10, <1>12 DEF ResumeInv

\* A resume counts itself and owes nothing more.
LEMMA IncrementResume ==
    ASSUME ResumeInv, TypeInv', NEW p \in Procs, IncrementResumeCount(p) PROVE ResumeInv'
<1>0. /\ proc \in [Procs -> Handlers] /\ steps \in [Steps -> Rows] /\ cps \in [Steps -> Checkpoints]
      /\ TypeInv
  BY DEF ResumeInv, TypeInv, TypeOK
<1>1. /\ proc[p].pc = "resumeCount" /\ Decided(p, proc[p].dec) /\ steps' = steps
      /\ cps' = [cps EXCEPT ![proc[p].step].resumes = @ + 1]
  BY DEF IncrementResumeCount
<1>2. proc[p].step \in Steps
  BY <1>0, <1>1, HandlerStep DEF GatePcs, EvaluatedPcs
<1>3. proc[p].op = "resume"
  BY <1>1 DEF ResumeInv, ResumesLocal, ResumeLocal
<1>4. \A s \in Steps :
         /\ steps[s].gates \in Nat /\ cps[s].resumes \in Nat
         /\ cps'[s].decision = cps[s].decision
         /\ cps'[s].resumes = IF s = proc[p].step THEN cps[s].resumes + 1 ELSE cps[s].resumes
  BY <1>0, <1>1, <1>2 DEF Rows, Checkpoints
<1>5. proc' = [proc EXCEPT ![p] = IdleHandler]
  BY <1>1 DEF Decided, Return
<1>6. ResumesLocal'
  <2> SUFFICES ASSUME NEW x \in Procs PROVE ResumeLocal(proc'[x], cps', steps')
    BY DEF ResumesLocal
  <2>1. ResumeLocal(proc'[x], cps, steps)
    BY <1>0, <1>5 DEF ResumeInv, ResumesLocal, ResumeLocal, IdleHandler, EvaluatedPcs, AddedPcs
  <2>2. proc'[x].op = "resume" => proc'[x].step \in Steps
    BY DEF TypeInv, HandlersOK, HandlerOK, StepOps
  <2> QED BY <1>1, <1>4, <2>1, <2>2 DEF ResumeLocal
<1>7. ASSUME NEW s \in Steps, cps'[s].decision # NoDecision
      PROVE  cps'[s].resumes + Cardinality(Owing(s)') < steps'[s].gates
  <2>1. cps[s].resumes + Cardinality(Owing(s)) < steps[s].gates
    BY <1>4, <1>7 DEF ResumeInv, ResumesPaid
  <2>2. Owing(s)' \subseteq Owing(s) \ {p}
    BY <1>0, <1>5 DEF Owing, Owes, IdleHandler
  <2>3. CASE s = proc[p].step
    <3>1. p \in Owing(s)
      BY <1>1, <1>3, <2>3 DEF Owing, Owes
    <3>2. Cardinality(Owing(s)') \in Nat /\ Cardinality(Owing(s)') + 1 <= Cardinality(Owing(s))
      BY <2>2, <3>1, OwingPaid
    <3> QED BY <1>1, <1>4, <2>1, <2>3, <3>2, OwingFinite
  <2>4. CASE s # proc[p].step
    <3>1. Owing(s)' \subseteq Owing(s)
      BY <2>2
    <3>2. Cardinality(Owing(s)') \in Nat /\ Cardinality(Owing(s)') <= Cardinality(Owing(s))
      BY <3>1, OwingShrinks
    <3> QED BY <1>1, <1>4, <2>1, <2>4, <3>2, OwingFinite
  <2> QED BY <2>3, <2>4
<1>8. ResumesPaid'
  BY <1>7 DEF ResumesPaid
<1> QED BY <1>6, <1>8 DEF ResumeInv

\* The other writes take no gate back and leave the checkpoints alone.
LEMMA WriteResume == ASSUME ResumeInv, TypeInv', NEW p \in Procs, Write(p) PROVE ResumeInv'
<1>0. proc \in [Procs -> Handlers] /\ steps \in [Steps -> Rows] /\ TypeInv
  BY DEF ResumeInv, TypeInv, TypeOK
<1>1. ASSUME steps' = steps PROVE Counted
  BY <1>0, <1>1 DEF Counted, Rows
<1>2. CASE BumpGateCountCached(p)
  <2>1. proc[p].step \in Steps
    BY <1>0, <1>2, HandlerStep DEF BumpGateCountCached, GatePcs
  <2>2. Counted
    BY <1>0, <1>2, <2>1 DEF BumpGateCountCached, BumpedRow, Counted, Rows
  <2>3. cps' = cps /\ \E d : Decided(p, d)
    BY <1>2 DEF BumpGateCountCached
  <2> QED BY <2>2, <2>3, EndResume
<1>3. CASE ApproveStep(p) \/ RejectStep(p)
  <2>1. proc[p].step \in Steps
    BY <1>0, <1>3, HandlerStep DEF ApproveStep, RejectStep, StepOps
  <2>2. Counted
    BY <1>0, <1>3, <2>1 DEF ApproveStep, RejectStep, Counted, Rows
  <2>3. cps' = cps /\ (Ok(p) \/ Goto(p, "abortRejected"))
    BY <1>3 DEF ApproveStep, RejectStep
  <2> QED BY <2>2, <2>3, EndResume, GotoResume DEF EvaluatedPcs, AddedPcs
<1>4. CASE MarkStepCompleted(p)
  <2>1. proc[p].step \in Steps
    BY <1>0, <1>4, HandlerStep DEF MarkStepCompleted, StepOps
  <2>2. Counted
    BY <1>0, <1>1, <1>4, <2>1 DEF MarkStepCompleted, Counted, Rows
  <2>3. cps' = cps /\ (Ok(p) \/ Error(p))
    BY <1>4 DEF MarkStepCompleted
  <2> QED BY <2>2, <2>3, EndResume
<1>5. CASE UpdateCurrentStepIndex(p) \/ ResetStatus(p)
  <2>1. cps' = cps /\ steps' = steps
    BY <1>5 DEF UpdateCurrentStepIndex, ResetStatus
  <2>2. \/ proc[p].pc = "cursor" /\ Goto(p, "readback")
        \/ Goto(p, "workflow")
    BY <1>5 DEF UpdateCurrentStepIndex, ResetStatus
  <2> QED BY <1>1, <2>1, <2>2, GotoResume DEF EvaluatedPcs, AddedPcs
<1>7. CASE EnqueueApproval(p)
  <2>1. cps' = cps /\ steps' = steps
    BY <1>7 DEF EnqueueApproval, rows
  <2>2. Counted
    BY <1>1, <2>1
  <2> QED BY <1>0, <1>7, <2>1, <2>2, EnqueueFields, MoveResume DEF EvaluatedPcs, AddedPcs
<1>6. CASE AbortRejected(p) \/ CompleteWorkflow(p) \/ AbortWorkflow(p) \/ FailWorkflow(p)
  <2>1. Ok(p) /\ steps' = steps /\ cps' = cps
    BY <1>6 DEF AbortRejected, CompleteWorkflow, AbortWorkflow, FailWorkflow, FinaliseWorkflow
  <2> QED BY <1>1, <2>1, EndResume
<1> QED BY <1>2, <1>3, <1>4, <1>5, <1>6, <1>7, AddStepResume, CreateCheckpointResume, IncrementResume
        DEF Write

\* A failing statement forgives a count but never makes one.
LEMMA FaultResume == ASSUME ResumeInv, TypeInv', NEW p \in Procs, Fault(p) PROVE ResumeInv'
<1>0. steps' = steps /\ cps' = cps
  BY DEF Fault, StatementFails, BestEffortFails, rows
<1>1. Counted
  BY <1>0 DEF Counted, ResumeInv, TypeInv, TypeOK, Rows
<1>2. CASE Error(p) \/ Ok(p) \/ Decided(p, proc[p].dec)
  BY <1>0, <1>1, <1>2, EndResume
<1>3. CASE proc[p].pc \in DOMAIN BestEffort /\ Goto(p, BestEffort[proc[p].pc])
  <2>1. \/ proc[p].pc \in {"count", "enqueue"} /\ BestEffort[proc[p].pc] = "add"
        \/ proc[p].pc = "cursor" /\ BestEffort[proc[p].pc] = "readback"
    BY <1>3 DEF BestEffort
  <2>2. \/ proc[p].pc \in {"count", "enqueue"} /\ Goto(p, "add")
        \/ proc[p].pc = "cursor" /\ Goto(p, "readback")
    BY <1>3, <2>1
  <2> QED BY <1>0, <1>1, <2>2, GotoResume DEF EvaluatedPcs, AddedPcs
<1>4. CASE proc[p].pc = "saveCheckpoint" /\ GateAnswer(p, proc[p].dec)
  BY <1>0, <1>1, <1>4, GateAnswerResume DEF AddedPcs
<1> QED BY <1>2, <1>3, <1>4 DEF Fault, StatementFails, BestEffortFails

\* The sweep gates and resumes nothing.
LEMMA SweepResume ==
    ASSUME ResumeInv, TypeInv', Sweep \/ SweepStatementFails \/ SweepDies \/ UNCHANGED vars
    PROVE  ResumeInv'
<1>0. CASE UNCHANGED vars
  BY <1>0 DEF vars, ResumeInv, ResumesLocal, ResumesPaid, Owing
<1>1. CASE Sweep \/ SweepStatementFails \/ SweepDies
  <2>1. proc' = proc /\ cps' = cps
    BY <1>1, Zenon DEF Sweep, SweepExpire, SweepStep, SweepAbort, SweepStatementFails, SweepDies, rows
  <2>2. \A s \in Steps : steps'[s].gates = steps[s].gates
    <3>1. CASE SweepStep
      BY <3>1 DEF SweepStep, ExpiredRow, ResumeInv, TypeInv, TypeOK, Rows
    <3>2. CASE ~SweepStep
      BY <1>1, <3>2, Zenon DEF Sweep, SweepExpire, SweepAbort, SweepStatementFails, SweepDies, rows
    <3> QED BY <3>1, <3>2
  <2>3. \A x \in Procs : proc[x].pc \in AddedPcs => proc[x].step \in Steps
    BY HandlerStep DEF ResumeInv, AddedPcs, GatePcs, EvaluatedPcs
  <2>4. ResumesLocal'
    BY <2>1, <2>2, <2>3 DEF ResumeInv, ResumesLocal, ResumeLocal
  <2>5. \A s \in Steps : Owing(s)' = Owing(s)
    BY <2>1 DEF Owing
  <2>6. ResumesPaid'
    BY <2>1, <2>2, <2>5 DEF ResumeInv, ResumesPaid
  <2> QED BY <2>4, <2>6 DEF ResumeInv
<1> QED BY <1>0, <1>1

\* Every step preserves the invariant behind ResumesWereGated.
LEMMA NextResume == ResumeInv /\ [Next]_vars => ResumeInv'
<1> SUFFICES ASSUME ResumeInv, [Next]_vars PROVE ResumeInv'
  OBVIOUS
<1>1. TypeInv'
  BY NextTypeInv DEF ResumeInv
<1>2. CASE \E p \in Procs : Call(p) \/ Read(p) \/ Write(p) \/ Fault(p)
  BY <1>1, <1>2, CallResume, ReadResume, WriteResume, FaultResume
<1>3. CASE Sweep \/ SweepStatementFails \/ SweepDies \/ UNCHANGED vars
  BY <1>1, <1>3, SweepResume
<1> QED BY <1>2, <1>3 DEF Next, Serve, Done

\* resumeFromCheckpointInternal counts a resume only after the gate it made was
\* recorded, so the resumes of a checkpoint never catch up with the gates of its step,
\* for any number of concurrent resumes and gates and whichever statements fail.
THEOREM ResumesGated == Spec => []ResumesWereGated
<1>1. Spec => []ResumeInv
  BY InitResume, NextResume, PTL DEF Spec
<1>2. ResumeInv => ResumesWereGated
  <2> SUFFICES ASSUME ResumeInv, NEW s \in Steps, cps[s].decision # NoDecision
               PROVE  cps[s].resumes < steps[s].gates
    BY DEF ResumesWereGated
  <2>1. cps[s].resumes + Cardinality(Owing(s)) < steps[s].gates
    BY DEF ResumeInv, ResumesPaid
  <2>2. cps[s].resumes \in Nat /\ steps[s].gates \in Nat
    BY DEF ResumeInv, TypeInv, TypeOK, Rows, Checkpoints
  <2> QED BY <2>1, <2>2, OwingFinite
<1> QED BY <1>1, <1>2, PTL

-----------------------------------------------------------------------------
(* QueueOvershootIsBounded.  CreateApproval inserts one statement after it  *)
(* counted, so the invariant adds the gates between the two to the rows.    *)

Queued == UNION {{s} \X (1 .. hitl[s]) : s \in Steps}

Enqueuing == {p \in Procs : proc[p].pc = "enqueue"}

QueueInv ==
    /\ TypeInv
    /\ IsFiniteSet(Queued)
    /\ Cardinality(Queued) + Cardinality(Enqueuing) <= MaxPending + Cardinality(Procs) - 1

\* One more element is at most one more.
LEMMA OneRowMore ==
    ASSUME NEW S, IsFiniteSet(S), NEW x
    PROVE  /\ IsFiniteSet(S \cup {x}) /\ Cardinality(S) \in Nat
           /\ Cardinality(S \cup {x}) <= Cardinality(S) + 1
<1>1. Cardinality(S) \in Nat
  BY FS_CardinalityType
<1>2. /\ IsFiniteSet(S \cup {x})
      /\ \/ Cardinality(S \cup {x}) = Cardinality(S)
         \/ Cardinality(S \cup {x}) = Cardinality(S) + 1
  BY FS_AddElement
<1> QED BY <1>1, <1>2

\* Where a handler's statement leaves its pc: everything but the two statements of
\* CreateApproval stays away from the insert.
LEMMA HandlerMoves ==
    ASSUME TypeInv, NEW p \in Procs, Call(p) \/ Read(p) \/ Write(p) \/ Fault(p),
           ~CountPendingApprovals(p)
    PROVE  proc' = [proc EXCEPT ![p] = proc'[p]] /\ proc'[p].pc # "enqueue"
<1>0. proc \in [Procs -> Handlers]
  BY DEF TypeInv, TypeOK
<1>1. ASSUME NEW r, Return(p, r) PROVE proc' = [proc EXCEPT ![p] = proc'[p]] /\ proc'[p].pc # "enqueue"
  BY <1>0, <1>1 DEF Return, IdleHandler
<1>2. CASE Error(p) \/ Ok(p) \/ KeyMismatch(p) \/ \E d : Decided(p, d)
  BY <1>1, <1>2, Zenon DEF Error, Ok, KeyMismatch, Decided
<1>3. CASE \E c \in HandlerPcs \ {"enqueue"} : Goto(p, c)
  BY <1>0, <1>3, GotoFields
<1>4. ASSUME NEW d, GateAnswer(p, d)
      PROVE  proc' = [proc EXCEPT ![p] = proc'[p]] /\ proc'[p].pc # "enqueue"
  <2>1. CASE proc[p].op = "resume"
    <3>1. proc' = [proc EXCEPT ![p] = [proc[p] EXCEPT !.pc = "resumeCount", !.dec = d]]
      BY <1>4, <2>1 DEF GateAnswer, Proceed
    <3> QED BY <1>0, <3>1 DEF Handlers
  <2>2. CASE proc[p].op # "resume"
    BY <1>2, <1>4, <2>2 DEF GateAnswer
  <2> QED BY <2>1, <2>2
<1>5. CASE Call(p)
  <2>1. PICK r : proc' = [proc EXCEPT ![p] = NewHandler(r)]
    BY <1>5 DEF Call, Proceed
  <2> QED BY <1>0, <2>1 DEF NewHandler
<1>6. CASE ReadWorkflow(p)
  <2>1. CASE Error(p)
    BY <1>2, <2>1
  <2>2. CASE ~Error(p)
    <3> DEFINE c == AfterWorkflowRead(proc[p].op)
    <3>1. /\ Proceed(p, [proc[p] EXCEPT !.pc = c, !.status = wf.status, !.idx = wf.cur + 1])
          /\ proc[p].pc = "workflow"
      BY <1>6, <2>2 DEF ReadWorkflow
    <3>2. c # "enqueue"
      BY <3>1 DEF AfterWorkflowRead, TypeInv, HandlersOK, HandlerOK, AllOps
    <3> HIDE DEF c
    <3> QED BY <1>0, <3>1, <3>2 DEF Proceed, Handlers
  <2> QED BY <2>1, <2>2
<1>7. CASE ReadSteps(p)
  <2>1. \/ Error(p) \/ Goto(p, "write") \/ Goto(p, "row")
        \/ \E h : Proceed(p, [proc[p] EXCEPT !.pc = "row", !.hold = h])
    BY <1>7, Zenon DEF ReadSteps
  <2>2. CASE Error(p) \/ Goto(p, "write") \/ Goto(p, "row")
    BY <1>2, <1>3, <2>2 DEF HandlerPcs
  <2>3. ASSUME NEW h, Proceed(p, [proc[p] EXCEPT !.pc = "row", !.hold = h])
        PROVE  proc' = [proc EXCEPT ![p] = proc'[p]] /\ proc'[p].pc # "enqueue"
    BY <1>0, <2>3 DEF Proceed, Handlers
  <2> QED BY <2>1, <2>2, <2>3, Zenon
<1>8. CASE ReadStepForGate(p)
  <2>1. CASE Error(p) \/ KeyMismatch(p) \/ Goto(p, "bump")
    BY <1>2, <1>3, <2>1 DEF HandlerPcs
  <2>2. CASE Evaluate(p)
    <3> DEFINE c(d) == IF EvalTier /\ d = "require_approval" /\ proc[p].mode # "override"
                       THEN "count" ELSE "add"
    <3>1. PICK d \in Decisions : Proceed(p, [proc[p] EXCEPT !.dec = d, !.pc = c(d)])
      BY <2>2 DEF Evaluate
    <3>2. c(d) # "enqueue"
      OBVIOUS
    <3> HIDE DEF c
    <3> QED BY <1>0, <3>1, <3>2 DEF Proceed, Handlers
  <2> QED BY <1>8, <2>1, <2>2 DEF ReadStepForGate
<1>9. CASE ReadCheckpoint(p)
  <2>1. CASE Error(p)
    BY <1>2, <2>1
  <2>2. CASE ~Error(p)
    <3> DEFINE c == IF proc[p].status = "aborted" THEN "reset" ELSE "workflow"
    <3>1. \E s : Proceed(p, [proc[p] EXCEPT !.op = "resume", !.step = s,
                                            !.mode = "reevaluate", !.pc = c])
      BY <1>9, <2>2, Zenon DEF ReadCheckpoint
    <3>2. c # "enqueue"
      OBVIOUS
    <3> HIDE DEF c
    <3> QED BY <1>0, <3>1, <3>2 DEF Proceed, Handlers
  <2> QED BY <2>1, <2>2
<1>10. CASE ReadStepForReview(p) \/ ReadStepForCompletion(p) \/ ReadBack(p)
  <2>1. \/ Error(p) \/ KeyMismatch(p) \/ Goto(p, "write") \/ Goto(p, "saveCheckpoint")
        \/ \E d : GateAnswer(p, d)
    BY <1>10, Zenon DEF ReadStepForReview, ReadStepForCompletion, ReadBack
  <2> QED BY <1>2, <1>3, <1>4, <2>1 DEF HandlerPcs
<1>11. CASE Write(p)
  <2>1. \/ Ok(p) \/ Error(p) \/ \E d : Decided(p, d) \/ GateAnswer(p, d)
        \/ EnqueueApproval(p) \/ Goto(p, "cursor") \/ Goto(p, "readback") \/ Goto(p, "workflow")
        \/ Goto(p, "abortRejected")
    BY <1>11, Zenon
    DEF Write, BumpGateCountCached, AddStep, UpdateCurrentStepIndex,
        CreateCheckpoint, ResetStatus, IncrementResumeCount, ApproveStep, RejectStep,
        AbortRejected, CompleteWorkflow, AbortWorkflow, FailWorkflow, FinaliseWorkflow,
        MarkStepCompleted
  <2>2. CASE EnqueueApproval(p)
    BY <2>2, EnqueueFields
  <2> QED BY <1>2, <1>3, <1>4, <2>1, <2>2 DEF HandlerPcs
<1>12. CASE Fault(p)
  <2>1. CASE proc[p].pc \in DOMAIN BestEffort /\ Goto(p, BestEffort[proc[p].pc])
    <3>1. BestEffort[proc[p].pc] \in HandlerPcs \ {"enqueue"}
      BY <2>1 DEF BestEffort, HandlerPcs
    <3> QED BY <1>3, <2>1, <3>1
  <2>2. CASE Error(p) \/ Ok(p) \/ Decided(p, proc[p].dec) \/ GateAnswer(p, proc[p].dec)
    BY <1>2, <1>4, <2>2
  <2> QED BY <1>12, <2>1, <2>2 DEF Fault, StatementFails, BestEffortFails
<1> QED BY <1>5, <1>6, <1>7, <1>8, <1>9, <1>10, <1>11, <1>12 DEF Read

\* The queue is a set of numbered pairs.
LEMMA QueuedPairs ==
    ASSUME NEW x
    PROVE  x \in Queued <=> \E s \in Steps : \E n \in 1 .. hitl[s] : x = <<s, n>>
BY DEF Queued

\* Gates between the two statements are at most the requests in flight.
LEMMA QueueSizes ==
    /\ IsFiniteSet(Enqueuing) /\ Cardinality(Enqueuing) \in Nat
    /\ Cardinality(Procs) \in Nat /\ Cardinality(Procs) >= 1
    /\ Cardinality(Enqueuing) <= Cardinality(Procs)
<1>1. Enqueuing \subseteq Procs
  BY DEF Enqueuing
<1>2. /\ IsFiniteSet(Enqueuing) /\ Cardinality(Enqueuing) <= Cardinality(Procs)
      /\ Cardinality(Enqueuing) \in Nat /\ Cardinality(Procs) \in Nat
  BY <1>1, RequestsAssumption, FS_Subset, FS_CardinalityType
<1>3. Cardinality(Procs) # 0
  BY RequestsAssumption, FS_EmptySet
<1> QED BY <1>2, <1>3

\* The queue of a new workflow is empty.
LEMMA InitQueue == Init => QueueInv
<1> SUFFICES ASSUME Init PROVE QueueInv
  OBVIOUS
<1>1. Queued = {}
  <2> SUFFICES ASSUME NEW x \in Queued PROVE FALSE
    OBVIOUS
  <2>1. PICK s \in Steps : \E n \in 1 .. hitl[s] : x = <<s, n>>
    BY QueuedPairs
  <2>2. hitl[s] = 0
    BY DEF Init
  <2> QED BY <2>1, <2>2
<1>2. Enqueuing = {}
  BY DEF Init, Enqueuing, IdleHandler
<1>3. IsFiniteSet(Queued) /\ Cardinality(Queued) = 0 /\ Cardinality(Enqueuing) = 0
  BY <1>1, <1>2, FS_EmptySet
<1> QED BY <1>3, InitTypeInv, QueueSizes, BoundsAssumption DEF QueueInv

\* Steps that add no row and no gate about to insert one.
LEMMA QueueKept ==
    ASSUME QueueInv, TypeInv', Enqueuing' \subseteq Enqueuing,
           \A s \in Steps : hitl'[s] <= hitl[s]
    PROVE  QueueInv'
<1>0. hitl \in [Steps -> Nat] /\ hitl' \in [Steps -> Nat]
  BY DEF QueueInv, TypeInv, TypeOK
<1>1. Queued' \subseteq Queued
  <2> SUFFICES ASSUME NEW s \in Steps, NEW n \in 1 .. hitl'[s] PROVE <<s, n>> \in Queued
    BY DEF Queued
  <2>1. n \in 1 .. hitl[s]
    BY <1>0
  <2> QED BY <2>1, QueuedPairs
<1>2. /\ IsFiniteSet(Queued') /\ Cardinality(Queued') <= Cardinality(Queued)
      /\ Cardinality(Queued') \in Nat /\ Cardinality(Queued) \in Nat
  BY <1>1, FS_Subset, FS_CardinalityType DEF QueueInv
<1>3. Cardinality(Enqueuing') <= Cardinality(Enqueuing) /\ Cardinality(Enqueuing') \in Nat
  BY QueueSizes, FS_Subset, FS_CardinalityType
<1> QED BY <1>2, <1>3, QueueSizes, BoundsAssumption DEF QueueInv

\* A count below the limit leaves room for every gate that passed it.
LEMMA CountQueue == ASSUME QueueInv, TypeInv', NEW p \in Procs, CountPendingApprovals(p) PROVE QueueInv'
<1>0. hitl' = hitl
  BY DEF CountPendingApprovals
<1>1. TypeInv /\ proc \in [Procs -> Handlers] /\ hitl \in [Steps -> Nat]
  BY DEF QueueInv, TypeInv, TypeOK
<1>2. CASE AtPendingLimit
  <2>1. Goto(p, "add")
    BY <1>2 DEF CountPendingApprovals
  <2>2. proc' = [proc EXCEPT ![p] = proc'[p]] /\ proc'[p].pc = "add"
    BY <1>1, <2>1, GotoFields
  <2>3. Enqueuing' \subseteq Enqueuing
    BY <1>1, <2>2 DEF Enqueuing
  <2> QED BY <1>0, <1>1, <2>3, QueueKept
<1>3. CASE ~AtPendingLimit
  <2>1. Cardinality(Queued) \in Nat /\ Cardinality(Queued) < MaxPending
    BY <1>3, FS_CardinalityType, BoundsAssumption DEF AtPendingLimit, PendingRows, Queued, QueueInv
  <2>2. Cardinality(Enqueuing') <= Cardinality(Procs) /\ Cardinality(Enqueuing') \in Nat
    BY RequestsAssumption, FS_Subset, FS_CardinalityType DEF Enqueuing
  <2>3. Queued' = Queued
    BY <1>0 DEF Queued
  <2> QED BY <2>1, <2>2, <2>3, QueueSizes, BoundsAssumption DEF QueueInv
<1> QED BY <1>2, <1>3

\* The insert turns a gate that passed the count into a row.
LEMMA EnqueueQueue == ASSUME QueueInv, TypeInv', NEW p \in Procs, EnqueueApproval(p) PROVE QueueInv'
<1>0. TypeInv /\ proc \in [Procs -> Handlers] /\ hitl \in [Steps -> Nat]
  BY DEF QueueInv, TypeInv, TypeOK
<1>1. /\ proc[p].pc = "enqueue"
      /\ hitl' = [hitl EXCEPT ![proc[p].step] = @ + 1]
  BY DEF EnqueueApproval
<1>2. PICK t : t = proc[p].step
  OBVIOUS
<1>3. t \in Steps
  BY <1>0, <1>1, <1>2, HandlerStep DEF GatePcs, EvaluatedPcs
<1>4. proc' = [proc EXCEPT ![p] = proc'[p]] /\ proc'[p].pc = "add"
  BY <1>0, EnqueueFields
<1>5. p \in Enqueuing /\ Enqueuing' = Enqueuing \ {p}
  BY <1>0, <1>1, <1>4 DEF Enqueuing
<1>6. Cardinality(Enqueuing') = Cardinality(Enqueuing) - 1
  BY <1>5, QueueSizes, FS_RemoveElement
<1>7. Queued' \subseteq Queued \cup {<<t, hitl[t] + 1>>}
  <2> SUFFICES ASSUME NEW s \in Steps, NEW n \in 1 .. hitl'[s], <<s, n>> # <<t, hitl[t] + 1>>
               PROVE  <<s, n>> \in Queued
    BY DEF Queued
  <2>1. hitl'[s] = IF s = t THEN hitl[s] + 1 ELSE hitl[s]
    BY <1>0, <1>1, <1>2
  <2>2. n \in 1 .. hitl[s]
    BY <1>0, <2>1
  <2> QED BY <2>2, QueuedPairs
<1>8. /\ IsFiniteSet(Queued \cup {<<t, hitl[t] + 1>>})
      /\ Cardinality(Queued \cup {<<t, hitl[t] + 1>>}) <= Cardinality(Queued) + 1
      /\ Cardinality(Queued) \in Nat
  BY OneRowMore DEF QueueInv
<1>9. IsFiniteSet(Queued') /\ Cardinality(Queued') \in Nat /\ Cardinality(Queued') <= Cardinality(Queued) + 1
  BY <1>7, <1>8, FS_Subset, FS_CardinalityType
<1> QED BY <1>6, <1>8, <1>9, QueueSizes, BoundsAssumption DEF QueueInv

\* No other statement reaches the insert, and the sweep only takes rows out.
LEMMA HandlerQueue ==
    ASSUME QueueInv, TypeInv', NEW p \in Procs, Call(p) \/ Read(p) \/ Write(p) \/ Fault(p)
    PROVE  QueueInv'
<1>0. TypeInv /\ proc \in [Procs -> Handlers] /\ hitl \in [Steps -> Nat]
  BY DEF QueueInv, TypeInv, TypeOK
<1>1. CASE CountPendingApprovals(p) \/ EnqueueApproval(p)
  BY <1>1, CountQueue, EnqueueQueue
<1>2. CASE ~CountPendingApprovals(p) /\ ~EnqueueApproval(p)
  <2>1. hitl' = hitl
    BY <1>2, Zenon
    DEF Call, Read, ReadWorkflow, ReadSteps, ReadStepForReview, ReadStepForCompletion,
        ReadStepForGate, ReadCheckpoint, ReadBack, Write, BumpGateCountCached, AddStep,
        UpdateCurrentStepIndex, CreateCheckpoint, ResetStatus, IncrementResumeCount, ApproveStep,
        RejectStep, AbortRejected, CompleteWorkflow, AbortWorkflow, FailWorkflow, FinaliseWorkflow,
        MarkStepCompleted, Fault, StatementFails, BestEffortFails
  <2>2. proc' = [proc EXCEPT ![p] = proc'[p]] /\ proc'[p].pc # "enqueue"
    BY <1>0, <1>2, HandlerMoves
  <2>3. Enqueuing' \subseteq Enqueuing
    BY <1>0, <2>2 DEF Enqueuing
  <2> QED BY <1>0, <2>1, <2>3, QueueKept
<1> QED BY <1>1, <1>2

\* The sweep takes rows out and touches no handler.
LEMMA SweepQueue ==
    ASSUME QueueInv, TypeInv', Sweep \/ SweepStatementFails \/ SweepDies \/ UNCHANGED vars
    PROVE  QueueInv'
<1>0. hitl \in [Steps -> Nat]
  BY DEF QueueInv, TypeInv, TypeOK
<1>1. CASE SweepExpire
  <2>1. PICK due \in [Steps -> 0 .. MaxCalls] : hitl' = [s \in Steps |-> hitl[s] - due[s]]
    BY <1>1 DEF SweepExpire
  <2>2. \A s \in Steps : hitl'[s] <= hitl[s]
    BY <1>0, <2>1, BoundsAssumption
  <2>3. Enqueuing' = Enqueuing
    BY <1>1 DEF SweepExpire, Enqueuing
  <2> QED BY <2>2, <2>3, QueueKept
<1>2. CASE UNCHANGED <<hitl, proc>>
  <2>1. Enqueuing' = Enqueuing /\ \A s \in Steps : hitl'[s] <= hitl[s]
    BY <1>0, <1>2 DEF Enqueuing
  <2> QED BY <2>1, QueueKept
<1>3. CASE UNCHANGED vars
  BY <1>2, <1>3 DEF vars
<1>4. CASE SweepStep \/ SweepAbort \/ SweepStatementFails \/ SweepDies
  <2>1. UNCHANGED <<hitl, proc>>
    BY <1>4, Zenon DEF SweepStep, SweepAbort, SweepStatementFails, SweepDies
  <2> QED BY <1>2, <2>1
<1> QED BY <1>1, <1>3, <1>4 DEF Sweep

\* Every step preserves the invariant behind QueueOvershootIsBounded.
LEMMA NextQueue == QueueInv /\ [Next]_vars => QueueInv'
<1> SUFFICES ASSUME QueueInv, [Next]_vars PROVE QueueInv'
  OBVIOUS
<1>1. TypeInv'
  BY NextTypeInv DEF QueueInv
<1>2. CASE \E p \in Procs : Call(p) \/ Read(p) \/ Write(p) \/ Fault(p)
  BY <1>1, <1>2, HandlerQueue
<1>3. CASE Sweep \/ SweepStatementFails \/ SweepDies \/ UNCHANGED vars
  BY <1>1, <1>3, SweepQueue
<1> QED BY <1>2, <1>3 DEF Next, Serve, Done

\* CreateApproval exceeds the tenant's limit at most by the other gates in flight, for any
\* number of them and whatever the sweep takes out meanwhile.
THEOREM QueueBounded == Spec => []QueueOvershootIsBounded
<1>1. Spec => []QueueInv
  BY InitQueue, NextQueue, PTL DEF Spec
<1>2. QueueInv => QueueOvershootIsBounded
  <2> SUFFICES ASSUME QueueInv PROVE PendingRows <= MaxPending + Cardinality(Procs) - 1
    BY DEF QueueOvershootIsBounded
  <2>1. PendingRows = Cardinality(Queued) /\ Cardinality(Queued) \in Nat
    BY FS_CardinalityType DEF PendingRows, Queued, QueueInv
  <2> QED BY <2>1, QueueSizes, BoundsAssumption DEF QueueInv
<1> QED BY <1>1, <1>2, PTL

-----------------------------------------------------------------------------
(* One request at a time.  What follows holds for a caller that waits for   *)
(* each answer before it sends the next request, as the SDKs do.            *)

\* The handler of p goes on or becomes idle; the slot is all that changes in proc.
Moved(p) == proc' = [proc EXCEPT ![p] = proc'[p]]

Stays(p) == proc'[p].op = proc[p].op /\ proc'[p].step = proc[p].step /\ proc'[p].dec = proc[p].dec

\* What a read leads to, and what it has checked.
ReadOutcome(p, q, r) ==
    \/ r = IdleHandler /\ (q.pc = "readback" => steps[q.step].decision # q.dec)
    \/ /\ q.pc = "workflow" /\ r.pc = AfterWorkflowRead(q.op) /\ Stays(p)
       /\ RefusesTerminal(q.op) => ~IsTerminal(wf.status)
    \/ q.pc = "steps" /\ q.op = "complete" /\ r.pc = "write" /\ Stays(p) /\ ~BlocksCompletion
    \/ q.pc = "steps" /\ q.op # "complete" /\ r.pc = "row" /\ Stays(p)
    \/ q.pc = "row" /\ q.op \in {"approve", "reject"} /\ r.pc = "write" /\ Stays(p)
       /\ IsPending(steps[q.step])
    \/ q.pc = "row" /\ q.op = "mark" /\ r.pc = "write" /\ Stays(p)
    \/ q.pc = "row" /\ q.op \in {"gate", "resume"} /\ r.pc \in {"bump", "count", "add"}
    \/ q.pc = "checkpoint" /\ r.pc \in {"reset", "workflow"}
    \/ q.pc = "count" /\ r.pc \in {"add", "enqueue"} /\ Stays(p)
    \/ q.pc = "readback" /\ r.pc = "saveCheckpoint" /\ Stays(p) /\ steps[q.step].decision = q.dec
    \/ q.pc = "readback" /\ r.pc = "resumeCount" /\ steps[q.step].decision # q.dec

\* Every read is of one of these forms and changes no table.
LEMMA ReadOutcomes ==
    ASSUME TypeInv, NEW p \in Procs, Read(p)
    PROVE  Moved(p) /\ UNCHANGED rows /\ ReadOutcome(p, proc[p], proc'[p])
<1>0. proc \in [Procs -> Handlers]
  BY DEF TypeInv, TypeOK
<1>r. UNCHANGED rows
  BY Zenon DEF Read, ReadWorkflow, ReadSteps, ReadStepForReview, ReadStepForCompletion,
     ReadStepForGate, ReadCheckpoint, CountPendingApprovals, ReadBack
<1>1. ASSUME NEW r, Return(p, r) PROVE Moved(p) /\ proc'[p] = IdleHandler
  BY <1>0, <1>1 DEF Return, Moved
<1>2. ASSUME Error(p) \/ Ok(p) \/ KeyMismatch(p) \/ \E d : Decided(p, d)
      PROVE  Moved(p) /\ proc'[p] = IdleHandler
  BY <1>1, <1>2, Zenon DEF Error, Ok, KeyMismatch, Decided
<1>3. ASSUME NEW c, Goto(p, c) PROVE Moved(p) /\ Stays(p) /\ proc'[p].pc = c
  BY <1>3, GotoFields DEF Moved, Stays
<1>4. CASE ReadWorkflow(p)
  <2>1. CASE Error(p)
    BY <1>2, <1>4, <1>r, <2>1 DEF ReadWorkflow, ReadOutcome
  <2>2. CASE ~Error(p)
    <3>1. PICK c : c = AfterWorkflowRead(proc[p].op)
      OBVIOUS
    <3>2. /\ Proceed(p, [proc[p] EXCEPT !.pc = c, !.status = wf.status, !.idx = wf.cur + 1])
          /\ proc[p].pc = "workflow"
          /\ RefusesTerminal(proc[p].op) => ~IsTerminal(wf.status)
      BY <1>4, <2>2, <3>1 DEF ReadWorkflow
    <3>3. Moved(p) /\ Stays(p) /\ proc'[p].pc = c
      BY <1>0, <3>2 DEF Proceed, Handlers, Moved, Stays
    <3> QED BY <1>r, <3>1, <3>2, <3>3 DEF ReadOutcome
  <2> QED BY <2>1, <2>2
<1>5. CASE ReadSteps(p)
  <2>0. proc[p].pc = "steps"
    BY <1>5, Zenon DEF ReadSteps
  <2>1. CASE proc[p].op = "complete"
    <3>1. Error(p) \/ (Goto(p, "write") /\ ~BlocksCompletion)
      BY <1>5, <2>1 DEF ReadSteps
    <3> QED BY <1>2, <1>3, <1>r, <2>0, <2>1, <3>1 DEF ReadOutcome
  <2>2. CASE proc[p].op # "complete"
    <3>1. \/ Goto(p, "row")
          \/ \E h : Proceed(p, [proc[p] EXCEPT !.pc = "row", !.hold = h])
      BY <1>5, <2>2, Zenon DEF ReadSteps
    <3>2. ASSUME NEW h, Proceed(p, [proc[p] EXCEPT !.pc = "row", !.hold = h])
          PROVE  Moved(p) /\ Stays(p) /\ proc'[p].pc = "row"
      BY <1>0, <3>2 DEF Proceed, Handlers, Moved, Stays
    <3>3. Moved(p) /\ Stays(p) /\ proc'[p].pc = "row"
      BY <1>3, <3>1, <3>2, Zenon
    <3> QED BY <1>r, <2>0, <2>2, <3>3 DEF ReadOutcome
  <2> QED BY <2>1, <2>2
<1>6. CASE ReadStepForReview(p)
  <2>1. /\ proc[p].pc = "row" /\ proc[p].op \in {"approve", "reject"}
        /\ Error(p) \/ (Goto(p, "write") /\ IsPending(steps[proc[p].step]))
    BY <1>6 DEF ReadStepForReview
  <2> QED BY <1>2, <1>3, <1>r, <2>1 DEF ReadOutcome
<1>7. CASE ReadStepForCompletion(p)
  <2>1. proc[p].pc = "row" /\ proc[p].op = "mark" /\ (KeyMismatch(p) \/ Goto(p, "write"))
    BY <1>7 DEF ReadStepForCompletion
  <2> QED BY <1>2, <1>3, <1>r, <2>1 DEF ReadOutcome
<1>8. CASE ReadStepForGate(p)
  <2>0. proc[p].pc = "row" /\ proc[p].op \in {"gate", "resume"}
    BY <1>8 DEF ReadStepForGate
  <2>1. CASE Error(p) \/ KeyMismatch(p) \/ Goto(p, "bump")
    BY <1>2, <1>3, <1>r, <2>0, <2>1 DEF ReadOutcome
  <2>2. CASE Evaluate(p)
    <3> DEFINE c(d) == IF EvalTier /\ d = "require_approval" /\ proc[p].mode # "override"
                       THEN "count" ELSE "add"
    <3>1. PICK d \in Decisions : Proceed(p, [proc[p] EXCEPT !.dec = d, !.pc = c(d)])
      BY <2>2 DEF Evaluate
    <3>2. c(d) \in {"count", "add"}
      OBVIOUS
    <3> HIDE DEF c
    <3>3. Moved(p) /\ proc'[p].pc = c(d)
      BY <1>0, <3>1 DEF Proceed, Handlers, Moved
    <3> QED BY <1>r, <2>0, <3>2, <3>3 DEF ReadOutcome
  <2> QED BY <1>8, <2>1, <2>2 DEF ReadStepForGate
<1>9. CASE ReadCheckpoint(p)
  <2>0. proc[p].pc = "checkpoint"
    BY <1>9, Zenon DEF ReadCheckpoint
  <2>1. CASE Error(p)
    BY <1>2, <1>r, <2>0, <2>1 DEF ReadOutcome
  <2>2. CASE ~Error(p)
    <3> DEFINE c == IF proc[p].status = "aborted" THEN "reset" ELSE "workflow"
    <3>1. \E s : Proceed(p, [proc[p] EXCEPT !.op = "resume", !.step = s,
                                            !.mode = "reevaluate", !.pc = c])
      BY <1>9, <2>2, Zenon DEF ReadCheckpoint
    <3>2. c \in {"reset", "workflow"}
      OBVIOUS
    <3> HIDE DEF c
    <3>3. Moved(p) /\ proc'[p].pc = c
      BY <1>0, <3>1 DEF Proceed, Handlers, Moved
    <3> QED BY <1>r, <2>0, <3>2, <3>3 DEF ReadOutcome
  <2> QED BY <2>1, <2>2
<1>10. CASE CountPendingApprovals(p)
  <2>1. proc[p].pc = "count" /\ (Goto(p, "add") \/ Goto(p, "enqueue"))
    BY <1>10 DEF CountPendingApprovals
  <2> QED BY <1>3, <1>r, <2>1 DEF ReadOutcome
<1>11. CASE ReadBack(p)
  <2>0. proc[p].pc = "readback"
    BY <1>11 DEF ReadBack
  <2>1. CASE steps[proc[p].step].decision = proc[p].dec
    <3>1. Goto(p, "saveCheckpoint")
      BY <1>11, <2>1 DEF ReadBack
    <3> QED BY <1>3, <1>r, <2>0, <2>1, <3>1 DEF ReadOutcome
  <2>2. CASE steps[proc[p].step].decision # proc[p].dec
    <3>1. PICK d : GateAnswer(p, d)
      BY <1>11, <2>2 DEF ReadBack
    <3>2. CASE proc[p].op = "resume"
      <4>1. proc' = [proc EXCEPT ![p] = [proc[p] EXCEPT !.pc = "resumeCount", !.dec = d]]
        BY <3>1, <3>2 DEF GateAnswer, Proceed
      <4>2. Moved(p) /\ proc'[p].pc = "resumeCount"
        BY <1>0, <4>1 DEF Moved, Handlers
      <4> QED BY <1>r, <2>0, <2>2, <4>2 DEF ReadOutcome
    <3>3. CASE proc[p].op # "resume"
      <4>1. Moved(p) /\ proc'[p] = IdleHandler
        BY <1>2, <3>1, <3>3 DEF GateAnswer
      <4> QED BY <1>r, <2>0, <2>2, <4>1 DEF ReadOutcome
    <3> QED BY <3>2, <3>3
  <2> QED BY <2>1, <2>2
<1> QED BY <1>4, <1>5, <1>6, <1>7, <1>8, <1>9, <1>10, <1>11 DEF Read

\* A gate that got past the terminal check, a completion that found nothing pending and
\* a review that found a pending step act on what is still true when they write.
SequentialLocal(q, st, status) ==
    /\ (q.pc \in EvaluatedPcs \/ (q.op \in {"gate", "resume"} /\ q.pc \in {"steps", "row"}))
          => status # "completed"
    /\ q.op = "complete" /\ q.pc = "write" => \A s \in Steps : ~IsPending(st[s])
    /\ q.op \in {"approve", "reject"} /\ q.pc = "write"
          => st[q.step].decision = "require_approval"

SequentialInv ==
    /\ TypeInv
    /\ ApprovalFollowsDecision
    /\ CompletedHasNoPending
    /\ \A p \in Procs : SequentialLocal(proc[p], steps, wf.status)

\* A new workflow has no rows and no requests.
LEMMA InitSequential == Init => SequentialInv
<1> SUFFICES ASSUME Init PROVE SequentialInv
  OBVIOUS
<1>1. ApprovalFollowsDecision /\ CompletedHasNoPending
  BY DEF Init, ApprovalFollowsDecision, CompletedHasNoPending, NoRow
<1>2. \A p \in Procs : SequentialLocal(proc[p], steps, wf.status)
  BY DEF Init, SequentialLocal, IdleHandler, EvaluatedPcs
<1> QED BY <1>1, <1>2, InitTypeInv DEF SequentialInv

\* A handler at any other pc relies on nothing.
LEMMA SequentialElsewhere ==
    ASSUME NEW q, NEW st, NEW status, q.pc \notin EvaluatedPcs \cup {"steps", "row", "write"}
    PROVE  SequentialLocal(q, st, status)
BY DEF SequentialLocal

\* Reads change no row, and a handler goes on only with what it has checked.
LEMMA ReadSequential ==
    ASSUME NEW p, Procs = {p}, SequentialInv, TypeInv', Read(p)
    PROVE  SequentialInv'
<1>0. /\ TypeInv /\ p \in Procs /\ SequentialLocal(proc[p], steps, wf.status)
  BY DEF SequentialInv
<1>1. /\ Moved(p) /\ wf' = wf /\ steps' = steps
      /\ ReadOutcome(p, proc[p], proc'[p])
  BY <1>0, ReadOutcomes DEF rows
<1>2. ApprovalFollowsDecision' /\ CompletedHasNoPending'
  BY <1>1 DEF SequentialInv, ApprovalFollowsDecision, CompletedHasNoPending
<1>3. SequentialLocal(proc'[p], steps, wf.status)
  <2>1. CASE proc'[p] = IdleHandler
    BY <2>1, SequentialElsewhere DEF IdleHandler, EvaluatedPcs
  <2>2. CASE proc[p].pc = "workflow" /\ Stays(p) /\ proc'[p].pc = AfterWorkflowRead(proc[p].op)
             /\ (RefusesTerminal(proc[p].op) => ~IsTerminal(wf.status))
    <3>1. proc[p].op \in AllOps \cup {"resume"}
      BY <1>0, <2>2 DEF TypeInv, HandlersOK, HandlerOK
    <3> QED BY <2>2, <3>1 DEF AfterWorkflowRead, RefusesTerminal, IsTerminal, Stays,
            SequentialLocal, AllOps, EvaluatedPcs
  <2>3. CASE proc[p].pc = "steps" /\ proc[p].op = "complete" /\ proc'[p].pc = "write" /\ Stays(p)
             /\ ~BlocksCompletion
    BY <2>3 DEF Stays, BlocksCompletion, SequentialLocal, EvaluatedPcs
  <2>4. CASE proc[p].pc = "steps" /\ proc[p].op # "complete" /\ proc'[p].pc = "row" /\ Stays(p)
    BY <1>0, <2>4 DEF Stays, SequentialLocal, EvaluatedPcs
  <2>5. CASE proc[p].pc = "row" /\ proc[p].op \in {"approve", "reject"} /\ proc'[p].pc = "write"
             /\ Stays(p) /\ IsPending(steps[proc[p].step])
    BY <2>5 DEF Stays, IsPending, SequentialLocal, EvaluatedPcs
  <2>6. CASE proc[p].pc = "row" /\ proc[p].op = "mark" /\ proc'[p].pc = "write" /\ Stays(p)
    BY <2>6 DEF Stays, SequentialLocal, EvaluatedPcs
  <2>7. CASE proc[p].pc = "row" /\ proc[p].op \in {"gate", "resume"}
             /\ proc'[p].pc \in {"bump", "count", "add"}
    BY <1>0, <2>7 DEF SequentialLocal
  <2>8. CASE proc'[p].pc \in {"reset", "workflow", "resumeCount"}
    BY <2>8, SequentialElsewhere DEF EvaluatedPcs
  <2>9. CASE proc[p].pc \in {"count", "readback"} /\ proc'[p].pc \in {"add", "enqueue", "saveCheckpoint"}
    BY <1>0, <2>9 DEF SequentialLocal, EvaluatedPcs
  <2> QED BY <1>1, <2>1, <2>2, <2>3, <2>4, <2>5, <2>6, <2>7, <2>8, <2>9 DEF ReadOutcome
<1> QED BY <1>1, <1>2, <1>3 DEF SequentialInv

\* A statement that ends its handler or moves it elsewhere needs the rows only.
LEMMA RestSequential ==
    ASSUME NEW p, Procs = {p}, SequentialInv, TypeInv',
           proc'[p].pc \notin EvaluatedPcs \cup {"steps", "row", "write"},
           ApprovalFollowsDecision', CompletedHasNoPending'
    PROVE  SequentialInv'
  BY SequentialElsewhere DEF SequentialInv

\* Where returns and jumps leave a handler.
LEMMA EndsAt ==
    ASSUME TypeInv, NEW p \in Procs
    PROVE  /\ \A d : Decided(p, d) => proc'[p].pc = "idle"
           /\ Ok(p) \/ Error(p) \/ KeyMismatch(p) => proc'[p].pc = "idle"
           /\ \A d : GateAnswer(p, d) => proc'[p].pc \in {"idle", "resumeCount"}
           /\ \A c : Goto(p, c) => proc'[p].pc = c /\ Stays(p)
<1>0. proc \in [Procs -> Handlers]
  BY DEF TypeInv, TypeOK
<1>1. ASSUME NEW r, Return(p, r) PROVE proc'[p].pc = "idle"
  BY <1>0, <1>1 DEF Return, IdleHandler
<1>2. \A d : Decided(p, d) => proc'[p].pc = "idle"
  BY <1>1, Zenon DEF Decided
<1>3. Ok(p) \/ Error(p) \/ KeyMismatch(p) => proc'[p].pc = "idle"
  BY <1>1, Zenon DEF Ok, Error, KeyMismatch
<1>4. ASSUME NEW d, GateAnswer(p, d) PROVE proc'[p].pc \in {"idle", "resumeCount"}
  <2>1. CASE proc[p].op = "resume"
    <3>1. proc' = [proc EXCEPT ![p] = [proc[p] EXCEPT !.pc = "resumeCount", !.dec = d]]
      BY <1>4, <2>1 DEF GateAnswer, Proceed
    <3> QED BY <1>0, <3>1 DEF Handlers
  <2>2. CASE proc[p].op # "resume"
    BY <1>2, <1>4, <2>2 DEF GateAnswer
  <2> QED BY <2>1, <2>2
<1>5. ASSUME NEW c, Goto(p, c) PROVE proc'[p].pc = c /\ Stays(p)
  BY <1>5, GotoFields DEF Stays
<1> QED BY <1>2, <1>3, <1>4, <1>5

\* A cached answer keeps the row's decision and its review.
LEMMA BumpedRowKeeps ==
    ASSUME NEW row \in Rows
    PROVE  /\ BumpedRow(row) \in Rows
           /\ BumpedRow(row).approval = row.approval /\ BumpedRow(row).decision = row.decision
<1>1. BumpedRow(row) \in Rows
  <2>1. /\ row.gates + 1 \in Nat /\ row.decision \in Decisions \cup {NoDecision}
        /\ \A g \in Nat, d \in Decisions \cup {NoDecision} : [row EXCEPT !.gates = g, !.last = d] \in Rows
    BY SetColumns, Zenon
  <2>2. [row EXCEPT !.gates = row.gates + 1, !.last = row.decision] \in Rows
    BY <2>1, Zenon
  <2> QED BY <2>2 DEF BumpedRow
<1>2. BumpedRow(row).approval = row.approval /\ BumpedRow(row).decision = row.decision
  BY DEF BumpedRow, Rows
<1> QED BY <1>1, <1>2

\* The writes keep what the callers rely on: the slot's own handler is the only one.
LEMMA WriteSequential ==
    ASSUME NEW p, Procs = {p}, SequentialInv, TypeInv', Write(p)
    PROVE  SequentialInv'
<1>0. /\ TypeInv /\ p \in Procs /\ SequentialLocal(proc[p], steps, wf.status)
      /\ proc \in [Procs -> Handlers] /\ steps \in [Steps -> Rows]
      /\ wf \in [status: Statuses, cur: Nat, total: Nat \cup {NoTotal}]
  BY DEF SequentialInv, TypeInv, TypeOK
<1>1. ASSUME steps' = steps, wf'.status = wf.status \/ wf'.status # "completed"
      PROVE  ApprovalFollowsDecision' /\ CompletedHasNoPending'
  BY <1>1 DEF SequentialInv, ApprovalFollowsDecision, CompletedHasNoPending
<1>2. ASSUME wf' = wf, NEW s \in Steps, NEW row \in Rows, steps' = [steps EXCEPT ![s] = row],
             row.approval = "none" <=> row.decision # "require_approval",
             IsPending(row) => wf.status # "completed" \/ IsPending(steps[s])
      PROVE  ApprovalFollowsDecision' /\ CompletedHasNoPending'
  BY <1>0, <1>2 DEF SequentialInv, ApprovalFollowsDecision, CompletedHasNoPending
<1>3. CASE EnqueueApproval(p) \/ UpdateCurrentStepIndex(p)
  <2>1. steps' = steps /\ wf'.status = wf.status /\ proc[p].pc \in EvaluatedPcs
    BY <1>0, <1>3 DEF EnqueueApproval, UpdateCurrentStepIndex, rows, EvaluatedPcs
  <2>2. proc'[p].pc \in {"add", "readback"}
    BY <1>0, <1>3, EndsAt, EnqueueFields DEF UpdateCurrentStepIndex
  <2>3. SequentialLocal(proc'[p], steps', wf'.status)
    BY <1>0, <2>1, <2>2 DEF SequentialLocal, EvaluatedPcs
  <2> QED BY <1>1, <2>1, <2>3 DEF SequentialInv
<1>4. CASE CreateCheckpoint(p) \/ ResetStatus(p) \/ IncrementResumeCount(p)
  <2>1. steps' = steps /\ (wf'.status = wf.status \/ wf'.status # "completed")
    BY <1>0, <1>4 DEF CreateCheckpoint, ResetStatus, IncrementResumeCount
  <2>2. proc'[p].pc \in {"idle", "resumeCount", "workflow"}
    BY <1>0, <1>4, EndsAt DEF CreateCheckpoint, ResetStatus, IncrementResumeCount
  <2> QED BY <1>1, <2>1, <2>2, RestSequential DEF EvaluatedPcs
<1>5. CASE AbortRejected(p) \/ AbortWorkflow(p) \/ FailWorkflow(p)
  <2>1. PICK st \in {"aborted", "failed"} : wf' = Finalised(wf, st)
    BY <1>5 DEF AbortRejected, AbortWorkflow, FailWorkflow, FinaliseWorkflow
  <2>2. steps' = steps /\ Ok(p)
    BY <1>5 DEF AbortRejected, AbortWorkflow, FailWorkflow, FinaliseWorkflow
  <2>3. wf'.status = st
    BY <1>0, <2>1 DEF Finalised
  <2>4. proc'[p].pc = "idle"
    BY <1>0, <2>2, EndsAt
  <2> QED BY <1>1, <2>2, <2>3, <2>4, RestSequential DEF EvaluatedPcs
<1>6. CASE CompleteWorkflow(p)
  <2>1. steps' = steps /\ Ok(p) /\ proc[p].op = "complete" /\ proc[p].pc = "write"
    BY <1>6 DEF CompleteWorkflow, FinaliseWorkflow
  <2>2. \A s \in Steps : ~IsPending(steps[s])
    BY <1>0, <2>1 DEF SequentialLocal
  <2>3. ApprovalFollowsDecision' /\ CompletedHasNoPending'
    BY <2>1, <2>2 DEF SequentialInv, ApprovalFollowsDecision, CompletedHasNoPending
  <2>4. proc'[p].pc = "idle"
    BY <1>0, <2>1, EndsAt
  <2> QED BY <2>3, <2>4, RestSequential DEF EvaluatedPcs
<1>7. CASE AddStep(p)
  <2>1. PICK s, row : s = proc[p].step /\ row = AddStepRow(steps[s], proc[p])
    OBVIOUS
  <2>2. s \in Steps /\ row \in Rows
    BY <1>0, <1>7, <2>1, HandlerStep, AddStepRowType DEF AddStep, GatePcs, EvaluatedPcs
  <2>3. wf' = wf /\ steps' = [steps EXCEPT ![s] = row]
    BY <1>7, <2>1 DEF AddStep
  <2>4. row.approval = "none" <=> row.decision # "require_approval"
    BY <2>1 DEF AddStepRow, GatedApproval
  <2>5. proc[p].pc = "add" /\ wf.status # "completed"
    BY <1>0, <1>7 DEF AddStep, SequentialLocal, EvaluatedPcs
  <2>6. proc'[p].pc = "cursor"
    BY <1>0, <1>7, EndsAt DEF AddStep
  <2>7. SequentialLocal(proc'[p], steps', wf'.status)
    BY <2>3, <2>5, <2>6 DEF SequentialLocal
  <2>8. ApprovalFollowsDecision' /\ CompletedHasNoPending'
    BY <1>2, <2>2, <2>3, <2>4, <2>5
  <2> QED BY <2>7, <2>8 DEF SequentialInv
<1>8. CASE BumpGateCountCached(p)
  <2>1. PICK s, row : s = proc[p].step /\ row = BumpedRow(steps[s])
    OBVIOUS
  <2>2. s \in Steps /\ steps[s] \in Rows
    BY <1>0, <1>8, <2>1, HandlerStep DEF BumpGateCountCached, GatePcs
  <2>3. row \in Rows /\ row.approval = steps[s].approval /\ row.decision = steps[s].decision
    BY <2>1, <2>2, BumpedRowKeeps
  <2>4. wf' = wf /\ steps' = [steps EXCEPT ![s] = row]
    BY <1>8, <2>1 DEF BumpGateCountCached
  <2>5. ApprovalFollowsDecision' /\ CompletedHasNoPending'
    BY <1>2, <2>2, <2>3, <2>4 DEF IsPending, SequentialInv, ApprovalFollowsDecision
  <2>6. proc'[p].pc = "idle"
    BY <1>0, <1>8, EndsAt DEF BumpGateCountCached
  <2> QED BY <2>5, <2>6, RestSequential DEF EvaluatedPcs
<1>9. CASE ApproveStep(p) \/ RejectStep(p)
  <2>1. PICK s, a : /\ s = proc[p].step /\ a \in {"approved", "rejected"}
                    /\ steps' = [steps EXCEPT ![s].approval = a] /\ wf' = wf
    BY <1>9 DEF ApproveStep, RejectStep
  <2>2. s \in Steps /\ steps[s] \in Rows
    BY <1>0, <1>9, <2>1, HandlerStep DEF ApproveStep, RejectStep, StepOps
  <2>3. PICK row : row = [steps[s] EXCEPT !.approval = a]
    OBVIOUS
  <2>4. row \in Rows /\ row.approval = a /\ row.decision = steps[s].decision
    BY <2>1, <2>2, <2>3 DEF Rows
  <2>5. row.decision = "require_approval"
    BY <1>0, <1>9, <2>1, <2>4 DEF ApproveStep, RejectStep, SequentialLocal
  <2>6. steps' = [steps EXCEPT ![s] = row]
    BY <2>1, <2>3
  <2>7. ApprovalFollowsDecision' /\ CompletedHasNoPending'
    BY <1>2, <2>1, <2>2, <2>4, <2>5, <2>6 DEF IsPending
  <2>8. proc'[p].pc \in {"idle", "abortRejected"}
    BY <1>0, <1>9, EndsAt DEF ApproveStep, RejectStep
  <2> QED BY <2>7, <2>8, RestSequential DEF EvaluatedPcs
<1>10. CASE MarkStepCompleted(p)
  <2>1. PICK s, row : s = proc[p].step /\ row = [steps[s] EXCEPT !.completions = @ + 1]
    OBVIOUS
  <2>2. s \in Steps /\ steps[s] \in Rows
    BY <1>0, <1>10, <2>1, HandlerStep DEF MarkStepCompleted, StepOps
  <2>3. row \in Rows /\ row.approval = steps[s].approval /\ row.decision = steps[s].decision
    BY <2>1, <2>2 DEF Rows
  <2>4. wf' = wf /\ (steps' = steps \/ steps' = [steps EXCEPT ![s] = row])
    BY <1>10, <2>1 DEF MarkStepCompleted
  <2>5. ApprovalFollowsDecision' /\ CompletedHasNoPending'
    BY <1>1, <1>2, <2>2, <2>3, <2>4 DEF IsPending, SequentialInv, ApprovalFollowsDecision
  <2>6. proc'[p].pc = "idle"
    BY <1>0, <1>10, EndsAt DEF MarkStepCompleted
  <2> QED BY <2>5, <2>6, RestSequential DEF EvaluatedPcs
<1> QED BY <1>3, <1>4, <1>5, <1>6, <1>7, <1>8, <1>9, <1>10 DEF Write

\* A failing statement ends the handler or moves it past what it relied on.
LEMMA FaultSequential ==
    ASSUME NEW p, Procs = {p}, SequentialInv, TypeInv', Call(p) \/ Fault(p)
    PROVE  SequentialInv'
<1>0. /\ TypeInv /\ p \in Procs /\ SequentialLocal(proc[p], steps, wf.status)
      /\ proc \in [Procs -> Handlers]
  BY DEF SequentialInv, TypeInv, TypeOK
<1>1. steps' = steps /\ wf' = wf
  BY DEF Call, Fault, StatementFails, BestEffortFails, rows
<1>2. ApprovalFollowsDecision' /\ CompletedHasNoPending'
  BY <1>1 DEF SequentialInv, ApprovalFollowsDecision, CompletedHasNoPending
<1>3. CASE Call(p)
  <2>1. PICK r : proc' = [proc EXCEPT ![p] = NewHandler(r)]
    BY <1>3 DEF Call, Proceed
  <2>2. proc'[p].pc = "workflow"
    BY <1>0, <2>1 DEF NewHandler
  <2> QED BY <1>2, <2>2, RestSequential DEF EvaluatedPcs
<1>4. CASE Fault(p)
  <2>1. CASE proc[p].pc \in DOMAIN BestEffort /\ Goto(p, BestEffort[proc[p].pc])
    <3>1. proc[p].pc \in EvaluatedPcs /\ BestEffort[proc[p].pc] \in {"add", "readback"}
      BY <2>1 DEF BestEffort, EvaluatedPcs
    <3>2. proc'[p].pc \in {"add", "readback"}
      BY <1>0, <2>1, <3>1, EndsAt
    <3>3. SequentialLocal(proc'[p], steps', wf'.status)
      BY <1>0, <1>1, <3>1, <3>2 DEF SequentialLocal, EvaluatedPcs
    <3> QED BY <1>2, <3>3 DEF SequentialInv
  <2>2. CASE Error(p) \/ Ok(p) \/ Decided(p, proc[p].dec) \/ GateAnswer(p, proc[p].dec)
    <3>1. proc'[p].pc \in {"idle", "resumeCount"}
      BY <1>0, <2>2, EndsAt
    <3> QED BY <1>2, <3>1, RestSequential DEF EvaluatedPcs
  <2> QED BY <1>4, <2>1, <2>2 DEF Fault, StatementFails, BestEffortFails
<1> QED BY <1>3, <1>4

\* The sweep runs beside the request: it takes pending approvals away and completes nothing.
LEMMA SweepSequential ==
    ASSUME SequentialInv, TypeInv', Sweep \/ SweepStatementFails \/ SweepDies \/ UNCHANGED vars
    PROVE  SequentialInv'
<1>0. /\ steps \in [Steps -> Rows] /\ proc \in [Procs -> Handlers] /\ TypeInv
      /\ wf \in [status: Statuses, cur: Nat, total: Nat \cup {NoTotal}]
  BY DEF SequentialInv, TypeInv, TypeOK
<1>1. proc' = proc
  <2>1. CASE UNCHANGED vars
    BY <2>1 DEF vars
  <2>2. CASE Sweep \/ SweepStatementFails \/ SweepDies
    BY <2>2, Zenon DEF Sweep, SweepExpire, SweepStep, SweepAbort, SweepStatementFails, SweepDies
  <2> QED BY <2>1, <2>2
<1>2. wf'.status = wf.status \/ wf'.status # "completed"
  <2>1. CASE SweepAbort
    BY <1>0, <2>1 DEF SweepAbort, SweptStatus
  <2>2. CASE SweepExpire \/ SweepStep \/ SweepStatementFails \/ SweepDies
    <3>1. UNCHANGED wf
      BY <2>2, Zenon DEF SweepExpire, SweepStep, SweepStatementFails, SweepDies, rows
    <3> QED BY <3>1
  <2>3. CASE UNCHANGED vars
    BY <2>3 DEF vars
  <2> QED BY <2>1, <2>2, <2>3 DEF Sweep
<1>3. \A s \in Steps : /\ steps'[s].decision = steps[s].decision
                       /\ \/ steps'[s].approval = steps[s].approval
                          \/ steps[s].approval = "pending" /\ steps'[s].approval = "expired"
  <2>1. CASE SweepStep
    <3>1. PICK t \in Steps : steps' = [steps EXCEPT ![t] = ExpiredRow(@)]
      BY <2>1 DEF SweepStep
    <3> QED BY <1>0, <3>1 DEF ExpiredRow, Rows
  <2>2. CASE SweepExpire \/ SweepAbort \/ SweepStatementFails \/ SweepDies
    <3>1. UNCHANGED steps
      BY <2>2, Zenon DEF SweepExpire, SweepAbort, SweepStatementFails, SweepDies, rows
    <3> QED BY <3>1
  <2>3. CASE UNCHANGED vars
    BY <2>3 DEF vars
  <2> QED BY <2>1, <2>2, <2>3 DEF Sweep
<1>4. ApprovalFollowsDecision'
  BY <1>3 DEF SequentialInv, ApprovalFollowsDecision
<1>5. \A s \in Steps : IsPending(steps'[s]) => IsPending(steps[s])
  BY <1>3 DEF IsPending
<1>6. CompletedHasNoPending'
  BY <1>2, <1>5 DEF SequentialInv, CompletedHasNoPending
<1>7. ASSUME NEW p \in Procs PROVE SequentialLocal(proc'[p], steps', wf'.status)
  <2>1. SequentialLocal(proc[p], steps, wf.status)
    BY DEF SequentialInv
  <2>2. proc[p].op \in {"approve", "reject"} => proc[p].step \in Steps
    BY <1>0, HandlerStep DEF StepOps
  <2> QED BY <1>1, <1>2, <1>3, <1>5, <2>1, <2>2 DEF SequentialLocal
<1> QED BY <1>4, <1>6, <1>7 DEF SequentialInv

\* With one slot every step preserves the invariant.
LEMMA NextSequential ==
    ASSUME NEW p, Procs = {p}
    PROVE  SequentialInv /\ [Next]_vars => SequentialInv'
<1> SUFFICES ASSUME SequentialInv, [Next]_vars PROVE SequentialInv'
  OBVIOUS
<1>1. TypeInv'
  BY NextTypeInv DEF SequentialInv
<1>2. CASE Call(p) \/ Read(p) \/ Write(p) \/ Fault(p)
  BY <1>1, <1>2, FaultSequential, ReadSequential, WriteSequential
<1>3. CASE Sweep \/ SweepStatementFails \/ SweepDies \/ UNCHANGED vars
  BY <1>1, <1>3, SweepSequential
<1> QED BY <1>2, <1>3 DEF Next, Serve, Done

\* For a caller that waits for each answer, a completed workflow never has a step waiting
\* for a reviewer: nothing comes between CompleteWorkflow's look at the steps and its
\* UPDATE, whatever the sweep does and whichever statements fail, in any sequence of calls.
THEOREM CompletedIsSettled ==
    ASSUME NEW p, Procs = {p}
    PROVE  Spec => []CompletedHasNoPending
<1>1. SequentialInv /\ [Next]_vars => SequentialInv'
  BY NextSequential
<1>2. SequentialInv => CompletedHasNoPending
  BY DEF SequentialInv
<1> QED BY <1>1, <1>2, InitSequential, PTL DEF Spec

\* For such a caller an approval always belongs to the decision it was given for: the
\* upsert of AddStep resets it and a review only meets a step that asks for one.
THEOREM ApprovalsFollow ==
    ASSUME NEW p, Procs = {p}
    PROVE  Spec => []ApprovalFollowsDecision
<1>1. SequentialInv /\ [Next]_vars => SequentialInv'
  BY NextSequential
<1>2. SequentialInv => ApprovalFollowsDecision
  BY DEF SequentialInv
<1> QED BY <1>1, <1>2, InitSequential, PTL DEF Spec

\* While a gate is between its upsert and its checkpoint the two may differ on its step,
\* and the row carries the gate's own decision.
CheckpointInv ==
    /\ TypeInv
    /\ \A p \in Procs : proc[p].pc \in AddedPcs => steps[proc[p].step].decision = proc[p].dec
    /\ \A s \in Steps : (\A p \in Procs : ~(proc[p].pc \in AddedPcs /\ proc[p].step = s))
                           => cps[s].decision = steps[s].decision

\* No row, no checkpoint.
LEMMA InitCheckpoint == Init => CheckpointInv
<1> SUFFICES ASSUME Init PROVE CheckpointInv
  OBVIOUS
<1>1. \A p \in Procs : proc[p].pc \notin AddedPcs
  BY DEF Init, IdleHandler, AddedPcs
<1>2. \A s \in Steps : cps[s].decision = steps[s].decision
  BY DEF Init, NoRow, NoCheckpoint
<1> QED BY <1>1, <1>2, InitTypeInv DEF CheckpointInv

\* Steps that change no decision, of a handler that stays on its side of the upsert.
LEMMA CheckpointKept ==
    ASSUME NEW p, Procs = {p}, CheckpointInv, TypeInv', cps' = cps,
           \A s \in Steps : steps'[s].decision = steps[s].decision,
           \/ proc'[p].pc \notin AddedPcs /\ proc[p].pc \notin AddedPcs
           \/ proc'[p].pc \in AddedPcs /\ proc[p].pc \in AddedPcs /\ Stays(p)
    PROVE  CheckpointInv'
<1>1. p \in Procs /\ TypeInv
  BY DEF CheckpointInv
<1>2. proc[p].pc \in AddedPcs => proc[p].step \in Steps
  BY <1>1, HandlerStep DEF AddedPcs, GatePcs, EvaluatedPcs
<1>3. proc'[p].pc \in AddedPcs => steps'[proc'[p].step].decision = proc'[p].dec
  BY <1>1, <1>2 DEF CheckpointInv, Stays
<1>4. ASSUME NEW s \in Steps, ~(proc'[p].pc \in AddedPcs /\ proc'[p].step = s)
      PROVE  cps'[s].decision = steps'[s].decision
  <2>1. ~(proc[p].pc \in AddedPcs /\ proc[p].step = s)
    BY <1>4 DEF Stays
  <2>2. cps[s].decision = steps[s].decision
    BY <2>1 DEF CheckpointInv
  <2> QED BY <2>2
<1> QED BY <1>1, <1>3, <1>4 DEF CheckpointInv

\* No read changes a row; the readback finds the gate's own decision.
LEMMA ReadCheckpoints ==
    ASSUME NEW p, Procs = {p}, CheckpointInv, TypeInv', Read(p)
    PROVE  CheckpointInv'
<1>0. TypeInv /\ p \in Procs
  BY DEF CheckpointInv
<1>1. ReadOutcome(p, proc[p], proc'[p]) /\ steps' = steps /\ cps' = cps
  BY <1>0, ReadOutcomes DEF rows
<1>2. proc[p].pc \in AddedPcs => steps[proc[p].step].decision = proc[p].dec
  BY <1>0 DEF CheckpointInv
<1>3. proc[p].pc = "workflow" => proc[p].op \in AllOps \cup {"resume"}
  BY <1>0 DEF TypeInv, HandlersOK, HandlerOK
<1>4. proc[p].pc = "workflow" => AfterWorkflowRead(proc[p].op) \notin AddedPcs
  BY <1>3 DEF AfterWorkflowRead, AllOps, AddedPcs
<1>5. proc[p].pc \in {"workflow", "steps", "row", "checkpoint", "count", "readback"}
  BY Zenon DEF Read, ReadWorkflow, ReadSteps, ReadStepForReview, ReadStepForCompletion,
     ReadStepForGate, ReadCheckpoint, CountPendingApprovals, ReadBack
<1>6. \/ proc'[p].pc \notin AddedPcs /\ proc[p].pc \notin AddedPcs
      \/ proc'[p].pc \in AddedPcs /\ proc[p].pc \in AddedPcs /\ Stays(p)
  BY <1>1, <1>2, <1>4, <1>5 DEF ReadOutcome, IdleHandler, AddedPcs
<1> QED BY <1>1, <1>6, CheckpointKept

\* The upsert opens the gap, the checkpoint closes it; nothing else touches decisions.
LEMMA WriteCheckpoints ==
    ASSUME NEW p, Procs = {p}, CheckpointInv, TypeInv', Write(p)
    PROVE  CheckpointInv'
<1>0. /\ TypeInv /\ p \in Procs /\ proc \in [Procs -> Handlers] /\ steps \in [Steps -> Rows]
      /\ cps \in [Steps -> Checkpoints]
  BY DEF CheckpointInv, TypeInv, TypeOK
<1>1. CASE AddStep(p)
  <2>1. /\ proc[p].pc = "add" /\ cps' = cps /\ Goto(p, "cursor")
        /\ steps' = [steps EXCEPT ![proc[p].step] = AddStepRow(@, proc[p])]
    BY <1>1 DEF AddStep
  <2>2. proc[p].step \in Steps
    BY <1>0, <2>1, HandlerStep DEF GatePcs, EvaluatedPcs
  <2>3. proc'[p].pc = "cursor" /\ Stays(p)
    BY <1>0, <2>1, EndsAt
  <2>4. AddStepRow(steps[proc[p].step], proc[p]).decision = proc[p].dec
    BY DEF AddStepRow
  <2>5. \A s \in Steps : steps'[s].decision = IF s = proc[p].step THEN proc[p].dec ELSE steps[s].decision
    BY <1>0, <2>1, <2>2, <2>4
  <2>6. \A s \in Steps : cps[s].decision = steps[s].decision
    BY <2>1 DEF CheckpointInv, AddedPcs
  <2> QED BY <1>0, <2>1, <2>2, <2>3, <2>5, <2>6 DEF CheckpointInv, Stays, AddedPcs
<1>2. CASE CreateCheckpoint(p)
  <2>1. /\ proc[p].pc = "saveCheckpoint" /\ steps' = steps /\ GateAnswer(p, proc[p].dec)
        /\ cps' = [cps EXCEPT ![proc[p].step] = CheckpointRow(@, proc[p])]
    BY <1>2 DEF CreateCheckpoint
  <2>2. proc[p].step \in Steps
    BY <1>0, <2>1, HandlerStep DEF GatePcs, EvaluatedPcs
  <2>3. proc'[p].pc \notin AddedPcs
    BY <1>0, <2>1, EndsAt DEF AddedPcs
  <2>4. CheckpointRow(cps[proc[p].step], proc[p]).decision = proc[p].dec
    BY <1>0, <2>2 DEF CheckpointRow, Checkpoints
  <2>5. \A s \in Steps : cps'[s].decision = IF s = proc[p].step THEN proc[p].dec ELSE cps[s].decision
    BY <1>0, <2>1, <2>2, <2>4
  <2>6. steps[proc[p].step].decision = proc[p].dec
    BY <1>0, <2>1 DEF CheckpointInv, AddedPcs
  <2>7. \A s \in Steps : s # proc[p].step => cps[s].decision = steps[s].decision
    BY DEF CheckpointInv
  <2>8. \A s \in Steps : cps'[s].decision = steps'[s].decision
    BY <2>1, <2>5, <2>6, <2>7
  <2> QED BY <2>3, <2>8 DEF CheckpointInv
<1>3. CASE IncrementResumeCount(p)
  <2>1. /\ proc[p].pc = "resumeCount" /\ steps' = steps /\ Decided(p, proc[p].dec)
        /\ cps' = [cps EXCEPT ![proc[p].step].resumes = @ + 1]
    BY <1>3 DEF IncrementResumeCount
  <2>2. \A s \in Steps : cps'[s].decision = cps[s].decision
    BY <1>0, <2>1 DEF Checkpoints
  <2>3. proc'[p].pc \notin AddedPcs
    BY <1>0, <2>1, EndsAt DEF AddedPcs
  <2>4. \A s \in Steps : cps[s].decision = steps[s].decision
    BY <2>1 DEF CheckpointInv, AddedPcs
  <2> QED BY <2>1, <2>2, <2>3, <2>4 DEF CheckpointInv
<1>4. CASE UpdateCurrentStepIndex(p)
  <2>1. proc[p].pc = "cursor" /\ steps' = steps /\ cps' = cps /\ Goto(p, "readback")
    BY <1>4 DEF UpdateCurrentStepIndex
  <2>2. proc'[p].pc = "readback" /\ Stays(p)
    BY <1>0, <2>1, EndsAt
  <2> QED BY <2>1, <2>2, CheckpointKept DEF AddedPcs
<1>5. CASE EnqueueApproval(p) \/ ResetStatus(p)
  <2>1. proc[p].pc \in {"enqueue", "reset"} /\ steps' = steps /\ cps' = cps
    BY <1>5 DEF EnqueueApproval, ResetStatus, rows
  <2>2. proc'[p].pc \in {"add", "workflow"}
    BY <1>0, <1>5, EndsAt, EnqueueFields DEF ResetStatus
  <2> QED BY <2>1, <2>2, CheckpointKept DEF AddedPcs
<1>6. CASE AbortRejected(p) \/ CompleteWorkflow(p) \/ AbortWorkflow(p) \/ FailWorkflow(p)
  <2>1. Ok(p) /\ steps' = steps /\ cps' = cps /\ proc[p].pc \in {"write", "abortRejected"}
    BY <1>6 DEF AbortRejected, CompleteWorkflow, AbortWorkflow, FailWorkflow, FinaliseWorkflow
  <2>2. proc'[p].pc = "idle"
    BY <1>0, <2>1, EndsAt
  <2> QED BY <2>1, <2>2, CheckpointKept DEF AddedPcs
<1>7. CASE BumpGateCountCached(p)
  <2>1. /\ proc[p].pc = "bump" /\ cps' = cps
        /\ steps' = [steps EXCEPT ![proc[p].step] = BumpedRow(@)]
    BY <1>7 DEF BumpGateCountCached
  <2>2. \A s \in Steps : steps'[s].decision = steps[s].decision
    BY <1>0, <2>1 DEF BumpedRow, Rows
  <2>3. proc'[p].pc = "idle"
    BY <1>0, <1>7, EndsAt DEF BumpGateCountCached
  <2> QED BY <2>1, <2>2, <2>3, CheckpointKept DEF AddedPcs
<1>8. CASE ApproveStep(p) \/ RejectStep(p) \/ MarkStepCompleted(p)
  <2>1. proc[p].pc = "write" /\ cps' = cps
    BY <1>8 DEF ApproveStep, RejectStep, MarkStepCompleted
  <2>2. \A s \in Steps : steps'[s].decision = steps[s].decision
    <3>1. \/ steps' = steps
          \/ \E a : steps' = [steps EXCEPT ![proc[p].step].approval = a]
          \/ steps' = [steps EXCEPT ![proc[p].step].completions = @ + 1]
      BY <1>8, Zenon DEF ApproveStep, RejectStep, MarkStepCompleted
    <3>2. ASSUME NEW a, steps' = [steps EXCEPT ![proc[p].step].approval = a]
          PROVE  \A s \in Steps : steps'[s].decision = steps[s].decision
      BY <1>0, <3>2 DEF Rows
    <3>3. ASSUME steps' = [steps EXCEPT ![proc[p].step].completions = @ + 1]
          PROVE  \A s \in Steps : steps'[s].decision = steps[s].decision
      BY <1>0, <3>3 DEF Rows
    <3> QED BY <3>1, <3>2, <3>3
  <2>3. proc'[p].pc \in {"idle", "abortRejected"}
    BY <1>0, <1>8, EndsAt DEF ApproveStep, RejectStep, MarkStepCompleted
  <2> QED BY <2>1, <2>2, <2>3, CheckpointKept DEF AddedPcs
<1> QED BY <1>1, <1>2, <1>3, <1>4, <1>5, <1>6, <1>7, <1>8 DEF Write

\* New requests and the sweep change no decision.
LEMMA OtherCheckpoints ==
    ASSUME NEW p, Procs = {p}, CheckpointInv, TypeInv',
           Call(p) \/ Sweep \/ SweepStatementFails \/ SweepDies \/ UNCHANGED vars
    PROVE  CheckpointInv'
<1>0. TypeInv /\ p \in Procs /\ proc \in [Procs -> Handlers] /\ steps \in [Steps -> Rows]
  BY DEF CheckpointInv, TypeInv, TypeOK
<1>1. CASE Call(p)
  <2>1. PICK r : proc' = [proc EXCEPT ![p] = NewHandler(r)]
    BY <1>1 DEF Call, Proceed
  <2>2. proc[p].pc = "idle" /\ proc'[p].pc = "workflow" /\ steps' = steps /\ cps' = cps
    BY <1>0, <1>1, <2>1 DEF Call, NewHandler, rows
  <2> QED BY <2>2, CheckpointKept DEF AddedPcs
<1>2. ASSUME proc' = proc, cps' = cps, \A s \in Steps : steps'[s].decision = steps[s].decision
      PROVE  CheckpointInv'
  BY <1>2, CheckpointKept DEF Stays
<1>3. CASE SweepStep
  <2>1. PICK t \in Steps : steps' = [steps EXCEPT ![t] = ExpiredRow(@)]
    BY <1>3 DEF SweepStep
  <2>2. \A s \in Steps : steps'[s].decision = steps[s].decision
    BY <1>0, <2>1 DEF ExpiredRow, Rows
  <2>3. proc' = proc /\ cps' = cps
    BY <1>3 DEF SweepStep
  <2> QED BY <1>2, <2>2, <2>3
<1>4. CASE SweepExpire \/ SweepAbort \/ SweepStatementFails \/ SweepDies
  <2>1. UNCHANGED <<proc, cps, steps>>
    BY <1>4, Zenon DEF SweepExpire, SweepAbort, SweepStatementFails, SweepDies, rows
  <2> QED BY <1>2, <2>1
<1>5. CASE UNCHANGED vars
  BY <1>2, <1>5 DEF vars
<1> QED BY <1>1, <1>3, <1>4, <1>5 DEF Sweep

\* With one slot and no failing statement every step preserves the invariant.
LEMMA NextCheckpoint ==
    ASSUME NEW p, Procs = {p}, MaxFaults = 0
    PROVE  CheckpointInv /\ [Next]_vars => CheckpointInv'
<1> SUFFICES ASSUME CheckpointInv, [Next]_vars PROVE CheckpointInv'
  OBVIOUS
<1>1. TypeInv'
  BY NextTypeInv DEF CheckpointInv
<1>2. ~Fault(p)
  BY DEF Fault, StatementFails, BestEffortFails, CheckpointInv, TypeInv, TypeOK
<1>3. CASE Read(p) \/ Write(p)
  BY <1>1, <1>3, ReadCheckpoints, WriteCheckpoints
<1>4. CASE Call(p) \/ Sweep \/ SweepStatementFails \/ SweepDies \/ UNCHANGED vars
  BY <1>1, <1>4, OtherCheckpoints
<1> QED BY <1>2, <1>3, <1>4 DEF Next, Serve, Done

\* For a caller that waits for each answer and while no statement fails, the checkpoint of
\* a step carries its recorded decision whenever no request is under way, in any sequence
\* of gates, cached answers, reviews and resumes: CreateCheckpoint follows every upsert.
THEOREM CheckpointsFollow ==
    ASSUME NEW p, Procs = {p}, MaxFaults = 0
    PROVE  Spec => []CheckpointFollowsStep
<1>1. CheckpointInv /\ [Next]_vars => CheckpointInv'
  BY NextCheckpoint
<1>2. CheckpointInv => CheckpointFollowsStep
  BY DEF CheckpointInv, CheckpointFollowsStep, AddedPcs
<1> QED BY <1>1, <1>2, InitCheckpoint, PTL DEF Spec

=============================================================================

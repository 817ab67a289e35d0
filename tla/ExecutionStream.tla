--------------------------- MODULE ExecutionStream ---------------------------
(***************************************************************************)
(* The unified execution tracker and its event stream: one row of          *)
(* execution_history, the calls of the control plane that keep it in step  *)
(* with a workflow (wcp_execution_tracker.go over shared/execution), the   *)
(* in-memory event hub, and the SSE handlers that show the row to clients  *)
(* under a tenant's connection limit.                                      *)
(*                                                                         *)
(* The steps of an execution are one JSON array: every change of a step    *)
(* reads the whole array, changes its copy and writes it back.             *)
(***************************************************************************)
EXTENDS Integers, FiniteSets, Sequences, SequencesExt

CONSTANTS
    Writers,         \* control-plane requests in flight at the same time
    Steps,           \* steps of the workflow
    NoStep,          \* the step of an operation on the whole workflow
    Streams,         \* SSE requests, one use each
    MaxConnections,  \* SSE connections a tenant may hold; -1 is unlimited
    ChannelSize,     \* capacity of a subscriber's channel (16 in the code)
    MaxOps,          \* bound: control-plane operations in a behaviour
    MaxFaults        \* bound: calls of the tracker that fail in a behaviour

ASSUME LimitAssumption ==
    /\ MaxConnections \in Int
    /\ ChannelSize \in Nat \ {0}
    /\ MaxOps \in Nat /\ MaxFaults \in Nat
ASSUME StepAssumption == NoStep \notin Steps

VARIABLES
    tracked,      \* whether the row exists: the workflow is there before it
    row,          \* the execution_history row: status and steps
    proc,         \* the tracker call of each writer
    stream,       \* the SSE handlers: pc, status to send first, channel
    connections,  \* ConnectionTracker: the tenant's count
    ended,        \* the workflow itself has reached a terminal status
    told,         \* history: the status the control plane last reported of a step
    gated,        \* history: how often a step was gated
    announced,    \* history: an event with a terminal status was published
    missed,       \* history: streams that no terminal event will reach
    overlapped,   \* history: two tracker calls were in flight at once
    ops,          \* operations so far
    faults        \* failed calls so far

vars == <<tracked, row, proc, stream, connections, ended, told, gated, announced, missed, overlapped,
          ops, faults>>
writerVars == <<tracked, row, proc, ended, told, gated, overlapped, ops, faults>>
streamVars == <<stream, connections, missed>>

-----------------------------------------------------------------------------
(* Rows, events and handlers.                                              *)

Terminal == {"completed", "cancelled"}
StepStates == {"running", "approval", "blocked", "completed", "failed"}
Entry(s, st) == [id |-> s, status |-> st]

\* What the end of a workflow makes of the row's status.  FailWorkflow does what
\* AbortWorkflow does, under the name "failed".
Final == [finish |-> "completed", abort |-> "cancelled"]
StepOps == {"gate", "review", "complete"}

Idle == [pc |-> "idle", op |-> "gate", step |-> NoStep, status |-> "running", view |-> <<>>,
         data |-> "pending"]

\* The copy of the steps is used for one write only.
Goto(w, pc) == proc' = [proc EXCEPT ![w] = [Idle EXCEPT !.pc = pc, !.op = proc[w].op]]
Return(w)   == proc' = [proc EXCEPT ![w] = Idle]
At(w, pc)   == proc[w].pc = pc

\* key: the id the handler was answered with, and subscribes to.
Fresh == [pc |-> "idle", key |-> "execution", seen |-> "pending", chan |-> <<>>]
Subscribed(s) == stream[s].pc = "loop"
\* The hub publishes on the ids of executions only.
Hears(s) == Subscribed(s) /\ stream[s].key = "execution"
\* Between TryConnect and the deferred Disconnect.
Open(s) == stream[s].pc \in {"initial", "loop"}

\* The first entry of a step, which is the only one later calls find.
FirstOf(steps, s) == SelectInSeq(steps, LAMBDA e : e.id = s)
Update(steps, s, st) ==
    IF FirstOf(steps, s) = 0 THEN steps ELSE [steps EXCEPT ![FirstOf(steps, s)].status = st]
HasRunning(steps) == \E i \in DOMAIN steps : steps[i].status = "running"

\* Mutant: AddStep replaces the entries it has read.
AddStepOnly(steps, s, st) == <<Entry(s, st)>>

\* AddStep appends, for a step that is there already too.
AddStep(steps, s, st) == Append(steps, Entry(s, st))

\* SyncWorkflowStatus: every step still running is completed with the workflow.
Finalised(steps) ==
    [i \in DOMAIN steps |->
        IF steps[i].status = "running" THEN [steps[i] EXCEPT !.status = "completed"] ELSE steps[i]]

-----------------------------------------------------------------------------
(* Calls of the control plane.                                             *)

\* CreateWorkflow has inserted the workflow, and OnWorkflowCreated inserts the row of its
\* execution, which is then announced.  (A workflow over the limit is deleted again.)
StartExecution(w) ==
    /\ At(w, "idle")
    /\ tracked = "creating"
    /\ tracked' = "yes"
    /\ proc' = [proc EXCEPT ![w] = [Idle EXCEPT !.pc = "reread"]]
    /\ UNCHANGED <<row, streamVars, ended, told, gated, announced, overlapped, ops, faults>>

\* The INSERT fails: a warning, and a workflow without an execution.
StartFails ==
    /\ tracked = "creating"
    /\ faults < MaxFaults
    /\ faults' = faults + 1
    /\ tracked' = "no"
    /\ UNCHANGED <<row, proc, streamVars, ended, told, gated, announced, overlapped, ops>>

\* The control plane has changed its own tables and calls the tracker.  Steps are gated
\* while the workflow runs, reviewed while they wait, completed once gated; a workflow
\* ends once and completes when no step waits, except that two calls may race.
CanCall(op, s) ==
    CASE op = "gate"     -> s \in Steps /\ ~ended
      [] op = "review"   -> s \in Steps /\ told[s] = "approval"
      [] op = "complete" -> s \in Steps /\ gated[s] > 0
      [] op \notin StepOps ->
            /\ s = NoStep
            /\ ended => \E w \in Writers : ~At(w, "idle") /\ proc[w].op \in DOMAIN Final
            /\ op = "finish" /\ (\E t \in Steps : told[t] = "approval") => \E w \in Writers : ~At(w, "idle")

\* mapWCPStepDecisionToStatus of the decision and of the review.
ReportedBy(op) ==
    CASE op = "gate"     -> {"running", "approval", "blocked"}
      [] op = "review"   -> {"running", "failed"}
      [] op = "complete" -> {"completed"}
      [] op \notin StepOps -> {"running"}

\* repo.Get, and what the tracker does next with the copy of the steps it has read.  A
\* reviewed step that is not in it is added instead, after another Get; the end of a
\* workflow rewrites the steps only when one is running.
AfterGet(op, s, st, steps) ==
    CASE op = "review" /\ FirstOf(steps, s) = 0 ->
            [Idle EXCEPT !.pc = "get", !.op = "gate", !.step = s, !.status = st]
      [] op = "abort" \/ (op = "finish" /\ ~HasRunning(steps)) ->
            [Idle EXCEPT !.pc = "status", !.op = op]
      [] OTHER ->
            [Idle EXCEPT !.pc = "steps", !.op = op, !.step = s, !.status = st, !.view = steps]

\* Without a row there is nothing to keep in step.
Call(w, op, s, st) ==
    /\ At(w, "idle")
    /\ ops < MaxOps
    /\ ops' = ops + 1
    /\ CanCall(op, s)
    /\ st \in ReportedBy(op)
    /\ proc' = [proc EXCEPT ![w] = IF tracked = "yes" THEN AfterGet(op, s, st, row.steps) ELSE Idle]
    /\ ended' = (ended \/ op \notin StepOps)
    /\ told' = IF s = NoStep THEN told ELSE [told EXCEPT ![s] = st]
    /\ gated' = IF op = "gate" THEN [gated EXCEPT ![s] = @ + 1] ELSE gated
    /\ overlapped' = (overlapped \/ tracked = "creating" \/ \E v \in Writers : ~At(v, "idle"))
    /\ UNCHANGED <<tracked, row, streamVars, announced, faults>>

\* SyncStepApproval falls back to SyncStepGate, which reads the row again.
GetAgain(w) ==
    /\ At(w, "get")
    /\ proc' = [proc EXCEPT ![w] = AfterGet("gate", proc[w].step, proc[w].status, row.steps)]
    /\ UNCHANGED <<tracked, row, streamVars, ended, told, gated, announced, overlapped, ops, faults>>

NewSteps(q) ==
    CASE q.op = "gate"   -> AddStep(q.view, q.step, q.status)
      [] q.op = "finish" -> Finalised(q.view)
      [] q.op \in {"review", "complete"} -> Update(q.view, q.step, q.status)

\* Gates and reviews publish nothing; a completed step is published; the end of the
\* workflow goes on to the status.
AfterSteps(w) ==
    CASE proc[w].op = "complete" -> Goto(w, "reread")
      [] proc[w].op = "finish"   -> Goto(w, "status")
      [] proc[w].op \in {"gate", "review"} -> Return(w)

\* UPDATE execution_history SET steps = $2.
UpdateSteps(w) ==
    /\ At(w, "steps")
    /\ row' = [row EXCEPT !.steps = NewSteps(proc[w])]
    /\ AfterSteps(w)
    /\ UNCHANGED <<tracked, streamVars, ended, told, gated, announced, overlapped, ops, faults>>

\* CompleteExecution, CancelExecution: whatever the status is now.
UpdateStatus(w) ==
    /\ At(w, "status")
    /\ row' = [row EXCEPT !.status = Final[proc[w].op]]
    /\ Goto(w, "reread")
    /\ UNCHANGED <<tracked, streamVars, ended, told, gated, announced, overlapped, ops, faults>>

-----------------------------------------------------------------------------
(* The event hub.                                                          *)

\* Mutant: the event carries the row as it was read before the UPDATE.
ReadForEventStale(w) ==
    /\ At(w, "reread")
    /\ proc' = [proc EXCEPT ![w] = [Idle EXCEPT !.pc = "publish"]]
    /\ UNCHANGED <<tracked, row, streamVars, ended, told, gated, announced, overlapped, ops, faults>>

\* publishEvent reads the row again ...
ReadForEvent(w) ==
    /\ At(w, "reread")
    /\ proc' = [proc EXCEPT ![w] = [Idle EXCEPT !.pc = "publish", !.data = row.status]]
    /\ UNCHANGED <<tracked, row, streamVars, ended, told, gated, announced, overlapped, ops, faults>>

\* Mutant: the channel is taken to be unbounded.
DeliveredAlways(event) ==
    [s \in Streams |-> IF Hears(s) THEN [stream[s] EXCEPT !.chan = Append(@, event)] ELSE stream[s]]

\* A non-blocking send to every subscriber: a full channel drops the event.
Delivered(event) ==
    [s \in Streams |-> IF Hears(s) /\ Len(stream[s].chan) < ChannelSize
                       THEN [stream[s] EXCEPT !.chan = Append(@, event)] ELSE stream[s]]

\* ... and Publish hands the event to the subscribers there are now.
Publish(w) ==
    /\ At(w, "publish")
    /\ stream' = Delivered(proc[w].data)
    /\ announced' = (announced \/ proc[w].data \in Terminal)
    /\ missed' = IF proc[w].data \notin Terminal THEN missed
                 ELSE missed \cup {s \in Streams : Hears(s) /\ Len(stream[s].chan) >= ChannelSize}
    /\ Return(w)
    /\ UNCHANGED <<tracked, row, connections, ended, told, gated, overlapped, ops, faults>>

\* A statement of the tracker fails: a warning.  The end of a workflow goes on to the
\* status when its steps could not be finalised.
TrackerFails(w) ==
    /\ proc[w].pc \in {"get", "steps", "status", "reread"}
    /\ faults < MaxFaults
    /\ faults' = faults + 1
    /\ IF proc[w].op = "finish" /\ At(w, "steps") THEN Goto(w, "status") ELSE Return(w)
    /\ UNCHANGED <<tracked, row, streamVars, ended, told, gated, announced, overlapped, ops>>

-----------------------------------------------------------------------------
(* StreamExecutionStatus.                                                  *)

\* resolveExecution: what the client is going to be shown first, and the id to subscribe
\* to.  While there is no row it is answered with the workflow itself, under its own id.
ResolveExecution(s) ==
    /\ stream[s].pc = "idle"
    /\ \/ /\ tracked = "yes"
          /\ stream' = [stream EXCEPT ![s].pc = "connect", ![s].seen = row.status]
       \/ /\ tracked # "yes"
          /\ \E st \in IF ended THEN Terminal ELSE {"pending"} :
                stream' = [stream EXCEPT ![s].pc = "connect", ![s].key = "workflow", ![s].seen = st]
    /\ UNCHANGED <<connections, missed, writerVars, announced>>

\* A negative limit is no limit.
ConnectionAllowed == MaxConnections < 0 \/ connections < MaxConnections

TryConnect(s) ==
    /\ stream[s].pc = "connect"
    /\ IF ConnectionAllowed
       THEN /\ connections' = connections + 1
            /\ stream' = [stream EXCEPT ![s].pc = "initial"]
       ELSE /\ stream' = [stream EXCEPT ![s].pc = "done"]
            /\ UNCHANGED connections
    /\ UNCHANGED <<missed, writerVars, announced>>

\* Mutant: the handler returns without the deferred Disconnect.
LeaveForgotten(s) == stream' = [stream EXCEPT ![s] = [Fresh EXCEPT !.pc = "done"]] /\ UNCHANGED connections

\* The handler returns: Unsubscribe and Disconnect are deferred.
Leave(s) ==
    /\ stream' = [stream EXCEPT ![s] = [Fresh EXCEPT !.pc = "done"]]
    /\ connections' = IF connections > 0 THEN connections - 1 ELSE connections

\* The first event.  A terminal execution closes the stream at once; for another one the
\* handler subscribes now, and never sees what was published since it read the row.
SendAndSubscribe(s) ==
    /\ stream[s].pc = "initial"
    /\ IF stream[s].seen \in Terminal THEN Leave(s) /\ UNCHANGED missed
       ELSE /\ stream' = [stream EXCEPT ![s].pc = "loop"]
            /\ missed' = IF announced \/ stream[s].key = "workflow" THEN missed \cup {s} ELSE missed
            /\ UNCHANGED connections
    /\ UNCHANGED <<writerVars, announced>>

\* An event is sent to the client; the stream closes on a terminal one.
ReceiveEvent(s) ==
    /\ Subscribed(s)
    /\ stream[s].chan # <<>>
    /\ IF Head(stream[s].chan) \in Terminal THEN Leave(s)
       ELSE stream' = [stream EXCEPT ![s].chan = Tail(@)] /\ UNCHANGED connections
    /\ UNCHANGED <<missed, writerVars, announced>>

\* The request's context is done.
ClientGone(s) ==
    /\ Subscribed(s)
    /\ Leave(s)
    /\ UNCHANGED <<missed, writerVars, announced>>

-----------------------------------------------------------------------------
Init ==
    /\ tracked = "creating"
    /\ row = [status |-> "pending", steps |-> <<>>]
    /\ proc = [w \in Writers |-> Idle]
    /\ stream = [s \in Streams |-> Fresh]
    /\ connections = 0
    /\ ended = FALSE
    /\ told = [s \in Steps |-> "none"]
    /\ gated = [s \in Steps |-> 0]
    /\ announced = FALSE
    /\ missed = {}
    /\ overlapped = FALSE
    /\ ops = 0
    /\ faults = 0

Track(w)   == \/ GetAgain(w) \/ UpdateSteps(w) \/ UpdateStatus(w)
              \/ ReadForEvent(w) \/ Publish(w)
Serve(s)   == TryConnect(s) \/ SendAndSubscribe(s) \/ ReceiveEvent(s)
Request(w) == \E op \in StepOps \cup DOMAIN Final, s \in Steps \cup {NoStep}, st \in StepStates :
                 Call(w, op, s, st)

Next == \/ \E w \in Writers : StartExecution(w) \/ Request(w) \/ Track(w) \/ TrackerFails(w)
        \/ StartFails
        \/ \E s \in Streams : ResolveExecution(s) \/ Serve(s) \/ ClientGone(s)

\* Tracker calls return and SSE goroutines are scheduled; clients need not leave.
Spec == /\ Init /\ [][Next]_vars
        /\ \A w \in Writers : WF_vars(Track(w))
        /\ \A s \in Streams : WF_vars(Serve(s))

-----------------------------------------------------------------------------
(* Properties.                                                             *)

Statuses == {"pending"} \cup Terminal
Entries  == [id: Steps, status: StepStates]

TypeOK ==
    /\ row \in [status: Statuses, steps: Seq(Entries)]
    /\ proc \in [Writers -> [pc: {"idle", "get", "steps", "status", "reread", "publish"},
                             op: StepOps \cup DOMAIN Final, step: Steps \cup {NoStep},
                             status: StepStates, view: Seq(Entries), data: Statuses]]
    /\ stream \in [Streams -> [pc: {"idle", "connect", "initial", "loop", "done"},
                               key: {"execution", "workflow"}, seen: Statuses, chan: Seq(Statuses)]]
    /\ \A s \in Streams : Len(stream[s].chan) <= ChannelSize
    /\ connections \in Nat
    /\ tracked \in {"creating", "yes", "no"}
    /\ ended \in BOOLEAN /\ announced \in BOOLEAN /\ overlapped \in BOOLEAN
    /\ told \in [Steps -> StepStates \cup {"none"}]
    /\ gated \in [Steps -> Nat]
    /\ missed \subseteq Streams
    /\ ops \in 0 .. MaxOps /\ faults \in 0 .. MaxFaults

\* ConnectionTracker never leaks or forgets a connection on any way out of the handler,
\* and the tenant's limit is exact although every request connects and leaves on its own.
ConnectionsAreExact ==
    /\ connections = Cardinality({s \in Streams : Open(s)})
    /\ MaxConnections >= 0 => connections <= MaxConnections

Settled == faults = 0 /\ ~overlapped /\ \A w \in Writers : At(w, "idle")

\* Without overlapping calls, the array shows every step that was gated once, once, with
\* the status the control plane last reported, although each change rewrites the array.
\* (A step gated twice has two entries, and only the older one is kept up to date.)
StepsFollowWorkflow ==
    Settled =>
        \A s \in Steps : gated[s] = 1 =>
            LET mine == {i \in DOMAIN row.steps : row.steps[i].id = s} IN
            /\ Cardinality(mine) = 1
            /\ \A i \in mine : \/ row.steps[i].status = told[s]
                               \/ row.steps[i].status = "completed" /\ told[s] = "running"
                                  /\ row.status = "completed"

\* A stream that is open when the execution has ended closes by itself, whatever the
\* order of publishing, subscribing and receiving, unless the terminal event was published
\* before it subscribed or found its channel full, the stream was opened before the row
\* was there and listens on the workflow's id, or the tracker failed to publish it.
StreamsEnd ==
    \A s \in Streams :
        row.status \in Terminal /\ Subscribed(s) ~> ~Subscribed(s) \/ s \in missed \/ faults > 0
=============================================================================

------------------------ MODULE ExecutionStreamProofs ------------------------
(***************************************************************************)
(* Theorems about ExecutionStream, for any number of writers, steps and    *)
(* streams, any limit and any channel size: types and limits, that the     *)
(* connection count is exact, and that the steps of the row follow the     *)
(* workflow as long as no two tracker calls overlap.                       *)
(***************************************************************************)
EXTENDS ExecutionStream, FiniteSetTheorems, SequenceTheorems, WellFoundedInduction, TLAPS

-----------------------------------------------------------------------------
(* The first entry of a step.                                              *)

LEMMA LeastNatural ==
    ASSUME NEW T \in SUBSET Nat, T # {}
    PROVE  Min(T) \in T /\ \A y \in T : Min(T) =< y
<1>1. PICK x \in T : \A y \in T : ~(<<y, x>> \in OpToRel(<, Nat))
  BY NatLessThanWellFounded, WFMin
<1>2. \A y \in T : ~(y < x)
  BY <1>1 DEF OpToRel
<1>3. \A y \in T : x =< y
  BY <1>2
<1> QED BY <1>3 DEF Min

LEMMA FirstOfIs ==
    ASSUME NEW steps \in Seq(Entries), NEW s
    PROVE  /\ FirstOf(steps, s) = 0 <=> \A i \in 1..Len(steps) : steps[i].id # s
           /\ FirstOf(steps, s) # 0 =>
                 FirstOf(steps, s) \in 1..Len(steps) /\ steps[FirstOf(steps, s)].id = s
<1> DEFINE I == {i \in 1..Len(steps) : steps[i].id = s}
<1>1. FirstOf(steps, s) = IF I # {} THEN Min(I) ELSE 0
  BY DEF FirstOf, SelectInSeq
<1>2. I \in SUBSET Nat /\ 0 \notin I
  OBVIOUS
<1>3. I # {} => Min(I) \in I
  BY <1>2, LeastNatural
<1> QED BY <1>1, <1>2, <1>3

\* The changes of the steps: Update changes the status of one entry, of the step
\* itself; Finalised changes no entry but the running ones.
LEMMA FunctionsAreSeqs ==
    ASSUME NEW S, NEW n \in Nat, NEW f \in [1..n -> S]
    PROVE  f \in Seq(S) /\ Len(f) = n
BY IsASeq, LenProperties

LEMMA UpdateIs ==
    ASSUME NEW steps \in Seq(Entries), NEW s \in Steps, NEW st \in StepStates,
           NEW new, new = Update(steps, s, st)
    PROVE  /\ new \in Seq(Entries) /\ Len(new) = Len(steps)
           /\ \A i \in 1..Len(steps) :
                 /\ new[i].id = steps[i].id
                 /\ new[i].status = IF i = FirstOf(steps, s) THEN st ELSE steps[i].status
<1>0. steps \in [1..Len(steps) -> Entries] /\ Len(steps) \in Nat
  BY LenProperties
<1>1. CASE FirstOf(steps, s) = 0
  BY <1>0, <1>1 DEF Update
<1>2. CASE FirstOf(steps, s) # 0
  <2>1. PICK k \in 1..Len(steps) : k = FirstOf(steps, s)
    BY <1>2, FirstOfIs
  <2>2. new = [steps EXCEPT ![k].status = st]
    BY <1>2, <2>1 DEF Update
  <2>3. \A i \in 1..Len(steps) : steps[i] \in Entries
    BY <1>0
  <2>4. \A i \in 1..Len(steps) : i # k => new[i] = steps[i]
    BY <1>0, <2>2
  <2>5. new[k] = [steps[k] EXCEPT !.status = st]
    BY <1>0, <2>2
  <2>6. new[k] \in Entries /\ new[k].id = steps[k].id /\ new[k].status = st
    BY <2>3, <2>5 DEF Entries
  <2>7. new \in [1..Len(steps) -> Entries]
    BY <1>0, <2>2, <2>3, <2>4, <2>6
  <2> QED BY <1>0, <2>1, <2>4, <2>6, <2>7, FunctionsAreSeqs
<1> QED BY <1>1, <1>2

LEMMA FinalisedIs ==
    ASSUME NEW steps \in Seq(Entries), NEW new, new = Finalised(steps)
    PROVE  /\ new \in Seq(Entries) /\ Len(new) = Len(steps)
           /\ \A i \in 1..Len(steps) :
                 /\ new[i].id = steps[i].id
                 /\ new[i].status = IF steps[i].status = "running" THEN "completed" ELSE steps[i].status
<1>0. steps \in [1..Len(steps) -> Entries] /\ Len(steps) \in Nat /\ DOMAIN steps = 1..Len(steps)
  BY LenProperties
<1>1. new = [i \in 1..Len(steps) |-> IF steps[i].status = "running"
                                     THEN [steps[i] EXCEPT !.status = "completed"] ELSE steps[i]]
  BY <1>0 DEF Finalised
<1>2. ASSUME NEW i \in 1..Len(steps)
      PROVE  /\ new[i] \in Entries /\ new[i].id = steps[i].id
             /\ new[i].status = IF steps[i].status = "running" THEN "completed" ELSE steps[i].status
  <2>1. steps[i] \in Entries
    BY <1>0
  <2>2. CASE steps[i].status = "running"
    <3>1. new[i] = [steps[i] EXCEPT !.status = "completed"]
      BY <1>1, <2>2
    <3> QED BY <2>1, <2>2, <3>1 DEF Entries, StepStates
  <2>3. CASE steps[i].status # "running"
    BY <1>1, <2>1, <2>3
  <2> QED BY <2>2, <2>3
<1>3. new \in [1..Len(steps) -> Entries]
  BY <1>1, <1>2
<1> QED BY <1>0, <1>2, <1>3, FunctionsAreSeqs

LEMMA AddStepIs ==
    ASSUME NEW steps \in Seq(Entries), NEW s \in Steps, NEW st \in StepStates,
           NEW new, new = AddStep(steps, s, st)
    PROVE  /\ new \in Seq(Entries) /\ Len(new) = Len(steps) + 1
           /\ \A i \in 1..Len(steps) : new[i] = steps[i]
           /\ new[Len(steps) + 1].id = s /\ new[Len(steps) + 1].status = st
<1>1. Entry(s, st) \in Entries /\ Entry(s, st).id = s /\ Entry(s, st).status = st
  BY DEF Entry, Entries
<1> QED BY <1>1, AppendProperties DEF AddStep

-----------------------------------------------------------------------------
(* Types: TypeOK, and which operation a writer is in at each of its steps. *)

ProcFields == [pc: {"idle", "get", "steps", "status", "reread", "publish"},
               op: StepOps \cup DOMAIN Final, step: Steps \cup {NoStep},
               status: StepStates, view: Seq(Entries), data: Statuses]

Calling == {q \in ProcFields :
    /\ q.pc = "get" => q.op = "gate" /\ q.step \in Steps
    /\ q.pc = "steps" => (q.op \in StepOps /\ q.step \in Steps) \/ q.op = "finish"
    /\ q.pc = "status" => q.op \in DOMAIN Final}

StreamFields == [pc: {"idle", "connect", "initial", "loop", "done"}, key: {"execution", "workflow"},
                 seen: Statuses, chan: Seq(Statuses)]

RowOK     == row \in [status: Statuses, steps: Seq(Entries)]
ProcOK    == proc \in [Writers -> Calling]
StreamOK  == /\ stream \in [Streams -> StreamFields]
             /\ \A s \in Streams : Len(stream[s].chan) <= ChannelSize
HistoryOK == /\ ended \in BOOLEAN /\ announced \in BOOLEAN /\ overlapped \in BOOLEAN
             /\ told \in [Steps -> StepStates \cup {"none"}] /\ gated \in [Steps -> Nat]
             /\ missed \subseteq Streams
             /\ ops \in 0 .. MaxOps /\ faults \in 0 .. MaxFaults
\* Without a row no tracker call is in flight, and it is a fault that keeps the row away.
TrackedOK == /\ tracked \in {"creating", "yes", "no"}
             /\ tracked # "yes" => \A w \in Writers : proc[w].pc = "idle"
             /\ tracked = "no" => faults > 0

TypeInv == RowOK /\ ProcOK /\ StreamOK /\ HistoryOK /\ TrackedOK /\ connections \in Nat

LEMMA FinalIs ==
    /\ DOMAIN Final = {"finish", "abort"} /\ Final["finish"] = "completed" /\ Final["abort"] = "cancelled"
    /\ \A op \in DOMAIN Final : Final[op] \in Terminal
BY DEF Final, Terminal

\* The records the writers go through.
LEMMA ProcRecords ==
    ASSUME NEW p, NEW o, NEW s, NEW st, NEW v, NEW d, NEW y
    PROVE  /\ y = Idle => y = [pc |-> "idle", op |-> "gate", step |-> NoStep, status |-> "running",
                               view |-> <<>>, data |-> "pending"]
           /\ y = [Idle EXCEPT !.pc = p, !.op = o] =>
                y = [pc |-> p, op |-> o, step |-> NoStep, status |-> "running", view |-> <<>>,
                     data |-> "pending"]
           /\ y = [Idle EXCEPT !.pc = p, !.data = d] =>
                y = [pc |-> p, op |-> "gate", step |-> NoStep, status |-> "running", view |-> <<>>,
                     data |-> d]
           /\ y = [Idle EXCEPT !.pc = p, !.op = o, !.step = s, !.status = st] =>
                y = [pc |-> p, op |-> o, step |-> s, status |-> st, view |-> <<>>, data |-> "pending"]
           /\ y = [Idle EXCEPT !.pc = p, !.op = o, !.step = s, !.status = st, !.view = v] =>
                y = [pc |-> p, op |-> o, step |-> s, status |-> st, view |-> v, data |-> "pending"]
BY DEF Idle

LEMMA EmptyView == <<>> \in Seq(Entries)
BY EmptySeq

LEMMA IdleTyped == Idle \in Calling /\ Idle.pc = "idle"
<1>1. Idle = [pc |-> "idle", op |-> "gate", step |-> NoStep, status |-> "running",
              view |-> <<>>, data |-> "pending"]
  BY DEF Idle
<1> QED BY <1>1, EmptyView DEF Calling, ProcFields, StepOps, StepStates, Statuses

\* What AfterGet makes of the writer.
LEMMA AfterGetIs ==
    ASSUME NEW op \in StepOps \cup DOMAIN Final, NEW s \in Steps \cup {NoStep}, NEW st \in StepStates,
           op \in StepOps => s \in Steps, NEW steps \in Seq(Entries),
           NEW q, q = AfterGet(op, s, st, steps)
    PROVE  /\ q \in Calling /\ q.pc \in {"get", "steps", "status"}
           /\ q.pc \in {"get", "steps"} => q.step = s /\ q.status = st
           /\ q.pc = "steps" => q.view = steps /\ q.op = op
           /\ q.pc = "get" => op = "review" /\ FirstOf(steps, s) = 0
           /\ q.pc = "status" => q.op = op /\ op \in DOMAIN Final
           /\ op = "abort" => q.pc = "status"
<1>1. CASE op = "review" /\ FirstOf(steps, s) = 0
  <2>1. q = [pc |-> "get", op |-> "gate", step |-> s, status |-> st, view |-> <<>>, data |-> "pending"]
    <3>1. q = [Idle EXCEPT !.pc = "get", !.op = "gate", !.step = s, !.status = st]
      BY <1>1 DEF AfterGet
    <3> QED BY <3>1 DEF Idle
  <2>2. s \in Steps
    BY <1>1 DEF StepOps
  <2>3. q \in Calling
    BY <2>1, <2>2, EmptyView DEF Calling, ProcFields, StepOps, Statuses
  <2> QED BY <1>1, <2>1, <2>3
<1>2. CASE op = "abort" \/ (op = "finish" /\ ~HasRunning(steps))
  <2>1. q = [pc |-> "status", op |-> op, step |-> NoStep, status |-> "running", view |-> <<>>,
             data |-> "pending"]
    BY <1>2, ProcRecords DEF AfterGet
  <2> QED BY <1>2, <2>1, EmptyView, FinalIs DEF Calling, ProcFields, StepOps, Statuses, StepStates
<1>3. CASE ~(op = "review" /\ FirstOf(steps, s) = 0) /\ ~(op = "abort" \/ (op = "finish" /\ ~HasRunning(steps)))
  <2>1. q = [pc |-> "steps", op |-> op, step |-> s, status |-> st, view |-> steps, data |-> "pending"]
    <3>1. q = [Idle EXCEPT !.pc = "steps", !.op = op, !.step = s, !.status = st, !.view = steps]
      BY <1>3 DEF AfterGet
    <3> QED BY <3>1 DEF Idle
  <2>2. op \in StepOps \/ op = "finish"
    BY <1>3, FinalIs
  <2> QED BY <1>3, <2>1, <2>2, FinalIs DEF Calling, ProcFields, Statuses
<1> QED BY <1>1, <1>2, <1>3

\* The steps of a writer.
LEMMA ProcMoves ==
    ASSUME ProcOK, NEW w \in Writers, NEW q \in Calling, proc' = [proc EXCEPT ![w] = q]
    PROVE  ProcOK' /\ proc'[w] = q /\ \A v \in Writers \ {w} : proc'[v] = proc[v]
BY DEF ProcOK

LEMMA CallingFields ==
    ASSUME NEW q \in Calling
    PROVE  /\ q.pc \in {"idle", "get", "steps", "status", "reread", "publish"}
           /\ q.op \in StepOps \cup DOMAIN Final /\ q.step \in Steps \cup {NoStep}
           /\ q.status \in StepStates /\ q.view \in Seq(Entries) /\ q.data \in Statuses
           /\ q.pc = "get" => q.op = "gate" /\ q.step \in Steps
           /\ q.pc = "steps" => (q.op \in StepOps /\ q.step \in Steps) \/ q.op = "finish"
           /\ q.pc = "status" => q.op \in DOMAIN Final
BY DEF Calling, ProcFields

LEMMA GotoMoves ==
    ASSUME ProcOK, NEW w \in Writers, NEW pc \in {"status", "reread"}, Goto(w, pc),
           pc = "status" => proc[w].op \in DOMAIN Final
    PROVE  /\ ProcOK' /\ proc'[w].pc = pc /\ proc'[w].op = proc[w].op
           /\ \A v \in Writers \ {w} : proc'[v] = proc[v]
<1>1. PICK q : q = [Idle EXCEPT !.pc = pc, !.op = proc[w].op]
  OBVIOUS
<1>2. q = [pc |-> pc, op |-> proc[w].op, step |-> NoStep, status |-> "running", view |-> <<>>,
           data |-> "pending"]
  BY <1>1, ProcRecords
<1>3. proc[w].op \in StepOps \cup DOMAIN Final
  BY CallingFields DEF ProcOK
<1>4. q \in Calling /\ q.pc = pc /\ q.op = proc[w].op
  BY <1>2, <1>3, EmptyView DEF Calling, ProcFields, StepStates, Statuses
<1> QED BY <1>1, <1>4, ProcMoves DEF Goto

LEMMA ReturnMoves ==
    ASSUME ProcOK, NEW w \in Writers, Return(w)
    PROVE  ProcOK' /\ proc'[w].pc = "idle" /\ \A v \in Writers \ {w} : proc'[v] = proc[v]
BY IdleTyped, ProcMoves DEF Return

LEMMA InitTypes == Init => TypeInv
<1> SUFFICES ASSUME Init PROVE TypeInv
  OBVIOUS
<1> USE DEF Init
<1>1. RowOK
  BY EmptyView DEF RowOK, Statuses
<1>2. ProcOK
  BY IdleTyped DEF ProcOK
<1>3. StreamOK
  <2>1. Fresh \in StreamFields /\ Len(Fresh.chan) = 0
    <3>1. Fresh = [pc |-> "idle", key |-> "execution", seen |-> "pending", chan |-> <<>>]
      BY DEF Fresh
    <3> QED BY <3>1, EmptySeq DEF StreamFields, Statuses
  <2> QED BY <2>1, LimitAssumption DEF StreamOK
<1>4. HistoryOK
  <2>1. ops \in 0 .. MaxOps /\ faults \in 0 .. MaxFaults
    BY LimitAssumption
  <2>2. told \in [Steps -> StepStates \cup {"none"}] /\ gated \in [Steps -> Nat]
    OBVIOUS
  <2> QED BY <2>1, <2>2 DEF HistoryOK
<1>5. TrackedOK
  BY IdleTyped DEF TrackedOK
<1> QED BY <1>1, <1>2, <1>3, <1>4, <1>5 DEF TypeInv

\* A writer in flight has a row, and keeps it.
LEMMA TrackedKept ==
    ASSUME TrackedOK, NEW w \in Writers, proc[w].pc # "idle", UNCHANGED tracked
    PROVE  TrackedOK'
BY DEF TrackedOK

\* What the control plane may call the tracker with.
LEMMA CanCallIs ==
    ASSUME NEW op \in StepOps \cup DOMAIN Final, NEW s, CanCall(op, s)
    PROVE  /\ op \in StepOps => s \in Steps
           /\ op \notin StepOps => s = NoStep
           /\ op = "gate" => ~ended
           /\ op = "review" => told[s] = "approval"
           /\ op = "complete" => gated[s] > 0
           /\ op \notin StepOps /\ ended => \E v \in Writers : ~At(v, "idle")
           /\ op = "finish" /\ (\E t \in Steps : told[t] = "approval") => \E v \in Writers : ~At(v, "idle")
<1>1. CASE op = "gate"
  BY <1>1 DEF CanCall, StepOps
<1>2. CASE op = "review"
  BY <1>2 DEF CanCall, StepOps
<1>3. CASE op = "complete"
  BY <1>3 DEF CanCall, StepOps
<1>4. CASE op \notin StepOps
  <2>1. /\ s = NoStep
        /\ ended => \E w \in Writers : ~At(w, "idle") /\ proc[w].op \in DOMAIN Final
        /\ op = "finish" /\ (\E t \in Steps : told[t] = "approval") => \E w \in Writers : ~At(w, "idle")
    BY <1>4 DEF CanCall, StepOps
  <2> QED BY <1>4, <2>1 DEF StepOps
<1> QED BY <1>1, <1>2, <1>3, <1>4 DEF StepOps

LEMMA ReportedTyped ==
    ASSUME NEW op \in StepOps \cup DOMAIN Final, NEW st \in ReportedBy(op)
    PROVE  /\ st \in StepStates
           /\ op = "complete" => st = "completed"
<1>1. CASE op = "gate"
  BY <1>1 DEF ReportedBy, StepStates
<1>2. CASE op = "review"
  BY <1>2 DEF ReportedBy, StepStates
<1>3. CASE op = "complete"
  <2>1. ReportedBy(op) = {"completed"}
    BY <1>3 DEF ReportedBy, StepOps
  <2> QED BY <2>1 DEF StepStates
<1>4. CASE op \notin StepOps
  BY <1>4 DEF ReportedBy, StepStates, StepOps
<1> QED BY <1>1, <1>2, <1>3, <1>4 DEF StepOps

\* A request is made: what it leaves alone, what it records, and the writer.
LEMMA CallEffect ==
    ASSUME TypeInv, NEW w \in Writers, NEW op \in StepOps \cup DOMAIN Final,
           NEW s \in Steps \cup {NoStep}, NEW st \in StepStates, Call(w, op, s, st)
    PROVE  /\ At(w, "idle") /\ CanCall(op, s) /\ st \in ReportedBy(op)
           /\ op \in StepOps => s \in Steps
           /\ op \notin StepOps => s = NoStep
           /\ ProcOK' /\ proc'[w] = IF tracked = "yes" THEN AfterGet(op, s, st, row.steps) ELSE Idle
           /\ \A v \in Writers \ {w} : proc'[v] = proc[v]
           /\ UNCHANGED <<tracked, row, stream, connections, missed, announced, faults>>
<1>1. op \in StepOps => s \in Steps
  BY CanCallIs DEF Call
<1>2. PICK q : q = IF tracked = "yes" THEN AfterGet(op, s, st, row.steps) ELSE Idle
  OBVIOUS
<1>3. q \in Calling
  BY <1>1, <1>2, AfterGetIs, IdleTyped DEF TypeInv, RowOK
<1>4. /\ ProcOK' /\ proc'[w] = q
      /\ \A v \in Writers \ {w} : proc'[v] = proc[v]
  <2>1. proc' = [proc EXCEPT ![w] = q]
    BY <1>2 DEF Call
  <2> QED BY <1>3, <2>1, ProcMoves DEF TypeInv
<1> QED BY <1>1, <1>2, <1>4, CanCallIs DEF Call, streamVars

LEMMA CallTypes ==
    ASSUME TypeInv, NEW w \in Writers, NEW op \in StepOps \cup DOMAIN Final,
           NEW s \in Steps \cup {NoStep}, NEW st \in StepStates, Call(w, op, s, st)
    PROVE  TypeInv'
<1>1. ops' \in 0 .. MaxOps /\ faults' \in 0 .. MaxFaults
  BY LimitAssumption DEF Call, TypeInv, HistoryOK
<1>2. told' \in [Steps -> StepStates \cup {"none"}] /\ gated' \in [Steps -> Nat]
  <2>1. told' \in [Steps -> StepStates \cup {"none"}]
    BY DEF Call, TypeInv, HistoryOK
  <2>2. gated' \in [Steps -> Nat]
    <3>1. gated \in [Steps -> Nat] /\ (gated' = gated \/ gated' = [gated EXCEPT ![s] = @ + 1])
      BY DEF Call, TypeInv, HistoryOK
    <3> QED BY <3>1
  <2> QED BY <2>1, <2>2
<1>3. ended' \in BOOLEAN /\ overlapped' \in BOOLEAN
  BY Zenon DEF Call
<1>4. HistoryOK'
  BY <1>1, <1>2, <1>3, CallEffect DEF TypeInv, HistoryOK
<1>5. TrackedOK'
  <2>1. tracked # "yes" => proc'[w].pc = "idle"
    BY CallEffect, IdleTyped
  <2> QED BY <2>1, CallEffect DEF TypeInv, TrackedOK
<1> QED BY <1>4, <1>5, CallEffect DEF TypeInv, RowOK, StreamOK

\* The row is inserted while no tracker call is in flight.
LEMMA StartEffect ==
    ASSUME TypeInv, NEW w \in Writers, StartExecution(w)
    PROVE  /\ \A v \in Writers : proc[v].pc = "idle"
           /\ ProcOK' /\ proc'[w].pc = "reread" /\ \A v \in Writers \ {w} : proc'[v] = proc[v]
           /\ tracked' = "yes"
           /\ UNCHANGED <<row, stream, connections, missed, ended, told, gated, announced, overlapped,
                          ops, faults>>
<1>1. PICK q : q = [Idle EXCEPT !.pc = "reread"]
  OBVIOUS
<1>2. q = [pc |-> "reread", op |-> "gate", step |-> NoStep, status |-> "running", view |-> <<>>,
           data |-> "pending"]
  BY <1>1 DEF Idle
<1>3. q \in Calling /\ q.pc = "reread"
  BY <1>2, EmptyView DEF Calling, ProcFields, StepStates, StepOps, Statuses
<1>4. proc' = [proc EXCEPT ![w] = q]
  BY <1>1 DEF StartExecution
<1>5. \A v \in Writers : proc[v].pc = "idle"
  BY DEF StartExecution, TypeInv, TrackedOK
<1> QED BY <1>3, <1>4, <1>5, ProcMoves DEF StartExecution, TypeInv, streamVars

LEMMA StartTypes ==
    ASSUME TypeInv, NEW w \in Writers, StartExecution(w)
    PROVE  TypeInv'
<1>1. TrackedOK'
  BY StartEffect DEF TrackedOK
<1> QED BY <1>1, StartEffect DEF TypeInv, RowOK, StreamOK, HistoryOK

LEMMA StartFailsTypes ==
    ASSUME TypeInv, StartFails
    PROVE  TypeInv' /\ faults' > 0 /\ UNCHANGED <<stream, connections>>
<1>1. faults' \in 0 .. MaxFaults /\ faults' > 0
  BY LimitAssumption DEF StartFails, TypeInv, HistoryOK
<1>2. TrackedOK'
  BY <1>1 DEF StartFails, TypeInv, TrackedOK
<1>3. UNCHANGED <<row, proc, stream, connections, missed, ended, told, gated, announced, overlapped, ops>>
  BY DEF StartFails, streamVars
<1> QED BY <1>1, <1>2, <1>3 DEF TypeInv, RowOK, ProcOK, StreamOK, HistoryOK

LEMMA GetAgainEffect ==
    ASSUME TypeInv, NEW w \in Writers, GetAgain(w)
    PROVE  /\ At(w, "get") /\ proc[w].step \in Steps /\ proc[w].status \in StepStates
           /\ ProcOK' /\ proc'[w] = AfterGet("gate", proc[w].step, proc[w].status, row.steps)
           /\ \A v \in Writers \ {w} : proc'[v] = proc[v]
           /\ UNCHANGED <<tracked, row, stream, connections, missed, ended, told, gated, announced, overlapped,
                          ops, faults>>
<1>1. proc[w] \in Calling /\ proc[w].pc = "get"
  BY DEF GetAgain, At, TypeInv, ProcOK
<1>2. proc[w].step \in Steps /\ proc[w].status \in StepStates
  BY <1>1, CallingFields
<1>3. AfterGet("gate", proc[w].step, proc[w].status, row.steps) \in Calling
  BY <1>2, AfterGetIs DEF TypeInv, RowOK, StepOps
<1> QED BY <1>2, <1>3, ProcMoves DEF GetAgain, TypeInv, streamVars

LEMMA GetAgainTypes ==
    ASSUME TypeInv, NEW w \in Writers, GetAgain(w)
    PROVE  TypeInv'
<1>1. TrackedOK'
  BY GetAgainEffect, TrackedKept DEF TypeInv, At
<1> QED BY <1>1, GetAgainEffect DEF TypeInv, RowOK, StreamOK, HistoryOK

\* The array is written back.
LEMMA UpdateStepsEffect ==
    ASSUME TypeInv, NEW w \in Writers, UpdateSteps(w)
    PROVE  /\ proc[w] \in Calling /\ At(w, "steps")
           /\ RowOK' /\ row'.status = row.status /\ row'.steps = NewSteps(proc[w])
           /\ ProcOK' /\ \A v \in Writers \ {w} : proc'[v] = proc[v]
           /\ \/ proc[w].op \in {"gate", "review"} /\ proc'[w].pc = "idle"
              \/ proc[w].op = "complete" /\ proc'[w].pc = "reread"
              \/ proc[w].op = "finish" /\ proc'[w].pc = "status" /\ proc'[w].op = "finish"
           /\ UNCHANGED <<tracked, stream, connections, missed, ended, told, gated, announced, overlapped, ops, faults>>
<1>1. proc[w] \in Calling /\ proc[w].pc = "steps"
  BY DEF UpdateSteps, At, TypeInv, ProcOK
<1>2. PICK q \in Calling : q = proc[w] /\ q.pc = "steps"
  BY <1>1
<1>3. /\ q.view \in Seq(Entries) /\ q.status \in StepStates
      /\ (q.op \in {"gate", "review", "complete"} /\ q.step \in Steps) \/ q.op = "finish"
  BY <1>2, CallingFields DEF StepOps
<1>4. NewSteps(q) \in Seq(Entries)
  <2>1. CASE q.op = "gate"
    <3>1. NewSteps(q) = AddStep(q.view, q.step, q.status)
      BY <2>1 DEF NewSteps
    <3> QED BY <1>3, <2>1, <3>1, AddStepIs
  <2>2. CASE q.op = "finish"
    <3>1. NewSteps(q) = Finalised(q.view)
      BY <2>2 DEF NewSteps
    <3> QED BY <1>3, <3>1, FinalisedIs
  <2>3. CASE q.op \in {"review", "complete"}
    <3>1. NewSteps(q) = Update(q.view, q.step, q.status)
      BY <2>3 DEF NewSteps
    <3> QED BY <1>3, <2>3, <3>1, UpdateIs
  <2> QED BY <1>3, <2>1, <2>2, <2>3
<1>5. row' = [row EXCEPT !.steps = NewSteps(q)]
  BY <1>2 DEF UpdateSteps
<1>6. RowOK' /\ row'.status = row.status /\ row'.steps = NewSteps(q)
  BY <1>4, <1>5 DEF TypeInv, RowOK
<1>7. /\ ProcOK' /\ \A v \in Writers \ {w} : proc'[v] = proc[v]
      /\ \/ q.op \in {"gate", "review"} /\ proc'[w].pc = "idle"
         \/ q.op = "complete" /\ proc'[w].pc = "reread"
         \/ q.op = "finish" /\ proc'[w].pc = "status" /\ proc'[w].op = "finish"
  <2>1. CASE q.op = "complete"
    <3>1. Goto(w, "reread")
      BY <1>2, <2>1 DEF UpdateSteps, AfterSteps
    <3> QED BY <1>2, <2>1, <3>1, GotoMoves DEF TypeInv
  <2>2. CASE q.op = "finish"
    <3>1. Goto(w, "status")
      BY <1>2, <2>2 DEF UpdateSteps, AfterSteps
    <3> QED BY <1>2, <2>2, <3>1, GotoMoves, FinalIs DEF TypeInv
  <2>3. CASE q.op \in {"gate", "review"}
    <3>1. Return(w)
      BY <1>2, <2>3 DEF UpdateSteps, AfterSteps
    <3> QED BY <2>3, <3>1, ReturnMoves DEF TypeInv
  <2> QED BY <1>3, <2>1, <2>2, <2>3
<1> QED BY <1>2, <1>6, <1>7 DEF UpdateSteps, streamVars

LEMMA UpdateStepsTypes ==
    ASSUME TypeInv, NEW w \in Writers, UpdateSteps(w)
    PROVE  TypeInv'
<1>1. TrackedOK'
  BY UpdateStepsEffect, TrackedKept DEF TypeInv, At
<1> QED BY <1>1, UpdateStepsEffect DEF TypeInv, StreamOK, HistoryOK

LEMMA UpdateStatusEffect ==
    ASSUME TypeInv, NEW w \in Writers, UpdateStatus(w)
    PROVE  /\ At(w, "status") /\ proc[w].op \in DOMAIN Final
           /\ RowOK' /\ row'.status = Final[proc[w].op] /\ row'.steps = row.steps
           /\ ProcOK' /\ proc'[w].pc = "reread" /\ \A v \in Writers \ {w} : proc'[v] = proc[v]
           /\ UNCHANGED <<tracked, stream, connections, missed, ended, told, gated, announced, overlapped, ops, faults>>
<1>1. proc[w] \in Calling /\ proc[w].pc = "status"
  BY DEF UpdateStatus, At, TypeInv, ProcOK
<1>2. proc[w].op \in DOMAIN Final
  BY <1>1, CallingFields
<1>3. row' = [row EXCEPT !.status = Final[proc[w].op]] /\ Goto(w, "reread")
  BY DEF UpdateStatus
<1>4. RowOK' /\ row'.status = Final[proc[w].op] /\ row'.steps = row.steps
  BY <1>2, <1>3, FinalIs DEF TypeInv, RowOK, Statuses
<1>5. ProcOK' /\ proc'[w].pc = "reread" /\ \A v \in Writers \ {w} : proc'[v] = proc[v]
  BY <1>3, GotoMoves DEF TypeInv
<1> QED BY <1>1, <1>2, <1>4, <1>5 DEF UpdateStatus, At, streamVars

LEMMA UpdateStatusTypes ==
    ASSUME TypeInv, NEW w \in Writers, UpdateStatus(w)
    PROVE  TypeInv'
<1>1. TrackedOK'
  BY UpdateStatusEffect, TrackedKept DEF TypeInv, At
<1> QED BY <1>1, UpdateStatusEffect DEF TypeInv, StreamOK, HistoryOK

LEMMA ReadForEventEffect ==
    ASSUME TypeInv, NEW w \in Writers, ReadForEvent(w)
    PROVE  /\ At(w, "reread")
           /\ ProcOK' /\ proc'[w].pc = "publish" /\ \A v \in Writers \ {w} : proc'[v] = proc[v]
           /\ UNCHANGED <<tracked, row, stream, connections, missed, ended, told, gated, announced, overlapped,
                          ops, faults>>
<1>1. PICK q : q = [Idle EXCEPT !.pc = "publish", !.data = row.status]
  OBVIOUS
<1>2. q = [pc |-> "publish", op |-> "gate", step |-> NoStep, status |-> "running", view |-> <<>>,
           data |-> row.status]
  BY <1>1 DEF Idle
<1>3. row.status \in Statuses
  BY DEF TypeInv, RowOK
<1>4. q \in Calling /\ q.pc = "publish"
  BY <1>2, <1>3, EmptyView DEF Calling, ProcFields, StepStates, StepOps
<1>5. proc' = [proc EXCEPT ![w] = q]
  BY <1>1 DEF ReadForEvent
<1> QED BY <1>4, <1>5, ProcMoves DEF ReadForEvent, TypeInv, streamVars

LEMMA ReadForEventTypes ==
    ASSUME TypeInv, NEW w \in Writers, ReadForEvent(w)
    PROVE  TypeInv'
<1>1. TrackedOK'
  BY ReadForEventEffect, TrackedKept DEF TypeInv, At
<1> QED BY <1>1, ReadForEventEffect DEF TypeInv, RowOK, StreamOK, HistoryOK

\* The event goes to the subscribers; no handler moves.
LEMMA PublishEffect ==
    ASSUME TypeInv, NEW w \in Writers, Publish(w)
    PROVE  /\ At(w, "publish") /\ ProcOK' /\ proc'[w].pc = "idle"
           /\ \A v \in Writers \ {w} : proc'[v] = proc[v]
           /\ StreamOK' /\ \A s \in Streams : stream'[s].pc = stream[s].pc
           /\ UNCHANGED <<tracked, row, connections, ended, told, gated, overlapped, ops, faults>>
<1>1. proc[w] \in Calling
  BY DEF TypeInv, ProcOK
<1>2. PICK event \in Statuses : event = proc[w].data
  BY <1>1, CallingFields
<1>3. stream' = [s \in Streams |-> IF Hears(s) /\ Len(stream[s].chan) < ChannelSize
                                   THEN [stream[s] EXCEPT !.chan = Append(@, event)] ELSE stream[s]]
  BY <1>2 DEF Publish, Delivered
<1>4. ASSUME NEW s \in Streams
      PROVE  stream'[s] \in StreamFields /\ Len(stream'[s].chan) <= ChannelSize /\ stream'[s].pc = stream[s].pc
  <2>1. stream[s] \in StreamFields /\ Len(stream[s].chan) <= ChannelSize
    BY DEF TypeInv, StreamOK
  <2>2. CASE ~(Hears(s) /\ Len(stream[s].chan) < ChannelSize)
    BY <1>3, <2>1, <2>2
  <2>3. CASE Hears(s) /\ Len(stream[s].chan) < ChannelSize
    <3>1. stream[s].chan \in Seq(Statuses) /\ Len(stream[s].chan) \in Nat
      BY <2>1, LenProperties DEF StreamFields
    <3>2. Append(stream[s].chan, event) \in Seq(Statuses) /\ Len(Append(stream[s].chan, event)) = Len(stream[s].chan) + 1
      BY <3>1, AppendProperties
    <3>3. stream'[s] = [stream[s] EXCEPT !.chan = Append(stream[s].chan, event)]
      BY <1>3, <2>3
    <3>4. /\ stream'[s] \in StreamFields /\ stream'[s].pc = stream[s].pc
          /\ stream'[s].chan = Append(stream[s].chan, event)
      BY <2>1, <3>2, <3>3 DEF StreamFields
    <3> QED BY <2>3, <3>1, <3>2, <3>4, LimitAssumption
  <2> QED BY <2>2, <2>3
<1>5. StreamOK'
  BY <1>3, <1>4 DEF StreamOK
<1>6. ProcOK' /\ proc'[w].pc = "idle" /\ \A v \in Writers \ {w} : proc'[v] = proc[v]
  BY ReturnMoves DEF Publish, TypeInv
<1> QED BY <1>4, <1>5, <1>6 DEF Publish

LEMMA PublishTypes ==
    ASSUME TypeInv, NEW w \in Writers, Publish(w)
    PROVE  TypeInv'
<1>1. missed' \subseteq Streams
  BY DEF Publish, TypeInv, HistoryOK
<1>2. announced' \in BOOLEAN
  BY Zenon DEF Publish
<1>3. TrackedOK'
  BY PublishEffect, TrackedKept DEF TypeInv, At
<1> QED BY <1>1, <1>2, <1>3, PublishEffect DEF TypeInv, RowOK, HistoryOK

LEMMA TrackerFailsEffect ==
    ASSUME TypeInv, NEW w \in Writers, TrackerFails(w)
    PROVE  /\ ProcOK' /\ proc'[w].pc \in {"idle", "status"} /\ \A v \in Writers \ {w} : proc'[v] = proc[v]
           /\ ~At(w, "idle") /\ faults' = faults + 1 /\ faults' \in 0 .. MaxFaults
           /\ UNCHANGED <<tracked, row, stream, connections, missed, ended, told, gated, announced, overlapped, ops>>
<1>1. ProcOK' /\ proc'[w].pc \in {"idle", "status"} /\ \A v \in Writers \ {w} : proc'[v] = proc[v]
  <2>1. CASE Return(w)
    BY <2>1, ReturnMoves DEF TypeInv
  <2>2. CASE Goto(w, "status") /\ proc[w].op = "finish"
    BY <2>2, GotoMoves, FinalIs DEF TypeInv
  <2> QED BY <2>1, <2>2 DEF TrackerFails
<1>2. faults' = faults + 1 /\ faults' \in 0 .. MaxFaults
  BY LimitAssumption DEF TrackerFails, TypeInv, HistoryOK
<1>3. ~At(w, "idle")
  BY DEF TrackerFails, At
<1> QED BY <1>1, <1>2, <1>3 DEF TrackerFails, streamVars

LEMMA TrackerFailsTypes ==
    ASSUME TypeInv, NEW w \in Writers, TrackerFails(w)
    PROVE  TypeInv'
<1>1. TrackedOK'
  BY TrackerFailsEffect, TrackedKept DEF TypeInv, At
<1> QED BY <1>1, TrackerFailsEffect DEF TypeInv, RowOK, StreamOK, HistoryOK

\* A step of an SSE handler: what it does to its record, and what it leaves alone.
LEMMA StreamMoves ==
    ASSUME StreamOK, NEW s \in Streams, NEW y \in StreamFields, Len(y.chan) <= ChannelSize,
           stream' = [stream EXCEPT ![s] = y]
    PROVE  StreamOK' /\ stream'[s] = y /\ \A t \in Streams \ {s} : stream'[t] = stream[t]
BY DEF StreamOK

LEMMA DoneTyped ==
    ASSUME NEW y, y = [Fresh EXCEPT !.pc = "done"]
    PROVE  y \in StreamFields /\ y.pc = "done" /\ Len(y.chan) <= ChannelSize
<1>1. Fresh \in StreamFields /\ Fresh.chan = <<>> /\ Len(Fresh.chan) = 0
  <2>1. Fresh = [pc |-> "idle", key |-> "execution", seen |-> "pending", chan |-> <<>>]
    BY DEF Fresh
  <2> QED BY <2>1, EmptySeq DEF StreamFields, Statuses
<1>2. y \in StreamFields /\ y.pc = "done" /\ y.chan = Fresh.chan
  BY <1>1 DEF StreamFields
<1> QED BY <1>1, <1>2, LimitAssumption

StreamRest == UNCHANGED <<tracked, row, proc, ended, told, gated, overlapped, ops, faults, announced>>

LEMMA LeaveEffect ==
    ASSUME StreamOK, NEW s \in Streams, Leave(s)
    PROVE  /\ StreamOK' /\ stream'[s].pc = "done" /\ \A t \in Streams \ {s} : stream'[t] = stream[t]
           /\ connections' = IF connections > 0 THEN connections - 1 ELSE connections
<1>1. PICK y : y = [Fresh EXCEPT !.pc = "done"]
  OBVIOUS
<1>2. stream' = [stream EXCEPT ![s] = y]
  BY <1>1 DEF Leave
<1> QED BY <1>1, <1>2, DoneTyped, StreamMoves DEF Leave

LEMMA ResolveEffect ==
    ASSUME TypeInv, NEW s \in Streams, ResolveExecution(s)
    PROVE  /\ StreamOK' /\ stream[s].pc = "idle" /\ stream'[s].pc = "connect"
           /\ \A t \in Streams \ {s} : stream'[t] = stream[t]
           /\ UNCHANGED <<connections, missed>> /\ StreamRest
<1>1. stream[s] \in StreamFields /\ Len(stream[s].chan) <= ChannelSize /\ row.status \in Statuses
  BY DEF TypeInv, StreamOK, RowOK
<1>2. PICK y : /\ y \in StreamFields /\ y.pc = "connect" /\ y.chan = stream[s].chan
               /\ stream' = [stream EXCEPT ![s] = y]
  <2>1. CASE stream' = [stream EXCEPT ![s].pc = "connect", ![s].seen = row.status]
    <3>1. PICK y : y = [stream[s] EXCEPT !.pc = "connect", !.seen = row.status]
      OBVIOUS
    <3>2. y \in StreamFields /\ y.pc = "connect" /\ y.chan = stream[s].chan
      BY <1>1, <3>1 DEF StreamFields
    <3>3. stream' = [stream EXCEPT ![s] = y]
      BY <2>1, <3>1 DEF TypeInv, StreamOK
    <3> QED BY <3>2, <3>3
  <2>2. ASSUME NEW st \in Statuses,
               stream' = [stream EXCEPT ![s].pc = "connect", ![s].key = "workflow", ![s].seen = st]
        PROVE  \E y : /\ y \in StreamFields /\ y.pc = "connect" /\ y.chan = stream[s].chan
                      /\ stream' = [stream EXCEPT ![s] = y]
    <3>1. PICK y : y = [stream[s] EXCEPT !.pc = "connect", !.key = "workflow", !.seen = st]
      OBVIOUS
    <3>2. y \in StreamFields /\ y.pc = "connect" /\ y.chan = stream[s].chan
      BY <1>1, <3>1 DEF StreamFields
    <3>3. stream' = [stream EXCEPT ![s] = y]
      BY <2>2, <3>1 DEF TypeInv, StreamOK
    <3> QED BY <3>2, <3>3
  <2> QED BY <2>1, <2>2 DEF ResolveExecution, Statuses
<1>3. stream' = [stream EXCEPT ![s] = y]
  BY <1>2
<1>4. y \in StreamFields /\ y.pc = "connect" /\ y.chan = stream[s].chan
  BY <1>2
<1>5. StreamOK' /\ stream'[s] = y /\ \A t \in Streams \ {s} : stream'[t] = stream[t]
  BY <1>1, <1>3, <1>4, StreamMoves DEF TypeInv
<1> QED BY <1>4, <1>5 DEF ResolveExecution, writerVars, StreamRest

LEMMA PcMoves ==
    ASSUME TypeInv, NEW s \in Streams, NEW pc \in {"initial", "loop", "done"},
           stream' = [stream EXCEPT ![s].pc = pc]
    PROVE  StreamOK' /\ stream'[s].pc = pc /\ \A t \in Streams \ {s} : stream'[t] = stream[t]
<1>1. stream[s] \in StreamFields /\ Len(stream[s].chan) <= ChannelSize
  BY DEF TypeInv, StreamOK
<1>2. PICK y : y = [stream[s] EXCEPT !.pc = pc]
  OBVIOUS
<1>3. stream' = [stream EXCEPT ![s] = y]
  BY <1>2 DEF TypeInv, StreamOK
<1>4. y \in StreamFields /\ y.pc = pc /\ y.chan = stream[s].chan
  BY <1>1, <1>2 DEF StreamFields
<1> QED BY <1>1, <1>3, <1>4, StreamMoves DEF TypeInv

LEMMA TryConnectEffect ==
    ASSUME TypeInv, NEW s \in Streams, TryConnect(s)
    PROVE  /\ StreamOK' /\ stream[s].pc = "connect"
           /\ \A t \in Streams \ {s} : stream'[t] = stream[t]
           /\ \/ ConnectionAllowed /\ connections' = connections + 1 /\ stream'[s].pc = "initial"
              \/ UNCHANGED connections /\ stream'[s].pc = "done"
           /\ UNCHANGED missed /\ StreamRest
<1>1. CASE ConnectionAllowed
  <2>1. connections' = connections + 1 /\ stream' = [stream EXCEPT ![s].pc = "initial"]
    BY <1>1 DEF TryConnect
  <2> QED BY <1>1, <2>1, PcMoves DEF TryConnect, writerVars, StreamRest
<1>2. CASE ~ConnectionAllowed
  <2>1. UNCHANGED connections /\ stream' = [stream EXCEPT ![s].pc = "done"]
    BY <1>2 DEF TryConnect
  <2> QED BY <2>1, PcMoves DEF TryConnect, writerVars, StreamRest
<1> QED BY <1>1, <1>2

LEMMA SubscribeEffect ==
    ASSUME TypeInv, NEW s \in Streams, SendAndSubscribe(s)
    PROVE  /\ StreamOK' /\ stream[s].pc = "initial"
           /\ \A t \in Streams \ {s} : stream'[t] = stream[t]
           /\ \/ Leave(s) /\ stream'[s].pc = "done"
              \/ UNCHANGED connections /\ stream'[s].pc = "loop"
           /\ missed' \in {missed, missed \cup {s}} /\ StreamRest
<1>1. CASE Leave(s) /\ UNCHANGED missed
  BY <1>1, LeaveEffect DEF SendAndSubscribe, writerVars, StreamRest, TypeInv
<1>2. CASE /\ stream' = [stream EXCEPT ![s].pc = "loop"] /\ UNCHANGED connections
           /\ missed' \in {missed, missed \cup {s}}
  BY <1>2, PcMoves DEF SendAndSubscribe, writerVars, StreamRest
<1> QED BY <1>1, <1>2 DEF SendAndSubscribe

LEMMA ReceiveEffect ==
    ASSUME TypeInv, NEW s \in Streams, ReceiveEvent(s) \/ ClientGone(s)
    PROVE  /\ StreamOK' /\ stream[s].pc = "loop"
           /\ \A t \in Streams \ {s} : stream'[t] = stream[t]
           /\ \/ Leave(s) /\ stream'[s].pc = "done"
              \/ UNCHANGED connections /\ stream'[s].pc = "loop"
           /\ UNCHANGED missed /\ StreamRest
<1>0. stream[s].pc = "loop" /\ UNCHANGED missed /\ StreamRest
  BY DEF ReceiveEvent, ClientGone, Subscribed, writerVars, StreamRest
<1>1. CASE Leave(s)
  BY <1>0, <1>1, LeaveEffect DEF TypeInv
<1>2. CASE /\ stream[s].chan # <<>> /\ UNCHANGED connections
           /\ stream' = [stream EXCEPT ![s].chan = Tail(@)]
  <2>1. stream[s] \in StreamFields /\ Len(stream[s].chan) <= ChannelSize
    BY DEF TypeInv, StreamOK
  <2>2. stream[s].chan \in Seq(Statuses) /\ Len(stream[s].chan) \in Nat
    BY <2>1, LenProperties DEF StreamFields
  <2>3. Tail(stream[s].chan) \in Seq(Statuses) /\ Len(Tail(stream[s].chan)) = Len(stream[s].chan) - 1
    BY <1>2, <2>2, HeadTailProperties
  <2>4. PICK y : y = [stream[s] EXCEPT !.chan = Tail(stream[s].chan)]
    OBVIOUS
  <2>5. stream' = [stream EXCEPT ![s] = y]
    BY <1>2, <2>4 DEF TypeInv, StreamOK
  <2>6. y \in StreamFields /\ y.pc = stream[s].pc /\ y.chan = Tail(stream[s].chan)
    BY <2>1, <2>3, <2>4 DEF StreamFields
  <2>7. Len(y.chan) <= ChannelSize
    BY <2>1, <2>2, <2>3, <2>6, LimitAssumption
  <2>8. StreamOK' /\ stream'[s] = y /\ \A t \in Streams \ {s} : stream'[t] = stream[t]
    BY <2>5, <2>6, <2>7, StreamMoves DEF TypeInv
  <2> QED BY <1>0, <1>2, <2>6, <2>8
<1> QED BY <1>1, <1>2 DEF ReceiveEvent, ClientGone

LEMMA StreamTypes ==
    ASSUME TypeInv, NEW s \in Streams, ResolveExecution(s) \/ Serve(s) \/ ClientGone(s)
    PROVE  TypeInv'
<1>1. StreamOK' /\ StreamRest /\ missed' \subseteq Streams
  BY ResolveEffect, TryConnectEffect, SubscribeEffect, ReceiveEffect DEF Serve, TypeInv, HistoryOK
<1>2. connections' \in Nat
  <2>1. connections \in Nat
    BY DEF TypeInv
  <2>2. CASE ResolveExecution(s)
    BY <2>1, <2>2, ResolveEffect
  <2>3. CASE TryConnect(s)
    BY <2>1, <2>3, TryConnectEffect
  <2>4. CASE SendAndSubscribe(s) \/ ReceiveEvent(s) \/ ClientGone(s)
    <3>1. CASE UNCHANGED connections
      BY <2>1, <3>1
    <3>2. CASE Leave(s)
      BY <2>1, <3>2, LeaveEffect DEF TypeInv
    <3> QED BY <2>4, <3>1, <3>2, SubscribeEffect, ReceiveEffect
  <2> QED BY <2>2, <2>3, <2>4 DEF Serve
<1> QED BY <1>1, <1>2 DEF TypeInv, StreamRest, RowOK, ProcOK, HistoryOK, TrackedOK

LEMMA NextTypes == TypeInv /\ [Next]_vars => TypeInv'
<1> SUFFICES ASSUME TypeInv, [Next]_vars PROVE TypeInv'
  OBVIOUS
<1>1. CASE UNCHANGED vars
  BY <1>1 DEF vars, TypeInv, RowOK, ProcOK, StreamOK, HistoryOK, TrackedOK
<1>2. ASSUME NEW w \in Writers, Request(w) PROVE TypeInv'
  BY <1>2, CallTypes DEF Request
<1>3. ASSUME NEW w \in Writers, Track(w) \/ TrackerFails(w) PROVE TypeInv'
  BY <1>3, GetAgainTypes, UpdateStepsTypes, UpdateStatusTypes, ReadForEventTypes, PublishTypes,
     TrackerFailsTypes DEF Track
<1> QED BY <1>1, <1>2, <1>3, StartTypes, StartFailsTypes, StreamTypes DEF Next

LEMMA TypeInvHolds == Spec => []TypeInv
BY InitTypes, NextTypes, PTL DEF Spec

LEMMA TypeInvImplies == TypeInv => TypeOK
<1> SUFFICES ASSUME TypeInv PROVE TypeOK
  OBVIOUS
<1>1. proc \in [Writers -> ProcFields]
  BY DEF TypeInv, ProcOK, Calling
<1> QED BY <1>1 DEF TypeInv, TypeOK, RowOK, StreamOK, HistoryOK, TrackedOK, ProcFields, StreamFields

\* A subscriber's channel never holds more than its capacity, and the row, the
\* calls and the handlers keep their shapes (EventHub.Subscribe, AddStep).
THEOREM TypeCorrect == Spec => []TypeOK
BY TypeInvHolds, TypeInvImplies, PTL

-----------------------------------------------------------------------------
(* Connections.                                                            *)

OpenStreams == {s \in Streams : Open(s)}

ConnectionInv == IsFiniteSet(OpenStreams) /\ ConnectionsAreExact

\* No handler goes in or out.
LEMMA SameConnections ==
    ASSUME ConnectionInv, UNCHANGED connections, \A s \in Streams : Open(s)' <=> Open(s)
    PROVE  ConnectionInv'
<1>1. OpenStreams' = OpenStreams
  BY DEF OpenStreams
<1> QED BY <1>1 DEF ConnectionInv, ConnectionsAreExact, OpenStreams

LEMMA StreamConnections ==
    ASSUME TypeInv, ConnectionInv, NEW s \in Streams, ResolveExecution(s) \/ Serve(s) \/ ClientGone(s)
    PROVE  ConnectionInv'
<1>0. connections \in Nat /\ IsFiniteSet(OpenStreams) /\ connections = Cardinality(OpenStreams)
  BY DEF TypeInv, ConnectionInv, ConnectionsAreExact, OpenStreams
<1>1. CASE ResolveExecution(s)
  BY <1>1, ResolveEffect, SameConnections DEF Open
<1>2. CASE TryConnect(s) /\ UNCHANGED connections
  <2>1. stream[s].pc = "connect" /\ stream'[s].pc = "done"
    BY <1>0, <1>2, TryConnectEffect
  <2> QED BY <1>2, <2>1, TryConnectEffect, SameConnections DEF Open
<1>3. CASE TryConnect(s) /\ connections' # connections
  <2>1. /\ ConnectionAllowed /\ connections' = connections + 1 /\ stream[s].pc = "connect"
        /\ stream'[s].pc = "initial" /\ \A t \in Streams \ {s} : stream'[t] = stream[t]
    BY <1>3, TryConnectEffect
  <2>2. s \notin OpenStreams /\ OpenStreams' = OpenStreams \cup {s}
    BY <2>1 DEF OpenStreams, Open
  <2>3. IsFiniteSet(OpenStreams') /\ Cardinality(OpenStreams') = Cardinality(OpenStreams) + 1
    BY <1>0, <2>2, FS_AddElement
  <2>4. MaxConnections >= 0 => connections' <= MaxConnections
    BY <1>0, <2>1, LimitAssumption DEF ConnectionAllowed
  <2> QED BY <1>0, <2>1, <2>3, <2>4 DEF ConnectionInv, ConnectionsAreExact, OpenStreams
<1>4. CASE SendAndSubscribe(s) \/ ReceiveEvent(s) \/ ClientGone(s)
  <2>1. /\ Open(s) /\ \A t \in Streams \ {s} : stream'[t] = stream[t]
        /\ \/ Leave(s) /\ stream'[s].pc = "done"
           \/ UNCHANGED connections /\ stream'[s].pc = "loop"
    BY <1>4, SubscribeEffect, ReceiveEffect DEF Open
  <2>2. CASE UNCHANGED connections /\ stream'[s].pc = "loop"
    BY <2>1, <2>2, SameConnections DEF Open
  <2>3. CASE Leave(s) /\ stream'[s].pc = "done"
    <3>1. s \in OpenStreams /\ OpenStreams' = OpenStreams \ {s}
      BY <2>1, <2>3 DEF OpenStreams, Open
    <3>2. IsFiniteSet(OpenStreams') /\ Cardinality(OpenStreams') = Cardinality(OpenStreams) - 1
      BY <1>0, <3>1, FS_RemoveElement
    <3>3. Cardinality(OpenStreams) # 0
      BY <1>0, <3>1, FS_EmptySet
    <3>4. connections' = connections - 1
      BY <1>0, <2>3, <3>3, LeaveEffect DEF TypeInv
    <3>5. MaxConnections >= 0 => connections' <= MaxConnections
      BY <1>0, <3>4, LimitAssumption DEF ConnectionInv, ConnectionsAreExact
    <3> QED BY <1>0, <3>2, <3>4, <3>5 DEF ConnectionInv, ConnectionsAreExact, OpenStreams
  <2> QED BY <2>1, <2>2, <2>3
<1> QED BY <1>1, <1>2, <1>3, <1>4 DEF Serve

LEMMA NextConnections == TypeInv /\ ConnectionInv /\ [Next]_vars => ConnectionInv'
<1> SUFFICES ASSUME TypeInv, ConnectionInv, [Next]_vars PROVE ConnectionInv'
  OBVIOUS
<1>1. CASE UNCHANGED <<stream, connections>>
  BY <1>1, SameConnections DEF Open
<1>2. ASSUME NEW w \in Writers, Request(w) PROVE ConnectionInv'
  BY <1>1, <1>2, CallEffect DEF Request
<1>3. ASSUME NEW w \in Writers, Track(w) \/ TrackerFails(w) PROVE ConnectionInv'
  <2>1. CASE Publish(w)
    BY <2>1, PublishEffect, SameConnections DEF Open
  <2>2. CASE ~Publish(w)
    BY <1>1, <1>3, <2>2 DEF Track, GetAgain, UpdateSteps, UpdateStatus, ReadForEvent, TrackerFails, streamVars
  <2> QED BY <2>1, <2>2
<1>4. CASE UNCHANGED vars
  BY <1>1, <1>4 DEF vars
<1>5. ASSUME (\E w \in Writers : StartExecution(w)) \/ StartFails PROVE ConnectionInv'
  BY <1>1, <1>5, StartEffect, StartFailsTypes
<1> QED BY <1>2, <1>3, <1>4, <1>5, StreamConnections DEF Next

LEMMA InitConnections == Init => ConnectionInv
<1> SUFFICES ASSUME Init PROVE ConnectionInv
  OBVIOUS
<1>1. OpenStreams = {} /\ connections = 0
  BY DEF Init, OpenStreams, Open, Fresh
<1> QED BY <1>1, FS_EmptySet, LimitAssumption DEF ConnectionInv, ConnectionsAreExact, OpenStreams

\* However many requests connect, are refused, end on a terminal event or lose
\* their client, the count is the number of open streams and never exceeds the
\* tenant's limit (ConnectionTracker.TryConnect, Disconnect).
THEOREM ConnectionsCounted == Spec => []ConnectionsAreExact
<1>1. ConnectionInv => ConnectionsAreExact
  BY DEF ConnectionInv
<1> QED BY <1>1, InitConnections, NextConnections, TypeInvHolds, PTL DEF Spec

-----------------------------------------------------------------------------
(* The steps of the row.  P, r, t, g and e stand for proc, row, told, gated *)
(* and ended, before or after a step.                                      *)

\* No failed call and no two calls at once.
Calm == faults = 0 /\ ~overlapped

HasNone(steps, s) == \A i \in 1..Len(steps) : steps[i].id # s
HasOne(steps, s)  == \E i \in 1..Len(steps) :
    steps[i].id = s /\ \A j \in 1..Len(steps) : steps[j].id = s => j = i

\* A writer is going to change the entry of the step.
Changes(q, s) == q.pc \in {"get", "steps"} /\ q.op \in StepOps /\ q.step = s
\* A writer is going to set the status of the row.
Ends(q)       == q.pc \in {"steps", "status"} /\ q.op \in DOMAIN Final
\* It has finalised the steps, or there was nothing to finalise.
Finalises(q)  == q.pc = "status" /\ q.op = "finish"

Shows(entry, status, final) ==
    \/ entry.status = status
    \/ entry.status = "completed" /\ status = "running" /\ final

Alone(P)     == \A v, w \in Writers : P[v].pc # "idle" /\ P[w].pc # "idle" => v = w
Views(P, r)  == \A w \in Writers : P[w].pc = "steps" => P[w].view = r.steps
Ending(P, r, e) == /\ ~e => r.status = "pending"
                   /\ \A w \in Writers : Ends(P[w]) => e /\ r.status = "pending"
Ungated(P, r, t, g) ==
    \A s \in Steps : g[s] = 0 =>
        HasNone(r.steps, s) /\ t[s] = "none" /\ \A w \in Writers : ~Changes(P[w], s)
GatedOnce(P, r, t, g) ==
    \A s \in Steps : g[s] = 1 /\ (\A w \in Writers : ~Changes(P[w], s)) =>
        /\ HasOne(r.steps, s)
        /\ \A i \in 1..Len(r.steps) : r.steps[i].id = s =>
              Shows(r.steps[i], t[s], r.status = "completed" \/ \E w \in Writers : Finalises(P[w]))
InFlight(P, r, t, g) ==
    \A w \in Writers, s \in Steps : Changes(P[w], s) /\ g[s] = 1 =>
        /\ t[s] = P[w].status
        /\ IF P[w].op = "gate" THEN HasNone(r.steps, s) ELSE HasOne(r.steps, s)

Follows(P, r, t, g, e) ==
    /\ Alone(P) /\ Views(P, r) /\ Ending(P, r, e) /\ Ungated(P, r, t, g)
    /\ GatedOnce(P, r, t, g) /\ InFlight(P, r, t, g)

FollowInv == Calm => Follows(proc, row, told, gated, ended)

\* A step of the only writer: what is left to show is about this writer.
LEMMA OneWriter ==
    ASSUME NEW P, NEW r, NEW t, NEW g, NEW e, NEW w \in Writers,
           \A v \in Writers \ {w} : P[v].pc = "idle",
           P[w].pc = "steps" => P[w].view = r.steps,
           ~e => r.status = "pending", Ends(P[w]) => e /\ r.status = "pending",
           \A s \in Steps : g[s] = 0 => HasNone(r.steps, s) /\ t[s] = "none" /\ ~Changes(P[w], s),
           \A s \in Steps : g[s] = 1 /\ ~Changes(P[w], s) =>
              /\ HasOne(r.steps, s)
              /\ \A i \in 1..Len(r.steps) : r.steps[i].id = s =>
                    Shows(r.steps[i], t[s], r.status = "completed" \/ Finalises(P[w])),
           \A s \in Steps : Changes(P[w], s) /\ g[s] = 1 =>
              /\ t[s] = P[w].status
              /\ IF P[w].op = "gate" THEN HasNone(r.steps, s) ELSE HasOne(r.steps, s)
    PROVE  Follows(P, r, t, g, e)
<1>1. \A v \in Writers \ {w}, s \in Steps : ~Changes(P[v], s) /\ ~Ends(P[v]) /\ ~Finalises(P[v]) /\ P[v].pc # "steps"
  BY DEF Changes, Ends, Finalises
<1>2. Alone(P)
  BY DEF Alone
<1>3. Views(P, r) /\ Ending(P, r, e)
  <2>1. \A v \in Writers \ {w} : ~Ends(P[v]) /\ P[v].pc # "steps"
    BY DEF Ends
  <2> QED BY <2>1 DEF Views, Ending
<1>4. Ungated(P, r, t, g)
  BY <1>1 DEF Ungated
<1>5. GatedOnce(P, r, t, g)
  <2> SUFFICES ASSUME NEW s \in Steps, g[s] = 1, \A v \in Writers : ~Changes(P[v], s)
               PROVE  /\ HasOne(r.steps, s)
                      /\ \A i \in 1..Len(r.steps) : r.steps[i].id = s =>
                            Shows(r.steps[i], t[s], r.status = "completed" \/ \E v \in Writers : Finalises(P[v]))
    BY DEF GatedOnce
  <2>1. HasOne(r.steps, s) /\ \A i \in 1..Len(r.steps) : r.steps[i].id = s =>
            Shows(r.steps[i], t[s], r.status = "completed" \/ Finalises(P[w]))
    OBVIOUS
  <2> QED BY <2>1 DEF Shows
<1>6. InFlight(P, r, t, g)
  BY <1>1 DEF InFlight
<1> QED BY <1>2, <1>3, <1>4, <1>5, <1>6 DEF Follows

LEMMA InitFollows == Init => FollowInv
<1> SUFFICES ASSUME Init PROVE Follows(proc, row, told, gated, ended)
  BY DEF FollowInv
<1>1. \A w \in Writers : proc[w].pc = "idle"
  BY IdleTyped DEF Init
<1>2. row.steps = <<>> /\ row.status = "pending" /\ Len(row.steps) = 0
  BY EmptySeq DEF Init
<1>3. \A s \in Steps : gated[s] = 0 /\ told[s] = "none" /\ HasNone(row.steps, s)
  BY <1>2 DEF Init, HasNone
<1>4. \A w \in Writers, s \in Steps : ~Changes(proc[w], s)
  BY <1>1 DEF Changes
<1>5. \A w \in Writers : ~Ends(proc[w])
  BY <1>1 DEF Ends
<1>6. Alone(proc) /\ Views(proc, row) /\ Ending(proc, row, ended)
  BY <1>1, <1>2, <1>5 DEF Alone, Views, Ending
<1> QED BY <1>3, <1>4, <1>6 DEF Follows, Ungated, GatedOnce, InFlight

\* What the writes make of the entries of a step.
LEMMA SameIds ==
    ASSUME NEW a, NEW b, NEW s, Len(b) = Len(a), \A i \in 1..Len(a) : b[i].id = a[i].id
    PROVE  (HasNone(a, s) => HasNone(b, s)) /\ (HasOne(a, s) => HasOne(b, s))
<1>1. HasNone(a, s) => HasNone(b, s)
  BY DEF HasNone
<1>2. ASSUME HasOne(a, s) PROVE HasOne(b, s)
  <2>1. PICK i \in 1..Len(a) : a[i].id = s /\ \A j \in 1..Len(a) : a[j].id = s => j = i
    BY <1>2 DEF HasOne
  <2>2. i \in 1..Len(b) /\ b[i].id = s /\ \A j \in 1..Len(b) : b[j].id = s => j = i
    BY <2>1
  <2> QED BY <2>2 DEF HasOne
<1> QED BY <1>1, <1>2

LEMMA Appended ==
    ASSUME NEW steps \in Seq(Entries), NEW s \in Steps, NEW st \in StepStates,
           NEW new, new = AddStep(steps, s, st), NEW x
    PROVE  /\ x # s => /\ HasNone(steps, x) => HasNone(new, x)
                       /\ HasOne(steps, x) => HasOne(new, x)
                       /\ \A i \in 1..Len(new) : new[i].id = x => i \in 1..Len(steps) /\ new[i] = steps[i]
           /\ HasNone(steps, s) => /\ HasOne(new, s)
                                   /\ \A i \in 1..Len(new) : new[i].id = s => new[i].status = st
<1>1. PICK n \in Nat : n = Len(steps)
  BY LenProperties
<1>2. /\ Len(new) = n + 1 /\ \A i \in 1..n : new[i] = steps[i]
      /\ new[n + 1].id = s /\ new[n + 1].status = st
  BY <1>1, AddStepIs
<1>3. \A i \in 1..Len(new) : i \in 1..n \/ i = n + 1
  BY <1>2
<1>4. \A i \in 1..Len(new) : new[i].id = x /\ x # s => i \in 1..n /\ new[i] = steps[i]
  BY <1>2, <1>3
<1>5. x # s /\ HasNone(steps, x) => HasNone(new, x)
  BY <1>1, <1>4 DEF HasNone
<1>6. ASSUME x # s, HasOne(steps, x) PROVE HasOne(new, x)
  <2>1. PICK i \in 1..n : steps[i].id = x /\ \A j \in 1..n : steps[j].id = x => j = i
    BY <1>1, <1>6 DEF HasOne
  <2>2. i \in 1..Len(new) /\ new[i].id = x
    BY <1>2, <2>1
  <2>3. \A j \in 1..Len(new) : new[j].id = x => j = i
    BY <1>4, <1>6, <2>1
  <2> QED BY <2>2, <2>3 DEF HasOne
<1>7. ASSUME HasNone(steps, s)
      PROVE  HasOne(new, s) /\ \A i \in 1..Len(new) : new[i].id = s => new[i].status = st
  <2>1. \A i \in 1..Len(new) : new[i].id = s => i = n + 1
    BY <1>1, <1>2, <1>3, <1>7 DEF HasNone
  <2>2. n + 1 \in 1..Len(new)
    BY <1>2
  <2> QED BY <1>2, <2>1, <2>2 DEF HasOne
<1> QED BY <1>1, <1>4, <1>5, <1>6, <1>7

LEMMA Updated ==
    ASSUME NEW steps \in Seq(Entries), NEW s \in Steps, NEW st \in StepStates,
           NEW new, new = Update(steps, s, st), NEW x
    PROVE  /\ (HasNone(steps, x) => HasNone(new, x)) /\ (HasOne(steps, x) => HasOne(new, x))
           /\ Len(new) = Len(steps)
           /\ x # s => \A i \in 1..Len(new) : new[i].id = x =>
                          steps[i].id = x /\ new[i].status = steps[i].status
           /\ HasOne(steps, s) => \A i \in 1..Len(new) : new[i].id = s => new[i].status = st
<1>1. /\ Len(new) = Len(steps)
      /\ \A i \in 1..Len(steps) :
                 /\ new[i].id = steps[i].id
                 /\ new[i].status = IF i = FirstOf(steps, s) THEN st ELSE steps[i].status
  BY UpdateIs
<1>2. (HasNone(steps, x) => HasNone(new, x)) /\ (HasOne(steps, x) => HasOne(new, x))
  BY <1>1, SameIds
<1>3. FirstOf(steps, s) \in 1..Len(steps) => steps[FirstOf(steps, s)].id = s
  BY FirstOfIs
<1>4. ASSUME x # s, NEW i \in 1..Len(new), new[i].id = x
      PROVE  steps[i].id = x /\ new[i].status = steps[i].status
  BY <1>1, <1>3, <1>4
<1>5. ASSUME HasOne(steps, s), NEW i \in 1..Len(new), new[i].id = s PROVE new[i].status = st
  <2>1. PICK k \in 1..Len(steps) : steps[k].id = s /\ \A j \in 1..Len(steps) : steps[j].id = s => j = k
    BY <1>5 DEF HasOne
  <2>2. FirstOf(steps, s) \in 1..Len(steps)
    BY <2>1, FirstOfIs
  <2>3. FirstOf(steps, s) = k /\ i = k
    BY <1>1, <1>3, <1>5, <2>1, <2>2
  <2> QED BY <1>1, <1>5, <2>3
<1> QED BY <1>1, <1>2, <1>4, <1>5

\* Before and after a step of one writer.
LEMMA WriterBefore ==
    ASSUME TypeInv, FollowInv, Calm, NEW w \in Writers,
           proc[w].pc # "idle" \/ \A v \in Writers : proc[v].pc = "idle"
    PROVE  /\ \A v \in Writers \ {w} : proc[v].pc = "idle"
           /\ proc[w].pc = "steps" => proc[w].view = row.steps
           /\ ~ended => row.status = "pending"
           /\ Ends(proc[w]) => ended /\ row.status = "pending"
           /\ \A s \in Steps : gated[s] = 0 => HasNone(row.steps, s) /\ told[s] = "none" /\ ~Changes(proc[w], s)
           /\ \A s \in Steps : gated[s] = 1 /\ ~Changes(proc[w], s) =>
                 /\ HasOne(row.steps, s)
                 /\ \A i \in 1..Len(row.steps) : row.steps[i].id = s =>
                       Shows(row.steps[i], told[s], row.status = "completed" \/ Finalises(proc[w]))
           /\ \A s \in Steps : Changes(proc[w], s) /\ gated[s] = 1 =>
                 /\ told[s] = proc[w].status
                 /\ IF proc[w].op = "gate" THEN HasNone(row.steps, s) ELSE HasOne(row.steps, s)
<1>0. Follows(proc, row, told, gated, ended)
  BY DEF FollowInv
<1>1. \A v \in Writers \ {w} : proc[v].pc = "idle"
  <2>1. proc[w].pc # "idle" => \A v \in Writers : proc[v].pc # "idle" => v = w
    BY <1>0 DEF Follows, Alone
  <2> QED BY <2>1
<1>2. \A v \in Writers \ {w} : (\A s \in Steps : ~Changes(proc[v], s)) /\ ~Finalises(proc[v])
  BY <1>1 DEF Changes, Finalises
<1>3. \A s \in Steps : gated[s] = 1 /\ ~Changes(proc[w], s) =>
                 /\ HasOne(row.steps, s)
                 /\ \A i \in 1..Len(row.steps) : row.steps[i].id = s =>
                       Shows(row.steps[i], told[s], row.status = "completed" \/ Finalises(proc[w]))
  <2> SUFFICES ASSUME NEW s \in Steps, gated[s] = 1, ~Changes(proc[w], s)
               PROVE  /\ HasOne(row.steps, s)
                      /\ \A i \in 1..Len(row.steps) : row.steps[i].id = s =>
                            Shows(row.steps[i], told[s], row.status = "completed" \/ Finalises(proc[w]))
    OBVIOUS
  <2>1. \A v \in Writers : ~Changes(proc[v], s)
    BY <1>2
  <2>2. /\ HasOne(row.steps, s)
        /\ \A i \in 1..Len(row.steps) : row.steps[i].id = s =>
              Shows(row.steps[i], told[s], row.status = "completed" \/ \E v \in Writers : Finalises(proc[v]))
    BY <1>0, <2>1 DEF Follows, GatedOnce
  <2>3. (\E v \in Writers : Finalises(proc[v])) => Finalises(proc[w])
    BY <1>2
  <2> QED BY <2>2, <2>3 DEF Shows
<1>4. \A s \in Steps : gated[s] = 0 => HasNone(row.steps, s) /\ told[s] = "none" /\ ~Changes(proc[w], s)
  BY <1>0 DEF Follows, Ungated
<1>5. \A s \in Steps : Changes(proc[w], s) /\ gated[s] = 1 =>
                 /\ told[s] = proc[w].status
                 /\ IF proc[w].op = "gate" THEN HasNone(row.steps, s) ELSE HasOne(row.steps, s)
  BY <1>0 DEF Follows, InFlight
<1>6. /\ proc[w].pc = "steps" => proc[w].view = row.steps
      /\ ~ended => row.status = "pending"
      /\ Ends(proc[w]) => ended /\ row.status = "pending"
  BY <1>0 DEF Follows, Views, Ending
<1> QED BY <1>1, <1>3, <1>4, <1>5, <1>6

\* The writer moves on and is not about to change anything any more.
LEMMA ReadFollows ==
    ASSUME TypeInv, FollowInv, Calm, NEW w \in Writers, ReadForEvent(w) \/ Publish(w)
    PROVE  Follows(proc, row, told, gated, ended)'
<1>1. /\ proc[w].pc \in {"reread", "publish"} /\ proc'[w].pc \in {"publish", "idle"}
      /\ \A v \in Writers \ {w} : proc'[v] = proc[v]
      /\ UNCHANGED <<row, ended, told, gated>>
  BY ReadForEventEffect, PublishEffect DEF At
<1>2. \A v \in Writers \ {w} : proc[v].pc = "idle"
  BY <1>1, WriterBefore
<1>3. (\A s : ~Changes(proc[w], s) /\ ~Changes(proc'[w], s)) /\ ~Ends(proc'[w])
      /\ ~Finalises(proc[w]) /\ ~Finalises(proc'[w])
  BY <1>1 DEF Changes, Ends, Finalises
<1>4. Follows(proc', row, told, gated, ended)
  <2>1. /\ ~ended => row.status = "pending"
        /\ \A s \in Steps : gated[s] = 0 => HasNone(row.steps, s) /\ told[s] = "none"
        /\ \A s \in Steps : gated[s] = 1 =>
                 /\ HasOne(row.steps, s)
                 /\ \A i \in 1..Len(row.steps) : row.steps[i].id = s =>
                       Shows(row.steps[i], told[s], row.status = "completed" \/ Finalises(proc[w]))
    BY <1>1, <1>3, WriterBefore
  <2>2. \A s \in Steps : gated[s] = 1 =>
                 /\ HasOne(row.steps, s)
                 /\ \A i \in 1..Len(row.steps) : row.steps[i].id = s =>
                       Shows(row.steps[i], told[s], row.status = "completed" \/ Finalises(proc'[w]))
    BY <1>3, <2>1 DEF Shows
  <2>3. (\A v \in Writers \ {w} : proc'[v].pc = "idle") /\ proc'[w].pc # "steps"
    BY <1>1, <1>2
  <2> QED BY <1>3, <2>1, <2>2, <2>3, OneWriter
<1> QED BY <1>1, <1>4

\* The fallback of a review reads the row again: what it is going to write is the same.
LEMMA GetAgainFollows ==
    ASSUME TypeInv, FollowInv, Calm, NEW w \in Writers, GetAgain(w)
    PROVE  Follows(proc, row, told, gated, ended)'
<1>0. /\ proc[w].pc = "get" /\ \A v \in Writers \ {w} : proc'[v] = proc[v]
      /\ UNCHANGED <<row, ended, told, gated>>
  BY GetAgainEffect DEF At
<1>1. PICK x \in Steps, st \in StepStates : x = proc[w].step /\ st = proc[w].status
  BY GetAgainEffect
<1>2. proc[w].op = "gate"
  BY <1>0, CallingFields DEF TypeInv, ProcOK
<1>3. PICK q : q = proc'[w] /\ q = AfterGet("gate", x, st, row.steps)
  BY <1>1, GetAgainEffect
<1>4. q.pc = "steps" /\ q.view = row.steps /\ q.op = "gate" /\ q.step = x /\ q.status = st
  <2>1. /\ q.pc \in {"get", "steps", "status"}
        /\ q.pc \in {"get", "steps"} => q.step = x /\ q.status = st
        /\ q.pc = "steps" => q.view = row.steps /\ q.op = "gate"
        /\ q.pc # "get"
        /\ q.pc = "status" => "gate" \in DOMAIN Final
    BY <1>3, AfterGetIs DEF StepOps, TypeInv, RowOK
  <2> QED BY <2>1, FinalIs
<1>5. \A v \in Writers \ {w} : proc[v].pc = "idle"
  BY <1>0, WriterBefore
<1>6. /\ \A s : Changes(q, s) <=> Changes(proc[w], s)
      /\ ~Ends(q) /\ ~Finalises(q) /\ ~Finalises(proc[w])
  BY <1>0, <1>1, <1>2, <1>4, FinalIs DEF Changes, Ends, Finalises, StepOps
<1>7. /\ ~ended => row.status = "pending"
      /\ \A s \in Steps : gated[s] = 0 => HasNone(row.steps, s) /\ told[s] = "none" /\ ~Changes(proc[w], s)
      /\ \A s \in Steps : gated[s] = 1 /\ ~Changes(proc[w], s) =>
                 /\ HasOne(row.steps, s)
                 /\ \A i \in 1..Len(row.steps) : row.steps[i].id = s =>
                       Shows(row.steps[i], told[s], row.status = "completed" \/ Finalises(proc[w]))
      /\ \A s \in Steps : Changes(proc[w], s) /\ gated[s] = 1 =>
                 /\ told[s] = proc[w].status
                 /\ IF proc[w].op = "gate" THEN HasNone(row.steps, s) ELSE HasOne(row.steps, s)
  BY <1>0, WriterBefore
<1>8. Follows(proc', row, told, gated, ended)
  <2>1. \A s \in Steps : gated[s] = 0 => HasNone(row.steps, s) /\ told[s] = "none" /\ ~Changes(q, s)
    BY <1>6, <1>7
  <2>2. \A s \in Steps : gated[s] = 1 /\ ~Changes(q, s) =>
                 /\ HasOne(row.steps, s)
                 /\ \A i \in 1..Len(row.steps) : row.steps[i].id = s =>
                       Shows(row.steps[i], told[s], row.status = "completed" \/ Finalises(q))
    BY <1>6, <1>7 DEF Shows
  <2>3. \A s \in Steps : Changes(q, s) /\ gated[s] = 1 =>
                 /\ told[s] = q.status
                 /\ IF q.op = "gate" THEN HasNone(row.steps, s) ELSE HasOne(row.steps, s)
    BY <1>1, <1>2, <1>4, <1>6, <1>7
  <2>4. \A v \in Writers \ {w} : proc'[v].pc = "idle"
    BY <1>0, <1>5
  <2> QED BY <1>3, <1>4, <1>6, <1>7, <2>1, <2>2, <2>3, <2>4, OneWriter, ZenonT(60)
<1> QED BY <1>0, <1>8

\* The status is written: the row was pending, and its steps are final if it is completed now.
LEMMA UpdateStatusFollows ==
    ASSUME TypeInv, FollowInv, Calm, NEW w \in Writers, UpdateStatus(w)
    PROVE  Follows(proc, row, told, gated, ended)'
<1>0. /\ proc[w].pc = "status" /\ proc'[w].pc = "reread" /\ \A v \in Writers \ {w} : proc'[v] = proc[v]
      /\ proc[w].op \in DOMAIN Final /\ row'.status = Final[proc[w].op] /\ row'.steps = row.steps
      /\ UNCHANGED <<ended, told, gated>>
  BY UpdateStatusEffect DEF At
<1>1. \A v \in Writers \ {w} : proc[v].pc = "idle"
  BY <1>0, WriterBefore
<1>2. /\ \A s : ~Changes(proc[w], s) /\ ~Changes(proc'[w], s)
      /\ ~Ends(proc'[w]) /\ ~Finalises(proc'[w])
      /\ Ends(proc[w]) /\ (Finalises(proc[w]) <=> proc[w].op = "finish")
  BY <1>0 DEF Changes, Ends, Finalises
<1>3. /\ ended /\ row.status = "pending"
      /\ \A s \in Steps : gated[s] = 0 => HasNone(row.steps, s) /\ told[s] = "none"
      /\ \A s \in Steps : gated[s] = 1 =>
                 /\ HasOne(row.steps, s)
                 /\ \A i \in 1..Len(row.steps) : row.steps[i].id = s =>
                       Shows(row.steps[i], told[s], row.status = "completed" \/ Finalises(proc[w]))
  BY <1>0, <1>2, WriterBefore
<1>4. Finalises(proc[w]) => row'.status = "completed"
  BY <1>0, <1>2, FinalIs
<1>5. \A s \in Steps : gated[s] = 1 =>
                 /\ HasOne(row'.steps, s)
                 /\ \A i \in 1..Len(row'.steps) : row'.steps[i].id = s =>
                       Shows(row'.steps[i], told[s], row'.status = "completed" \/ Finalises(proc'[w]))
  BY <1>0, <1>3, <1>4 DEF Shows
<1>6. Follows(proc', row', told, gated, ended)
  <2>1. \A s \in Steps : gated[s] = 0 => HasNone(row'.steps, s) /\ told[s] = "none"
    BY <1>0, <1>3
  <2>2. (\A v \in Writers \ {w} : proc'[v].pc = "idle") /\ proc'[w].pc # "steps"
    BY <1>0, <1>1
  <2> QED BY <1>2, <1>3, <1>5, <2>1, <2>2, OneWriter
<1> QED BY <1>0, <1>6

\* The array is written back: the copy is the array as it is.
LEMMA UpdateStepsFollows ==
    ASSUME TypeInv, FollowInv, Calm, NEW w \in Writers, UpdateSteps(w)
    PROVE  Follows(proc, row, told, gated, ended)'
<1>0. /\ proc[w].pc = "steps" /\ \A v \in Writers \ {w} : proc'[v] = proc[v]
      /\ row'.status = row.status /\ UNCHANGED <<ended, told, gated>>
  BY UpdateStepsEffect DEF At
<1>1. \A v \in Writers \ {w} : proc[v].pc = "idle"
  BY <1>0, WriterBefore
<1>2. PICK q \in Calling : q = proc[w] /\ q.pc = "steps"
  BY <1>0 DEF TypeInv, ProcOK
<1>3. PICK old \in Seq(Entries) : old = row.steps /\ old = q.view
  <2>1. row.steps \in Seq(Entries)
    BY DEF TypeInv, RowOK
  <2>2. q.view = row.steps
    BY <1>0, <1>2, WriterBefore
  <2> QED BY <2>1, <2>2
<1>4. PICK new : new = row'.steps /\ new = NewSteps(q)
  BY <1>2, UpdateStepsEffect
<1>5. /\ ~ended => row.status = "pending"
      /\ Ends(q) => ended /\ row.status = "pending"
      /\ \A s \in Steps : gated[s] = 0 => HasNone(old, s) /\ told[s] = "none" /\ ~Changes(q, s)
      /\ \A s \in Steps : gated[s] = 1 /\ ~Changes(q, s) =>
                 /\ HasOne(old, s)
                 /\ \A i \in 1..Len(old) : old[i].id = s =>
                       Shows(old[i], told[s], row.status = "completed" \/ Finalises(q))
      /\ \A s \in Steps : Changes(q, s) /\ gated[s] = 1 =>
                 /\ told[s] = q.status
                 /\ IF q.op = "gate" THEN HasNone(old, s) ELSE HasOne(old, s)
  BY <1>0, <1>2, <1>3, WriterBefore
<1>6. ~Finalises(q)
  BY <1>2 DEF Finalises
<1>7. \A v \in Writers \ {w} : proc'[v].pc = "idle"
  BY <1>0, <1>1
<1>8. CASE q.op \in StepOps
  <2>1. PICK x \in Steps, st \in StepStates : x = q.step /\ st = q.status
    BY <1>2, <1>8, CallingFields, FinalIs DEF StepOps
  <2>2. \A s : Changes(q, s) <=> s = x
    BY <1>2, <1>8, <2>1 DEF Changes
  <2>3. proc'[w].pc \in {"idle", "reread"}
    BY <1>2, <1>8, UpdateStepsEffect DEF StepOps
  <2>4. (\A s : ~Changes(proc'[w], s)) /\ ~Ends(proc'[w]) /\ ~Finalises(proc'[w])
    BY <2>3 DEF Changes, Ends, Finalises
  <2>5. \A s \in Steps : gated[s] = 0 => s # x
    BY <1>5, <2>2
  <2>6. ASSUME NEW s \in Steps, gated[s] = 0 PROVE HasNone(new, s)
    <3>1. s # x /\ HasNone(old, s)
      BY <1>5, <2>5, <2>6
    <3>2. CASE q.op = "gate"
      <4>1. new = AddStep(old, x, st)
        BY <1>3, <1>4, <2>1, <3>2 DEF NewSteps
      <4> QED BY <2>1, <3>1, <4>1, Appended
    <3>3. CASE q.op \in {"review", "complete"}
      <4>1. new = Update(old, x, st)
        BY <1>3, <1>4, <2>1, <3>3 DEF NewSteps
      <4> QED BY <2>1, <3>1, <4>1, Updated
    <3> QED BY <1>8, <3>2, <3>3 DEF StepOps
  <2>7. ASSUME NEW s \in Steps, gated[s] = 1, s # x
        PROVE  /\ HasOne(new, s)
               /\ \A i \in 1..Len(new) : new[i].id = s =>
                     Shows(new[i], told[s], row.status = "completed" \/ Finalises(proc'[w]))
    <3>1. /\ HasOne(old, s)
          /\ \A i \in 1..Len(old) : old[i].id = s =>
                Shows(old[i], told[s], row.status = "completed" \/ Finalises(q))
      BY <1>5, <2>2, <2>7
    <3>2. CASE q.op = "gate"
      <4>1. new = AddStep(old, x, st)
        BY <1>3, <1>4, <2>1, <3>2 DEF NewSteps
      <4>2. /\ HasOne(new, s)
            /\ \A i \in 1..Len(new) : new[i].id = s => i \in 1..Len(old) /\ new[i] = old[i]
        BY <2>1, <2>7, <3>1, <4>1, Appended
      <4> QED BY <1>6, <2>4, <3>1, <4>2 DEF Shows
    <3>3. CASE q.op \in {"review", "complete"}
      <4>1. new = Update(old, x, st)
        BY <1>3, <1>4, <2>1, <3>3 DEF NewSteps
      <4>2. /\ HasOne(new, s) /\ Len(new) = Len(old)
            /\ \A i \in 1..Len(new) : new[i].id = s => old[i].id = s /\ new[i].status = old[i].status
        BY <2>1, <2>7, <3>1, <4>1, Updated
      <4> QED BY <1>6, <2>4, <3>1, <4>2 DEF Shows
    <3> QED BY <1>8, <3>2, <3>3 DEF StepOps
  <2>8. ASSUME gated[x] = 1
        PROVE  /\ HasOne(new, x)
               /\ \A i \in 1..Len(new) : new[i].id = x =>
                     Shows(new[i], told[x], row.status = "completed" \/ Finalises(proc'[w]))
    <3>1. told[x] = st /\ IF q.op = "gate" THEN HasNone(old, x) ELSE HasOne(old, x)
      BY <1>5, <2>1, <2>2, <2>8
    <3>2. CASE q.op = "gate"
      <4>1. new = AddStep(old, x, st)
        BY <1>3, <1>4, <2>1, <3>2 DEF NewSteps
      <4>2. HasOne(new, x) /\ \A i \in 1..Len(new) : new[i].id = x => new[i].status = st
        BY <2>1, <3>1, <3>2, <4>1, Appended
      <4> QED BY <3>1, <4>2 DEF Shows
    <3>3. CASE q.op \in {"review", "complete"}
      <4>1. new = Update(old, x, st)
        BY <1>3, <1>4, <2>1, <3>3 DEF NewSteps
      <4>2. HasOne(new, x) /\ \A i \in 1..Len(new) : new[i].id = x => new[i].status = st
        BY <2>1, <3>1, <3>3, <4>1, Updated
      <4> QED BY <3>1, <4>2 DEF Shows
    <3> QED BY <1>8, <3>2, <3>3 DEF StepOps
  <2>9. \A s \in Steps : gated[s] = 1 =>
           /\ HasOne(new, s)
           /\ \A i \in 1..Len(new) : new[i].id = s =>
                 Shows(new[i], told[s], row.status = "completed" \/ Finalises(proc'[w]))
    BY <2>7, <2>8
  <2>10. Follows(proc', row', told, gated, ended)
    <3>1. \A s \in Steps : gated[s] = 0 => HasNone(row'.steps, s) /\ told[s] = "none" /\ ~Changes(proc'[w], s)
      BY <1>4, <1>5, <2>4, <2>6
    <3>2. \A s \in Steps : gated[s] = 1 =>
           /\ HasOne(row'.steps, s)
           /\ \A i \in 1..Len(row'.steps) : row'.steps[i].id = s =>
                 Shows(row'.steps[i], told[s], row'.status = "completed" \/ Finalises(proc'[w]))
      BY <1>0, <1>4, <2>9
    <3>3. proc'[w].pc # "steps" /\ (~ended => row'.status = "pending")
      BY <1>0, <1>5, <2>3
    <3> QED BY <1>7, <2>4, <3>1, <3>2, <3>3, OneWriter
  <2> QED BY <1>0, <2>10
<1>9. CASE q.op = "finish"
  <2>1. new = Finalised(old)
    BY <1>3, <1>4, <1>9 DEF NewSteps
  <2>2. /\ Len(new) = Len(old)
        /\ \A i \in 1..Len(old) :
                 /\ new[i].id = old[i].id
                 /\ new[i].status = IF old[i].status = "running" THEN "completed" ELSE old[i].status
    BY <2>1, FinalisedIs
  <2>3. \A s : (HasNone(old, s) => HasNone(new, s)) /\ (HasOne(old, s) => HasOne(new, s))
    BY <2>2, SameIds
  <2>4. proc'[w].pc = "status" /\ proc'[w].op = "finish"
    BY <1>2, <1>9, UpdateStepsEffect
  <2>5. (\A s : ~Changes(proc'[w], s) /\ ~Changes(q, s)) /\ Finalises(proc'[w]) /\ Ends(q)
    BY <1>2, <1>9, <2>4, FinalIs DEF Changes, Ends, Finalises, StepOps
  <2>6. ended /\ row.status = "pending"
    BY <1>5, <2>5
  <2>7. ASSUME NEW s \in Steps, gated[s] = 1
        PROVE  /\ HasOne(new, s)
               /\ \A i \in 1..Len(new) : new[i].id = s =>
                     Shows(new[i], told[s], row'.status = "completed" \/ Finalises(proc'[w]))
    <3>1. /\ HasOne(old, s)
          /\ \A i \in 1..Len(old) : old[i].id = s => old[i].status = told[s]
      BY <1>5, <1>6, <2>5, <2>6, <2>7 DEF Shows
    <3> QED BY <2>2, <2>3, <2>5, <3>1 DEF Shows
  <2>8. Follows(proc', row', told, gated, ended)
    <3>1. \A s \in Steps : gated[s] = 0 => HasNone(row'.steps, s) /\ told[s] = "none" /\ ~Changes(proc'[w], s)
      BY <1>4, <1>5, <2>3, <2>5
    <3>2. \A s \in Steps : gated[s] = 1 =>
           /\ HasOne(row'.steps, s)
           /\ \A i \in 1..Len(row'.steps) : row'.steps[i].id = s =>
                 Shows(row'.steps[i], told[s], row'.status = "completed" \/ Finalises(proc'[w]))
      BY <1>4, <2>7
    <3>3. proc'[w].pc # "steps" /\ ended /\ row'.status = "pending"
      BY <1>0, <2>4, <2>6
    <3> QED BY <1>7, <2>5, <3>1, <3>2, <3>3, OneWriter
  <2> QED BY <1>0, <2>8
<1> QED BY <1>2, <1>8, <1>9, CallingFields

\* A request comes in while no other is in flight.
LEMMA CallFollows ==
    ASSUME TypeInv, FollowInv, Calm', NEW w \in Writers, NEW op \in StepOps \cup DOMAIN Final,
           NEW x \in Steps \cup {NoStep}, NEW st \in StepStates, Call(w, op, x, st)
    PROVE  Follows(proc, row, told, gated, ended)'
<1>0. /\ proc[w].pc = "idle" /\ CanCall(op, x) /\ row' = row
      /\ \A v \in Writers \ {w} : proc'[v] = proc[v]
      /\ (op \in StepOps => x \in Steps) /\ (op \notin StepOps => x = NoStep)
  BY CallEffect DEF At
<1>1. Calm /\ tracked = "yes" /\ \A v \in Writers : proc[v].pc = "idle"
  <2>1. Calm /\ tracked # "creating" /\ \A v \in Writers : proc[v].pc = "idle"
    BY Zenon DEF Calm, Call, At
  <2>2. tracked \in {"creating", "yes", "no"} /\ (tracked = "no" => faults > 0)
    BY DEF TypeInv, TrackedOK
  <2> QED BY <2>1, <2>2 DEF Calm
<1>2. /\ ~ended => row.status = "pending"
      /\ \A s \in Steps : gated[s] = 0 => HasNone(row.steps, s) /\ told[s] = "none"
      /\ \A s \in Steps : gated[s] = 1 =>
            /\ HasOne(row.steps, s)
            /\ \A i \in 1..Len(row.steps) : row.steps[i].id = s =>
                  Shows(row.steps[i], told[s], row.status = "completed")
  <2>1. (\A s : ~Changes(proc[w], s)) /\ ~Finalises(proc[w])
    BY <1>0 DEF Changes, Finalises
  <2> QED BY <1>1, <2>1, WriterBefore DEF Shows
<1>3. PICK q : q = proc'[w] /\ q = AfterGet(op, x, st, row.steps)
  BY <1>1, CallEffect
<1>4. row.steps \in Seq(Entries) /\ told \in [Steps -> StepStates \cup {"none"}] /\ gated \in [Steps -> Nat]
  BY DEF TypeInv, RowOK, HistoryOK
<1>5. /\ q.pc \in {"get", "steps", "status"}
      /\ q.pc \in {"get", "steps"} => q.step = x /\ q.status = st
      /\ q.pc = "steps" => q.view = row.steps /\ q.op = op
      /\ q.pc = "get" => op = "review" /\ FirstOf(row.steps, x) = 0
      /\ q.pc = "status" => q.op = op /\ op \in DOMAIN Final
      /\ q \in Calling
  <2>1. PICK steps \in Seq(Entries) : steps = row.steps
    BY <1>4
  <2>2. q = AfterGet(op, x, st, steps)
    BY <1>3, <2>1
  <2>3. op \in StepOps => x \in Steps
    BY <1>0
  <2> QED BY <2>1, <2>2, <2>3, AfterGetIs
<1>6. \A v \in Writers \ {w} : proc'[v].pc = "idle"
  BY <1>0, <1>1
<1>7. /\ ended' <=> (ended \/ op \notin StepOps)
      /\ told' = IF x = NoStep THEN told ELSE [told EXCEPT ![x] = st]
      /\ gated' = IF op = "gate" THEN [gated EXCEPT ![x] = @ + 1] ELSE gated
  BY Zenon DEF Call
<1>8. CASE op \notin StepOps
  <2>1. ~ended /\ x = NoStep /\ op \in DOMAIN Final
    BY <1>0, <1>1, <1>8, CanCallIs DEF At
  <2>2. ended' /\ told' = told /\ gated' = gated
    BY <1>7, <1>8, <2>1 DEF StepOps
  <2>3. \A s \in Steps : ~Changes(q, s)
    BY <1>5, <2>1, StepAssumption DEF Changes
  <2>4. \A s \in Steps : gated[s] = 1 =>
            /\ HasOne(row.steps, s)
            /\ \A i \in 1..Len(row.steps) : row.steps[i].id = s =>
                  Shows(row.steps[i], told[s], row.status = "completed" \/ Finalises(q))
    BY <1>2 DEF Shows
  <2>5. Follows(proc', row, told, gated, ended')
    BY <1>2, <1>3, <1>5, <1>6, <2>1, <2>2, <2>3, <2>4, OneWriter
  <2> QED BY <1>0, <2>2, <2>5
<1>9. CASE op \in StepOps
  <2>1. x \in Steps /\ x # NoStep /\ op \notin DOMAIN Final
    BY <1>0, <1>9, StepAssumption, FinalIs DEF StepOps
  <2>2. q.pc \in {"get", "steps"} /\ q.step = x /\ q.status = st /\ q.op \in StepOps
    <3>1. q.pc = "get" => q.op = "gate"
      BY <1>5, CallingFields
    <3> QED BY <1>5, <1>9, <2>1, <3>1 DEF StepOps
  <2>3. /\ \A s : Changes(q, s) <=> s = x
        /\ ~Ends(q) /\ ~Finalises(q)
    BY <2>2, FinalIs DEF Changes, Ends, Finalises, StepOps
  <2>4. /\ (ended' <=> ended) /\ told'[x] = st /\ \A s \in Steps \ {x} : told'[s] = told[s] /\ gated'[s] = gated[s]
    BY <1>4, <1>7, <1>9, <2>1
  <2>5. gated'[x] = IF op = "gate" THEN gated[x] + 1 ELSE gated[x]
    BY <1>4, <1>7, <2>1
  <2>6. op # "gate" => gated[x] # 0
    <3>1. op = "complete" => gated[x] > 0
      BY <1>0, CanCallIs
    <3>2. op = "review" => told[x] = "approval"
      BY <1>0, CanCallIs
    <3> QED BY <1>2, <1>4, <1>9, <2>1, <3>1, <3>2 DEF StepOps
  <2>7. \A s \in Steps : gated'[s] = 0 => HasNone(row.steps, s) /\ told'[s] = "none" /\ ~Changes(q, s)
    <3>1. gated'[x] # 0
      BY <1>4, <2>1, <2>5, <2>6
    <3> QED BY <1>2, <2>3, <2>4, <3>1
  <2>8. \A s \in Steps : gated'[s] = 1 /\ ~Changes(q, s) =>
            /\ HasOne(row.steps, s)
            /\ \A i \in 1..Len(row.steps) : row.steps[i].id = s =>
                  Shows(row.steps[i], told'[s], row.status = "completed" \/ Finalises(q))
    BY <1>2, <2>3, <2>4 DEF Shows
  <2>9. ASSUME gated'[x] = 1
        PROVE  told'[x] = q.status /\ IF q.op = "gate" THEN HasNone(row.steps, x) ELSE HasOne(row.steps, x)
    <3>1. CASE op = "gate"
      <4>1. gated[x] = 0
        BY <1>4, <2>1, <2>5, <2>9, <3>1
      <4>2. q.op = "gate"
        BY <1>5, <2>2, <3>1
      <4> QED BY <1>2, <2>1, <2>2, <2>4, <4>1, <4>2
    <3>2. CASE op # "gate"
      <4>1. HasOne(row.steps, x)
        BY <1>2, <2>1, <2>5, <2>9, <3>2
      <4>2. FirstOf(row.steps, x) # 0
        BY <1>4, <4>1, FirstOfIs DEF HasOne
      <4>3. q.op = op
        BY <1>5, <2>2, <4>2
      <4> QED BY <2>2, <2>4, <3>2, <4>1, <4>3
    <3> QED BY <3>1, <3>2
  <2>10. Follows(proc', row, told', gated', ended')
    <3>1. \A s \in Steps : Changes(q, s) /\ gated'[s] = 1 =>
              /\ told'[s] = q.status
              /\ IF q.op = "gate" THEN HasNone(row.steps, s) ELSE HasOne(row.steps, s)
      BY <2>3, <2>9
    <3>2. (~ended' => row.status = "pending") /\ (q.pc = "steps" => q.view = row.steps)
      BY <1>2, <1>5, <2>4
    <3> QED BY <1>3, <1>6, <2>3, <2>7, <2>8, <3>1, <3>2, OneWriter, ZenonT(60)
  <2> QED BY <1>0, <2>10
<1> QED BY <1>8, <1>9

\* The row is there, with nothing in it yet.
LEMMA StartFollows ==
    ASSUME TypeInv, FollowInv, Calm', NEW w \in Writers, StartExecution(w)
    PROVE  Follows(proc, row, told, gated, ended)'
<1>1. /\ \A v \in Writers : proc[v].pc = "idle"
      /\ proc'[w].pc = "reread" /\ \A v \in Writers \ {w} : proc'[v] = proc[v]
      /\ UNCHANGED <<row, ended, told, gated>> /\ Calm
  BY StartEffect DEF Calm
<1>2. /\ \A s : ~Changes(proc[w], s) /\ ~Changes(proc'[w], s)
      /\ ~Ends(proc'[w]) /\ ~Finalises(proc[w]) /\ ~Finalises(proc'[w])
  BY <1>1 DEF Changes, Ends, Finalises
<1>3. /\ ~ended => row.status = "pending"
      /\ \A s \in Steps : gated[s] = 0 => HasNone(row.steps, s) /\ told[s] = "none"
      /\ \A s \in Steps : gated[s] = 1 =>
            /\ HasOne(row.steps, s)
            /\ \A i \in 1..Len(row.steps) : row.steps[i].id = s =>
                  Shows(row.steps[i], told[s], row.status = "completed" \/ Finalises(proc[w]))
  BY <1>1, <1>2, WriterBefore
<1>4. \A s \in Steps : gated[s] = 1 =>
            /\ HasOne(row.steps, s)
            /\ \A i \in 1..Len(row.steps) : row.steps[i].id = s =>
                  Shows(row.steps[i], told[s], row.status = "completed" \/ Finalises(proc'[w]))
  BY <1>2, <1>3 DEF Shows
<1>5. Follows(proc', row, told, gated, ended)
  <2>1. (\A v \in Writers \ {w} : proc'[v].pc = "idle") /\ proc'[w].pc # "steps"
    BY <1>1
  <2> QED BY <1>2, <1>3, <1>4, <2>1, OneWriter
<1> QED BY <1>1, <1>5

LEMMA NextFollows == TypeInv /\ FollowInv /\ [Next]_vars => FollowInv'
<1> SUFFICES ASSUME TypeInv, FollowInv, [Next]_vars, Calm'
             PROVE  Follows(proc, row, told, gated, ended)'
  BY DEF FollowInv
<1>1. CASE UNCHANGED <<row, proc, told, gated, ended, faults, overlapped>>
  BY <1>1 DEF FollowInv, Calm
<1>2. ASSUME NEW w \in Writers, Request(w) PROVE Follows(proc, row, told, gated, ended)'
  BY <1>2, CallFollows DEF Request
<1>3. ASSUME NEW w \in Writers, Track(w) PROVE Follows(proc, row, told, gated, ended)'
  <2>1. UNCHANGED <<faults, overlapped>>
    BY <1>3 DEF Track, GetAgain, UpdateSteps, UpdateStatus, ReadForEvent, Publish
  <2>2. Calm
    BY <2>1 DEF Calm
  <2> QED BY <1>3, <2>2, GetAgainFollows, UpdateStepsFollows, UpdateStatusFollows, ReadFollows DEF Track
<1>4. ASSUME NEW w \in Writers, TrackerFails(w) PROVE FALSE
  BY <1>4, TrackerFailsEffect DEF Calm, TypeInv, HistoryOK
<1>5. ASSUME NEW s \in Streams, ResolveExecution(s) \/ Serve(s) \/ ClientGone(s)
      PROVE  Follows(proc, row, told, gated, ended)'
  BY <1>1, <1>5, ResolveEffect, TryConnectEffect, SubscribeEffect, ReceiveEffect DEF Serve, StreamRest
<1>6. CASE UNCHANGED vars
  BY <1>1, <1>6 DEF vars
<1>7. ASSUME StartFails PROVE FALSE
  BY <1>7, StartFailsTypes DEF Calm
<1> QED BY <1>2, <1>3, <1>4, <1>5, <1>6, <1>7, StartFollows DEF Next

LEMMA FollowInvImplies == TypeInv /\ FollowInv => StepsFollowWorkflow
<1> SUFFICES ASSUME TypeInv, FollowInv, Settled, NEW s \in Steps, gated[s] = 1,
                    NEW mine, mine = {i \in DOMAIN row.steps : row.steps[i].id = s}
             PROVE  /\ Cardinality(mine) = 1
                    /\ \A i \in mine : \/ row.steps[i].status = told[s]
                                       \/ row.steps[i].status = "completed" /\ told[s] = "running"
                                          /\ row.status = "completed"
  BY DEF StepsFollowWorkflow
<1>1. Follows(proc, row, told, gated, ended) /\ \A w \in Writers : proc[w].pc = "idle"
  BY DEF FollowInv, Settled, Calm, At
<1>2. \A w \in Writers : ~Changes(proc[w], s) /\ ~Finalises(proc[w])
  BY <1>1 DEF Changes, Finalises
<1>3. /\ HasOne(row.steps, s)
      /\ \A i \in 1..Len(row.steps) : row.steps[i].id = s =>
            Shows(row.steps[i], told[s], row.status = "completed" \/ \E w \in Writers : Finalises(proc[w]))
  BY <1>1, <1>2 DEF Follows, GatedOnce
<1>4. mine = {i \in 1..Len(row.steps) : row.steps[i].id = s}
  BY LenProperties DEF TypeInv, RowOK
<1>5. PICK k \in 1..Len(row.steps) :
         row.steps[k].id = s /\ \A j \in 1..Len(row.steps) : row.steps[j].id = s => j = k
  BY <1>3 DEF HasOne
<1>6. mine = {k}
  BY <1>4, <1>5
<1>7. Cardinality(mine) = 1
  BY <1>6, FS_Singleton
<1> QED BY <1>2, <1>3, <1>4, <1>7 DEF Shows

\* Every change of a step rewrites the whole array from a copy, and the end of the
\* workflow rewrites it once more; as long as no two tracker calls overlap and none
\* fails, a step gated once has one entry, and it shows what the control plane
\* reported last (WCPExecutionTracker.SyncStepGate, SyncStepApproval, syncStepCompleted,
\* SyncWorkflowStatus).
THEOREM StepsFollow == Spec => []StepsFollowWorkflow
BY InitFollows, NextFollows, FollowInvImplies, TypeInvHolds, PTL DEF Spec
=============================================================================

------------------------ MODULE PlanLifecycleProofs ------------------------
(***************************************************************************)
(* Theorems about PlanLifecycle, for any number of requests and of plan    *)
(* contents and any limits: types, the truth and the completeness of the   *)
(* version history, how far it can exceed its limit, and the refinement of *)
(* OneShot.                                                                *)
(***************************************************************************)
EXTENDS PlanLifecycle, FiniteSetTheorems, TLAPS

-----------------------------------------------------------------------------
(* The inductive invariant.                                                *)

LocalType == [pc: Pcs, op: AllOps, read: Nat, def: Defs \cup {NoDef}, arg: Nat,
              want: Defs \cup {NoDef}]

\* There is no past before the plan is stored.
Unborn == plan.status = "none" => past = {}

\* The row of the plan is the newest of its past, which has one content per version;
\* the history is part of it, but for the versions an update that was ahead replaced; a
\* plan that was claimed is not on offer.
RowInv ==
    /\ claims > 0 => plan.status \notin {"none", "pending"}
    /\ plan.status # "none" => plan.def \in Defs /\ VersionRow(plan.version, plan.def) \in past
    /\ \A r \in past : r.version <= plan.version
    /\ \A r, s \in past : r.version = s.version => r = s
    /\ \A r \in versions : r \in past \/ r.version \in ahead
    /\ plan.status = "none" => versions = {}
    /\ Unborn

\* The stages of a handler after it has kept the row.
AfterKeep == {"count", "swap", "save", "fetch", "presave", "restore"}

\* What a handler read is in the past.  Once an update has swapped the version, the version
\* it replaced is the one it read, unless it was ahead.  A rollback about to restore has
\* the version it replaces in the history, or has failed to save it, or found it replaced
\* by an update that was ahead.
HandlerInv(p) ==
    /\ proc[p].pc # "idle" => plan.status # "none"
    /\ proc[p].pc # "idle" /\ proc[p].op = "update" => proc[p].want \in Defs
    /\ proc[p].pc = "count" => proc[p].op \in {"update", "rollback"}
    /\ proc[p].pc \in {"swap", "save"} => proc[p].op = "update"
    /\ proc[p].pc \in {"fetch", "presave", "restore"} => proc[p].op = "rollback"
    /\ proc[p].pc \in AfterKeep =>
          /\ proc[p].read <= plan.version
          /\ proc[p].def \in Defs
          /\ VersionRow(proc[p].read, proc[p].def) \in past
    /\ proc[p].pc = "save" => proc[p].arg = proc[p].read \/ proc[p].arg \in ahead
    /\ proc[p].pc \in {"presave", "restore"} => proc[p].want \in Defs
    /\ proc[p].pc = "restore" /\ Exists(plan) =>
          \/ VersionRow(proc[p].read, proc[p].def) \in versions
          \/ proc[p].read \in skipped \cup ahead

Inv == TypeOK /\ RowInv /\ \A p \in Procs : HandlerInv(p)

\* What every statement preserves for the handlers that do not take part in it.
Grows ==
    /\ plan.version <= plan'.version
    /\ past \subseteq past'
    /\ skipped \subseteq skipped' /\ ahead \subseteq ahead'
    /\ plan.status # "none" =>
          /\ plan'.status # "none"
          /\ Exists(plan)' => Exists(plan) /\ versions \subseteq versions'

LEMMA IdleType == Idle \in LocalType /\ Idle.pc = "idle"
BY DEF Idle, LocalType, Pcs, AllOps

LEMMA OthersKeep ==
    ASSUME Inv, Grows, plan'.version \in Nat,
           NEW p \in Procs, proc'[p] = proc[p]
    PROVE  HandlerInv(p)'
<1>1. HandlerInv(p) /\ proc[p] \in LocalType /\ plan.version \in Nat
  BY DEF Inv, TypeOK, LocalType
<1> QED BY <1>1 DEF HandlerInv, Grows, LocalType, AfterKeep

\* A statement that leaves the tables alone.
LEMMA LocalStep ==
    ASSUME Inv, UNCHANGED <<plan, versions, past, claims, skipped, ahead>>,
           miscounts' \in Nat, due' \in BOOLEAN, calls' \in 0..MaxCalls, faults' \in 0..MaxFaults,
           NEW p \in Procs, proc' \in [Procs -> LocalType],
           \A q \in Procs \ {p} : proc'[q] = proc[q],
           HandlerInv(p)'
    PROVE  Inv'
<1>1. Grows /\ plan'.version \in Nat
  BY DEF Grows, Inv, TypeOK, Exists
<1>2. \A q \in Procs : HandlerInv(q)'
  BY <1>1, OthersKeep
<1>3. TypeOK'
  BY DEF Inv, TypeOK, LocalType
<1>4. RowInv'
  BY DEF Inv, RowInv, Unborn
<1> QED BY <1>2, <1>3, <1>4 DEF Inv

\* A handler that returns holds nothing.
LEMMA ReturnStep ==
    ASSUME Inv, NEW p \in Procs, Return(p)
    PROVE  /\ proc' \in [Procs -> LocalType]
           /\ \A q \in Procs \ {p} : proc'[q] = proc[q]
           /\ proc'[p].pc = "idle"
           /\ HandlerInv(p)'
<1>1. proc \in [Procs -> LocalType]
  BY DEF Inv, TypeOK, LocalType
<1>2. /\ proc' \in [Procs -> LocalType]
      /\ \A q \in Procs \ {p} : proc'[q] = proc[q]
      /\ proc'[p].pc = "idle"
  BY <1>1, IdleType DEF Return
<1> QED BY <1>2 DEF HandlerInv, AfterKeep

LEMMA GotoStep ==
    ASSUME Inv, NEW p \in Procs, NEW pc \in Pcs, Goto(p, pc)
    PROVE  /\ proc' \in [Procs -> LocalType]
           /\ \A q \in Procs \ {p} : proc'[q] = proc[q]
           /\ proc'[p] = [proc[p] EXCEPT !.pc = pc]
BY DEF Inv, TypeOK, LocalType, Goto

LEMMA KeepStep ==
    ASSUME Inv, NEW p \in Procs, NEW pc \in Pcs, Keep(p, pc)
    PROVE  /\ proc' \in [Procs -> LocalType]
           /\ \A q \in Procs \ {p} : proc'[q] = proc[q]
           /\ proc'[p] = [proc[p] EXCEPT !.pc = pc, !.read = plan.version, !.def = plan.def]
<1>1. proc \in [Procs -> LocalType] /\ plan.version \in Nat /\ plan.def \in Defs \cup {NoDef}
  BY DEF Inv, TypeOK, LocalType
<1>2. proc' = [proc EXCEPT ![p] = [proc[p] EXCEPT !.pc = pc, !.read = plan.version, !.def = plan.def]]
  BY <1>1 DEF Keep, LocalType
<1>3. [proc[p] EXCEPT !.pc = pc, !.read = plan.version, !.def = plan.def] \in LocalType
  BY <1>1 DEF LocalType
<1> QED BY <1>1, <1>2, <1>3

LEMMA InitInv == Init => Inv
<1> SUFFICES ASSUME Init PROVE Inv
  OBVIOUS
<1>1. proc \in [Procs -> LocalType] /\ \A p \in Procs : proc[p].pc = "idle"
  BY IdleType DEF Init
<1>2. TypeOK
  <2>1. plan \in [status: Statuses, version: Nat, def: Defs \cup {NoDef}]
    BY DEF Init, Statuses
  <2>2. calls \in 0..MaxCalls /\ faults \in 0..MaxFaults
    BY LimitAssumption DEF Init
  <2> QED BY <1>1, <2>1, <2>2 DEF Init, TypeOK, LocalType
<1>3. RowInv
  BY DEF Init, RowInv, Unborn
<1>4. \A p \in Procs : HandlerInv(p)
  BY <1>1 DEF HandlerInv, AfterKeep
<1> QED BY <1>2, <1>3, <1>4 DEF Inv

-----------------------------------------------------------------------------
(* Steps that leave the tables alone.                                      *)

LEMMA CallInv ==
    ASSUME Inv, NEW p \in Procs, Call(p)
    PROVE  Inv'
<1>1. PICK op \in Ops, v \in Asked \cup {1}, d \in Defs \cup {NoDef} :
        /\ (op = "update") <=> (d # NoDef)
        /\ proc' = [proc EXCEPT ![p] = [Idle EXCEPT !.pc = "get", !.op = op, !.arg = v, !.want = d]]
  BY DEF Call
<1> DEFINE new == [Idle EXCEPT !.pc = "get", !.op = op, !.arg = v, !.want = d]
<1>2. proc \in [Procs -> LocalType] /\ plan.version \in Nat
  BY DEF Inv, TypeOK, LocalType
<1>3. op \in AllOps /\ v \in Nat
  BY OpsAssumption, AskedAssumption
<1>4. new \in LocalType /\ new.pc = "get" /\ new.op = op /\ new.arg = v /\ new.want = d
  BY <1>3 DEF Idle, LocalType, Pcs, AllOps
<1>5. /\ proc' \in [Procs -> LocalType]
      /\ \A q \in Procs \ {p} : proc'[q] = proc[q]
      /\ proc'[p] = new
  BY <1>1, <1>2, <1>4
<1>6. plan' = plan /\ plan.status # "none"
  BY DEF Call
<1>7. HandlerInv(p)'
  <2> HIDE DEF new
  <2> QED BY <1>1, <1>3, <1>4, <1>5, <1>6 DEF HandlerInv, AfterKeep
<1>8. calls' \in 0..MaxCalls
  BY LimitAssumption DEF Call, Inv, TypeOK
<1> HIDE DEF new
<1> QED BY <1>5, <1>7, <1>8, LocalStep DEF Call, history, Inv, TypeOK

\* Every way in which a handler returns without having written anything.
LEMMA ReturnsInv ==
    ASSUME Inv, NEW p \in Procs, Return(p), UNCHANGED <<plan, due, versions, history, bounds>>
    PROVE  Inv'
BY ReturnStep, LocalStep DEF history, bounds, Inv, TypeOK

\* The handler keeps the row it has just read: a first read of an existing plan.
LEMMA KeepsInv ==
    ASSUME Inv, NEW p \in Procs, proc[p].pc = "get", Exists(plan),
           NEW pc \in {"expire", "claim", "cancel", "count"}, Keep(p, pc),
           pc = "count" => proc[p].op \in {"update", "rollback"},
           UNCHANGED <<plan, due, versions, history, bounds>>
    PROVE  Inv'
<1>1. pc \in Pcs
  BY DEF Pcs
<1>2. /\ proc' \in [Procs -> LocalType]
      /\ \A q \in Procs \ {p} : proc'[q] = proc[q]
      /\ proc'[p] = [proc[p] EXCEPT !.pc = pc, !.read = plan.version, !.def = plan.def]
  BY <1>1, KeepStep
<1>3. proc[p] \in LocalType /\ plan.version \in Nat
  BY DEF Inv, TypeOK, LocalType
<1>4. /\ proc'[p].pc = pc /\ proc'[p].read = plan.version /\ proc'[p].def = plan.def
      /\ proc'[p].op = proc[p].op /\ proc'[p].arg = proc[p].arg /\ proc'[p].want = proc[p].want
  BY <1>2, <1>3 DEF LocalType
<1>5. HandlerInv(p) /\ RowInv
  BY DEF Inv
<1>6. HandlerInv(p)'
  BY <1>3, <1>4, <1>5 DEF HandlerInv, RowInv, AfterKeep, Exists, history
<1> QED BY <1>2, <1>6, LocalStep DEF history, bounds, Inv, TypeOK

LEMMA ChecksInv ==
    ASSUME Inv, NEW p \in Procs,
           GetPlanForExecution(p) \/ CheckCancel(p) \/ CheckUpdate(p) \/ CheckRollback(p)
    PROVE  Inv'
<1>1. CASE GetPlanForExecution(p)
  BY <1>1, KeepsInv, ReturnsInv DEF GetPlanForExecution, At
<1>2. CASE CheckCancel(p)
  BY <1>2, KeepsInv, ReturnsInv DEF CheckCancel, At
<1>3. CASE CheckUpdate(p)
  BY <1>3, KeepsInv, ReturnsInv DEF CheckUpdate, At
<1>4. CASE CheckRollback(p)
  BY <1>4, KeepsInv, ReturnsInv DEF CheckRollback, At
<1> QED BY <1>1, <1>2, <1>3, <1>4

\* A handler goes on from its count to its next statement.
LEMMA CountedInv ==
    ASSUME Inv, NEW p \in Procs, proc[p].pc = "count", NEW pc \in {"swap", "fetch"}, Goto(p, pc),
           pc = "swap" => proc[p].op = "update", pc = "fetch" => proc[p].op = "rollback",
           UNCHANGED <<plan, due, versions, claims, past, skipped, ahead, calls>>,
           miscounts' \in Nat, faults' \in 0..MaxFaults
    PROVE  Inv'
<1>1. pc \in Pcs
  BY DEF Pcs
<1>2. /\ proc' \in [Procs -> LocalType]
      /\ \A q \in Procs \ {p} : proc'[q] = proc[q]
      /\ proc'[p] = [proc[p] EXCEPT !.pc = pc]
  BY <1>1, GotoStep
<1>3. proc[p] \in LocalType
  BY DEF Inv, TypeOK, LocalType
<1>4. /\ proc'[p].pc = pc /\ proc'[p].read = proc[p].read /\ proc'[p].def = proc[p].def
      /\ proc'[p].op = proc[p].op /\ proc'[p].arg = proc[p].arg /\ proc'[p].want = proc[p].want
  BY <1>2, <1>3 DEF LocalType
<1>5. HandlerInv(p)'
  BY <1>4 DEF HandlerInv, AfterKeep, Inv
<1> QED BY <1>2, <1>5, LocalStep DEF Inv, TypeOK

LEMMA CountsInv ==
    ASSUME Inv, NEW p \in Procs, CountForUpdate(p) \/ CountForRollback(p) \/ CountFails(p)
    PROVE  Inv'
<1>1. CASE CountForUpdate(p)
  <2>1. CASE Return(p)
    BY <1>1, <2>1, ReturnsInv DEF CountForUpdate
  <2>2. CASE Goto(p, "swap")
    BY <1>1, <2>2, CountedInv DEF CountForUpdate, At, history, bounds, Inv, TypeOK
  <2> QED BY <1>1, <2>1, <2>2 DEF CountForUpdate
<1>2. CASE CountForRollback(p)
  <2>1. CASE Return(p)
    BY <1>2, <2>1, ReturnsInv DEF CountForRollback
  <2>2. CASE Goto(p, "fetch")
    BY <1>2, <2>2, CountedInv DEF CountForRollback, At, history, bounds, Inv, TypeOK
  <2> QED BY <1>2, <2>1, <2>2 DEF CountForRollback
<1>3. CASE CountFails(p)
  <2>1. miscounts' \in Nat /\ faults' \in 0..MaxFaults
    BY <1>3, LimitAssumption DEF CountFails, Inv, TypeOK
  <2>2. proc[p].pc = "count" /\ proc[p].op \in {"update", "rollback"}
    BY <1>3 DEF CountFails, Inv, HandlerInv
  <2>3. CASE Return(p)
    BY <1>3, <2>1, <2>3, ReturnStep, LocalStep DEF CountFails, Inv, TypeOK
  <2>4. CASE proc[p].op = "rollback" /\ Goto(p, "fetch")
    BY <1>3, <2>1, <2>2, <2>4, CountedInv DEF CountFails
  <2>5. CASE proc[p].op = "update" /\ Goto(p, "swap")
    BY <1>3, <2>1, <2>2, <2>5, CountedInv DEF CountFails
  <2> QED BY <1>3, <2>2, <2>3, <2>4, <2>5 DEF CountFails
<1> QED BY <1>1, <1>2, <1>3

LEMMA FetchInv ==
    ASSUME Inv, NEW p \in Procs, FetchTarget(p)
    PROVE  Inv'
<1>1. CASE Return(p)
  BY <1>1, ReturnsInv DEF FetchTarget
<1>2. ASSUME NEW r \in versions, r.version = proc[p].arg,
             proc' = [proc EXCEPT ![p].pc = "presave", ![p].want = r.def]
      PROVE  Inv'
  <2>1. proc \in [Procs -> LocalType] /\ r.def \in Defs
    BY DEF Inv, TypeOK, LocalType
  <2> DEFINE new == [proc[p] EXCEPT !.pc = "presave", !.want = r.def]
  <2>2. proc' = [proc EXCEPT ![p] = new]
    BY <1>2, <2>1 DEF LocalType
  <2>3. /\ new \in LocalType
        /\ new.pc = "presave" /\ new.read = proc[p].read /\ new.def = proc[p].def
        /\ new.op = proc[p].op /\ new.arg = proc[p].arg /\ new.want = r.def
    BY <2>1 DEF LocalType, Pcs
  <2> HIDE DEF new
  <2>4. /\ proc' \in [Procs -> LocalType]
        /\ \A q \in Procs \ {p} : proc'[q] = proc[q]
        /\ proc'[p] = new
    BY <2>1, <2>2, <2>3
  <2>5. HandlerInv(p)'
    BY <2>1, <2>3, <2>4 DEF HandlerInv, AfterKeep, Inv, FetchTarget, At, history
  <2> QED BY <2>4, <2>5, LocalStep DEF FetchTarget, history, bounds, Inv, TypeOK
<1> QED BY <1>1, <1>2 DEF FetchTarget

-----------------------------------------------------------------------------
(* Steps that change the tables.                                           *)

LEMMA TableStep ==
    ASSUME Inv, Grows, TypeOK', RowInv', NEW p \in Procs,
           \A q \in Procs \ {p} : proc'[q] = proc[q], HandlerInv(p)'
    PROVE  Inv'
<1>1. plan'.version \in Nat
  BY DEF TypeOK
<1>2. \A q \in Procs : HandlerInv(q)'
  BY <1>1, OthersKeep
<1> QED BY <1>2 DEF Inv

LEMMA StorePlanInv ==
    ASSUME Inv, StorePlan
    PROVE  Inv'
<1>1. PICK d \in Defs : /\ plan' = [status |-> "pending", version |-> 1, def |-> d]
                        /\ past' = {VersionRow(1, d)}
  BY DEF StorePlan
<1>2. UNCHANGED <<due, versions, proc, claims, skipped, ahead, miscounts, calls, faults>> /\ plan.status = "none"
  BY DEF StorePlan, bounds
<1>3. TypeOK'
  BY <1>1, <1>2 DEF Inv, TypeOK, Statuses, VersionRow
<1>4. past = {} /\ versions = {} /\ claims = 0
  BY <1>2 DEF Inv, RowInv, TypeOK, Unborn
<1>5. RowInv'
  BY <1>1, <1>2, <1>4 DEF RowInv, VersionRow, Unborn
<1>6. \A p \in Procs : proc[p].pc = "idle"
  BY <1>2 DEF Inv, HandlerInv
<1>7. \A p \in Procs : HandlerInv(p)'
  BY <1>2, <1>6 DEF HandlerInv, AfterKeep
<1> QED BY <1>3, <1>5, <1>7 DEF Inv

LEMMA FallsDueInv ==
    ASSUME Inv, FallsDue
    PROVE  Inv'
<1>1. UNCHANGED <<plan, versions, proc, claims, past, skipped, ahead, miscounts, calls, faults>> /\ due' \in BOOLEAN
  BY DEF FallsDue, history, bounds
<1>2. TypeOK' /\ RowInv'
  BY <1>1 DEF Inv, TypeOK, RowInv, Unborn
<1>3. \A p \in Procs : HandlerInv(p)'
  BY <1>1 DEF Inv, HandlerInv, AfterKeep
<1> QED BY <1>2, <1>3 DEF Inv

LEMMA CleanupInv ==
    ASSUME Inv, CleanupExpiredPlans
    PROVE  Inv'
<1>1. /\ plan' = [plan EXCEPT !.status = "deleted"] /\ plan.status \in {"pending", "expired"}
      /\ versions' = {}
      /\ UNCHANGED <<due, proc, claims, past, skipped, ahead, miscounts, calls, faults>>
  BY DEF CleanupExpiredPlans, CleanedUp, history, bounds
<1>2. plan \in [status: Statuses, version: Nat, def: Defs \cup {NoDef}]
  BY DEF Inv, TypeOK
<1>3. /\ plan' \in [status: Statuses, version: Nat, def: Defs \cup {NoDef}]
      /\ plan'.status = "deleted" /\ plan'.version = plan.version /\ plan'.def = plan.def
  BY <1>1, <1>2 DEF Statuses
<1>4. TypeOK'
  BY <1>1, <1>3 DEF Inv, TypeOK
<1>5. RowInv'
  BY <1>1, <1>3 DEF Inv, RowInv, Unborn
<1>6. Grows
  BY <1>1, <1>2, <1>3 DEF Grows, Exists
<1>7. \A p \in Procs : HandlerInv(p)'
  BY <1>1, <1>2, <1>3, <1>6, OthersKeep
<1> QED BY <1>4, <1>5, <1>7 DEF Inv

\* The statuses an UPDATE leaves behind.
Left == {"executing", "completed", "failed", "expired", "cancelled"}

\* The UPDATEs of the status, the last statement of their handlers.
LEMMA StatusInv ==
    ASSUME Inv, NEW p \in Procs, proc[p].pc # "idle",
           NEW status \in Left, UpdatePlanStatus(status), Return(p),
           UNCHANGED <<due, versions, history, bounds>>
    PROVE  Inv'
<1>1. plan \in [status: Statuses, version: Nat, def: Defs \cup {NoDef}] /\ plan.status # "none"
  BY DEF Inv, TypeOK, HandlerInv
<1>2. /\ plan' \in [status: Statuses, version: Nat, def: Defs \cup {NoDef}]
      /\ plan'.version = plan.version /\ plan'.def = plan.def
      /\ plan'.status \in Left \cup {"deleted"}
      /\ Exists(plan') => Exists(plan)
  BY <1>1 DEF UpdatePlanStatus, Exists, Left, Statuses
<1>3. /\ proc' \in [Procs -> LocalType]
      /\ \A q \in Procs \ {p} : proc'[q] = proc[q]
      /\ HandlerInv(p)'
  BY ReturnStep
<1>4. TypeOK'
  BY <1>2, <1>3 DEF Inv, TypeOK, LocalType, history, bounds
<1>5. RowInv'
  BY <1>1, <1>2 DEF Inv, RowInv, Left, history, Unborn
<1>6. Grows
  BY <1>1, <1>2 DEF Grows, Left, history, Exists
<1> QED BY <1>3, <1>4, <1>5, <1>6, TableStep

LEMMA StatusesInv ==
    ASSUME Inv, NEW p \in Procs, MarkExpired(p) \/ FinishPlan(p) \/ CancelPlan(p)
    PROVE  Inv'
<1>1. CASE MarkExpired(p)
  BY <1>1, StatusInv DEF MarkExpired, At, Left
<1>2. CASE FinishPlan(p)
  BY <1>2, StatusInv DEF FinishPlan, At, Left
<1>3. CASE CancelPlan(p)
  BY <1>3, StatusInv DEF CancelPlan, At, Left
<1> QED BY <1>1, <1>2, <1>3

LEMMA ClaimInv ==
    ASSUME Inv, NEW p \in Procs, Claim(p)
    PROVE  Inv'
<1>1. /\ plan.status = "pending" /\ plan' = [plan EXCEPT !.status = "executing"]
      /\ claims' = claims + 1 /\ proc[p].pc = "claim" /\ proc[p].op = "execute"
      /\ UNCHANGED <<due, versions, past, skipped, ahead, miscounts, calls, faults>>
  BY DEF Claim, UpdatePlanStatusAtomic, At, bounds
<1>2. plan \in [status: Statuses, version: Nat, def: Defs \cup {NoDef}]
  BY DEF Inv, TypeOK
<1>3. /\ plan' \in [status: Statuses, version: Nat, def: Defs \cup {NoDef}]
      /\ plan'.version = plan.version /\ plan'.def = plan.def /\ plan'.status = "executing"
  BY <1>1, <1>2 DEF Statuses
<1>4. "run" \in Pcs /\ Goto(p, "run")
  BY DEF Pcs, Claim
<1>5. /\ proc' \in [Procs -> LocalType]
      /\ \A q \in Procs \ {p} : proc'[q] = proc[q]
      /\ proc'[p] = [proc[p] EXCEPT !.pc = "run"]
  BY <1>4, GotoStep
<1>6. proc[p] \in LocalType
  BY DEF Inv, TypeOK, LocalType
<1>7. proc'[p].pc = "run" /\ proc'[p].op = "execute" /\ proc'[p].arg = proc[p].arg
  BY <1>1, <1>5, <1>6 DEF LocalType
<1>8. HandlerInv(p)'
  BY <1>1, <1>3, <1>7 DEF HandlerInv, AfterKeep, Inv
<1>9. TypeOK'
  BY <1>1, <1>3, <1>5 DEF Inv, TypeOK, LocalType
<1>10. RowInv'
  BY <1>1, <1>3 DEF Inv, RowInv, Unborn
<1>11. Grows
  BY <1>1, <1>2, <1>3 DEF Grows, Exists
<1> QED BY <1>5, <1>8, <1>9, <1>10, <1>11, TableStep

\* UPDATE ... SET version = version + 1 WHERE version = expected, to a content of Defs.
LEMMA SwapStep ==
    ASSUME Inv, NEW expected \in Nat, NEW d \in Defs, SwapVersion(expected, d),
           ahead \subseteq ahead', UNCHANGED <<due, versions, claims, skipped, miscounts, calls, faults>>
    PROVE  /\ plan.version = expected /\ plan'.version = plan.version + 1 /\ plan'.status = plan.status
           /\ past' = past \cup {VersionRow(plan.version + 1, d)}
           /\ plan \in [status: Statuses, version: Nat, def: Defs \cup {NoDef}]
           /\ plan' \in [status: Statuses, version: Nat, def: Defs \cup {NoDef}]
           /\ past' \subseteq [version: Nat, def: Defs]
           /\ RowInv' /\ Grows
<1>1. /\ plan.status \notin {"none", "deleted"} /\ plan.version = expected
      /\ plan' = [plan EXCEPT !.version = @ + 1, !.def = d]
      /\ past' = past \cup {VersionRow(plan.version + 1, d)}
  BY DEF SwapVersion, Exists
<1>2. plan \in [status: Statuses, version: Nat, def: Defs \cup {NoDef}]
  BY DEF Inv, TypeOK
<1>3. /\ plan' \in [status: Statuses, version: Nat, def: Defs \cup {NoDef}]
      /\ plan'.version = plan.version + 1 /\ plan'.def = d /\ plan'.status = plan.status
  <2>1. plan' = [status |-> plan.status, version |-> plan.version + 1, def |-> d]
    BY <1>1, <1>2
  <2>2. plan.status \in Statuses /\ plan.version + 1 \in Nat
    BY <1>2
  <2> QED BY <2>1, <2>2
<1>4. past' \subseteq [version: Nat, def: Defs]
  BY <1>1, <1>2 DEF Inv, TypeOK, VersionRow
<1>5. \A r \in past : r.version \in Nat /\ r.version <= plan.version
  BY DEF Inv, TypeOK, RowInv
<1>6. \A r \in past' : r.version <= plan'.version
  BY <1>1, <1>2, <1>3, <1>5 DEF VersionRow
<1>7. \A r, q \in past' : r.version = q.version => r = q
  BY <1>1, <1>2, <1>5 DEF VersionRow, Inv, RowInv
<1>8. RowInv'
  <2>1. VersionRow(plan.version + 1, d) \in past'
    BY <1>1
  <2>2. VersionRow(plan.version, plan.def)' = VersionRow(plan.version + 1, d)
    BY <1>3 DEF VersionRow
  <2>3. /\ \A r \in versions' : r \in past' \/ r.version \in ahead'
        /\ plan'.status # "none" /\ Unborn' /\ (claims' > 0 => plan'.status \notin {"none", "pending"})
    BY <1>1, <1>3 DEF Inv, RowInv, Unborn
  <2> QED BY <1>3, <1>6, <1>7, <2>1, <2>2, <2>3 DEF RowInv
<1>9. Grows
  BY <1>1, <1>2, <1>3 DEF Grows, Exists
<1> QED BY <1>1, <1>2, <1>3, <1>4, <1>8, <1>9

\* The swap of an update: the version it was told is the one it read, unless it was ahead.
LEMMA UpdateSwapInv ==
    ASSUME Inv, NEW p \in Procs, UpdatePlanWithVersion(p)
    PROVE  /\ Inv'
           /\ proc[p].arg = plan.version /\ ahead \subseteq ahead'
           /\ plan'.version = plan.version + 1
           /\ past' = past \cup {VersionRow(plan.version + 1, proc[p].want)}
           /\ At(p, "update", "save")' /\ proc'[p].arg = proc[p].arg
           /\ \A q \in Procs \ {p} : proc'[q] = proc[q]
<1>1. /\ proc[p].op = "update" /\ proc[p].pc = "swap" /\ SwapVersion(proc[p].arg, proc[p].want)
      /\ Goto(p, "save")
      /\ ahead' = ahead \cup ({proc[p].arg} \ {proc[p].read})
      /\ UNCHANGED <<due, versions, claims, skipped, miscounts, calls, faults>>
  BY DEF UpdatePlanWithVersion, At, ExpectedVersion, bounds
<1>2. proc[p] \in LocalType /\ HandlerInv(p)
  BY DEF Inv, TypeOK, LocalType
<1>3. proc[p].want \in Defs /\ proc[p].arg \in Nat
  BY <1>1, <1>2 DEF HandlerInv, LocalType
<1>4. /\ plan.version = proc[p].arg /\ plan'.version = plan.version + 1 /\ plan'.status = plan.status
      /\ past' = past \cup {VersionRow(plan.version + 1, proc[p].want)}
      /\ plan' \in [status: Statuses, version: Nat, def: Defs \cup {NoDef}]
      /\ plan.version \in Nat
      /\ past' \subseteq [version: Nat, def: Defs]
      /\ RowInv' /\ Grows
  BY <1>1, <1>3, SwapStep
<1>5. /\ proc' \in [Procs -> LocalType]
      /\ \A q \in Procs \ {p} : proc'[q] = proc[q]
      /\ proc'[p] = [proc[p] EXCEPT !.pc = "save"]
  BY <1>1, GotoStep DEF Pcs
<1>6. /\ proc'[p].pc = "save" /\ proc'[p].read = proc[p].read /\ proc'[p].def = proc[p].def
      /\ proc'[p].op = proc[p].op /\ proc'[p].arg = proc[p].arg /\ proc'[p].want = proc[p].want
  BY <1>2, <1>5 DEF LocalType
<1>7. ahead' \subseteq Nat /\ (proc[p].arg = proc[p].read \/ proc[p].arg \in ahead')
  BY <1>1, <1>3 DEF Inv, TypeOK
<1>8. HandlerInv(p)'
  <2>1. /\ proc[p].read <= plan.version /\ proc[p].def \in Defs /\ proc[p].read \in Nat
        /\ VersionRow(proc[p].read, proc[p].def) \in past /\ plan.status # "none"
    BY <1>1, <1>2 DEF HandlerInv, AfterKeep, LocalType
  <2>2. proc[p].read <= plan'.version /\ VersionRow(proc[p].read, proc[p].def) \in past'
    BY <1>4, <2>1
  <2> QED BY <1>1, <1>3, <1>4, <1>6, <1>7, <2>1, <2>2 DEF HandlerInv, AfterKeep
<1>9. TypeOK'
  BY <1>1, <1>4, <1>5, <1>7 DEF Inv, TypeOK, LocalType
<1>10. Inv'
  BY <1>4, <1>5, <1>8, <1>9, TableStep
<1> QED BY <1>1, <1>4, <1>5, <1>6, <1>10 DEF At

LEMMA RestoreInv ==
    ASSUME Inv, NEW p \in Procs, RestoreVersion(p)
    PROVE  /\ Inv'
           /\ proc[p].read = plan.version /\ proc[p].pc = "restore"
           /\ plan'.version = plan.version + 1
           /\ past' = past \cup {VersionRow(plan.version + 1, proc[p].want)}
           /\ \A q \in Procs \ {p} : proc'[q] = proc[q]
<1>1. /\ proc[p].op = "rollback" /\ proc[p].pc = "restore"
      /\ SwapVersion(proc[p].read, proc[p].want) /\ Return(p)
      /\ UNCHANGED <<due, versions, claims, skipped, ahead, miscounts, calls, faults>>
  BY DEF RestoreVersion, At, bounds
<1>2. proc[p].want \in Defs /\ proc[p].read \in Nat
  BY <1>1 DEF Inv, HandlerInv, TypeOK
<1>3. /\ plan.version = proc[p].read /\ plan'.version = plan.version + 1
      /\ past' = past \cup {VersionRow(plan.version + 1, proc[p].want)}
      /\ plan' \in [status: Statuses, version: Nat, def: Defs \cup {NoDef}]
      /\ past' \subseteq [version: Nat, def: Defs]
      /\ RowInv' /\ Grows
  BY <1>1, <1>2, SwapStep
<1>4. /\ proc' \in [Procs -> LocalType]
      /\ \A q \in Procs \ {p} : proc'[q] = proc[q]
      /\ HandlerInv(p)'
  BY <1>1, ReturnStep
<1>5. TypeOK'
  BY <1>1, <1>3, <1>4 DEF Inv, TypeOK, LocalType
<1>6. Inv'
  BY <1>3, <1>4, <1>5, TableStep
<1> QED BY <1>1, <1>3, <1>4, <1>6

\* A snapshot is inserted of what is in the past, or of a version whose update was ahead,
\* or one of that version is there already.
LEMMA InsertStep ==
    ASSUME Inv, NEW v \in Nat, NEW d \in Defs, VersionRow(v, d) \in past \/ v \in ahead,
           versions' = VersionInserted(v, d), plan.status # "none",
           UNCHANGED <<plan, claims, past, skipped, ahead>>
    PROVE  /\ versions \subseteq versions' /\ versions' \subseteq [version: Nat, def: Defs]
           /\ Exists(plan) => VersionRow(v, d) \in versions' \/ v \in ahead
           /\ RowInv' /\ Grows
<1>1. /\ versions \subseteq versions' /\ versions' \subseteq versions \cup {VersionRow(v, d)}
      /\ versions \subseteq [version: Nat, def: Defs]
      /\ \A r \in versions : r \in past \/ r.version \in ahead
  BY DEF VersionInserted, Inv, RowInv, TypeOK
<1>2. Exists(plan) => VersionRow(v, d) \in versions' \/ v \in ahead
  <2>1. CASE CanInsertVersion(v)
    BY <2>1 DEF VersionInserted
  <2>2. CASE Exists(plan) /\ ~CanInsertVersion(v) /\ v \notin ahead
    <3>1. PICK r \in versions : r.version = v
      BY <2>2 DEF CanInsertVersion
    <3>2. r \in past /\ VersionRow(v, d) \in past /\ VersionRow(v, d).version = v
      BY <1>1, <2>2, <3>1 DEF VersionRow
    <3>3. r = VersionRow(v, d)
      BY <3>1, <3>2 DEF Inv, RowInv
    <3> QED BY <1>1, <3>3
  <2> QED BY <2>1, <2>2
<1>3. RowInv'
  <2>1. VersionRow(v, d).version = v
    BY DEF VersionRow
  <2>2. \A r \in versions' : r \in past \/ r.version \in ahead
    BY <1>1, <2>1
  <2> QED BY <2>2 DEF Inv, RowInv, Unborn
<1>4. Grows
  BY <1>1 DEF Grows, Inv, TypeOK
<1> QED BY <1>1, <1>2, <1>3, <1>4 DEF VersionRow

LEMMA SaveUpdatedInv ==
    ASSUME Inv, NEW p \in Procs, SaveUpdatedVersion(p)
    PROVE  /\ Inv'
           /\ At(p, "update", "save") /\ versions \subseteq versions'
           /\ \/ proc[p].arg \in ahead
              \/ /\ VersionRow(proc[p].arg, proc[p].def) \in past
                 /\ Exists(plan) => VersionRow(proc[p].arg, proc[p].def) \in versions'
           /\ \A q \in Procs \ {p} : proc'[q] = proc[q]
<1>1. /\ At(p, "update", "save") /\ proc[p].pc = "save"
      /\ versions' = VersionInserted(proc[p].arg, proc[p].def) /\ Return(p)
      /\ UNCHANGED <<plan, due, claims, past, skipped, ahead, miscounts, calls, faults>>
  BY DEF SaveUpdatedVersion, At, SnapshotVersion, history, bounds
<1>2. /\ proc[p].arg \in Nat /\ proc[p].def \in Defs /\ plan.status # "none"
      /\ VersionRow(proc[p].arg, proc[p].def) \in past \/ proc[p].arg \in ahead
  BY <1>1 DEF Inv, HandlerInv, AfterKeep, TypeOK
<1>3. /\ versions \subseteq versions' /\ versions' \subseteq [version: Nat, def: Defs]
      /\ Exists(plan) => VersionRow(proc[p].arg, proc[p].def) \in versions' \/ proc[p].arg \in ahead
      /\ RowInv' /\ Grows
  BY <1>1, <1>2, InsertStep
<1>4. /\ proc' \in [Procs -> LocalType]
      /\ \A q \in Procs \ {p} : proc'[q] = proc[q]
      /\ HandlerInv(p)'
  BY <1>1, ReturnStep
<1>5. TypeOK'
  BY <1>1, <1>3, <1>4 DEF Inv, TypeOK, LocalType
<1>6. Inv'
  BY <1>3, <1>4, <1>5, TableStep
<1> QED BY <1>1, <1>2, <1>3, <1>4, <1>6

\* The snapshot before a rollback, saved or not.
LEMMA PreRollbackInv ==
    ASSUME Inv, NEW p \in Procs, SavePreRollback(p) \/ PreRollbackFails(p)
    PROVE  Inv'
<1>1. /\ proc[p].op = "rollback" /\ proc[p].pc = "presave" /\ Goto(p, "restore")
      /\ UNCHANGED <<plan, due, claims, past, ahead, miscounts, calls>>
  BY DEF SavePreRollback, PreRollbackFails, At, history, bounds
<1>2. proc[p] \in LocalType /\ HandlerInv(p)
  BY DEF Inv, TypeOK, LocalType
<1>3. /\ proc[p].read \in Nat /\ proc[p].def \in Defs /\ plan.status # "none"
      /\ VersionRow(proc[p].read, proc[p].def) \in past
  BY <1>1, <1>2 DEF HandlerInv, AfterKeep, LocalType
<1>4. /\ proc' \in [Procs -> LocalType]
      /\ \A q \in Procs \ {p} : proc'[q] = proc[q]
      /\ proc'[p] = [proc[p] EXCEPT !.pc = "restore"]
  BY <1>1, GotoStep DEF Pcs
<1>5. /\ proc'[p].pc = "restore" /\ proc'[p].read = proc[p].read /\ proc'[p].def = proc[p].def
      /\ proc'[p].op = proc[p].op /\ proc'[p].arg = proc[p].arg /\ proc'[p].want = proc[p].want
  BY <1>2, <1>4 DEF LocalType
<1>6. /\ Exists(plan) => \/ VersionRow(proc[p].read, proc[p].def) \in versions'
                         \/ proc[p].read \in skipped' \cup ahead
      /\ versions' \subseteq [version: Nat, def: Defs] /\ skipped' \subseteq Nat /\ faults' \in 0..MaxFaults
      /\ RowInv' /\ Grows
  <2>1. CASE SavePreRollback(p)
    BY <1>1, <1>3, <2>1, InsertStep DEF SavePreRollback, history, bounds, Inv, TypeOK
  <2>2. CASE PreRollbackFails(p)
    <3>1. /\ faults' = faults + 1 /\ faults < MaxFaults /\ versions' = versions
          /\ skipped' = skipped \cup {proc[p].read}
      BY <2>2 DEF PreRollbackFails
    <3>2. faults' \in 0..MaxFaults /\ skipped' \subseteq Nat
      <4>1. faults \in 0..MaxFaults /\ skipped \subseteq Nat
        BY DEF Inv, TypeOK
      <4>2. faults' \in 0..MaxFaults
        BY <3>1, <4>1, LimitAssumption
      <4> QED BY <1>3, <3>1, <4>1, <4>2
    <3>3. RowInv' /\ versions' \subseteq [version: Nat, def: Defs]
      BY <1>1, <3>1 DEF Inv, TypeOK, RowInv, Unborn
    <3>4. Grows
      BY <1>1, <3>1 DEF Grows, Inv, TypeOK
    <3> QED BY <3>1, <3>2, <3>3, <3>4
  <2> QED BY <2>1, <2>2
<1>7. HandlerInv(p)'
  BY <1>1, <1>2, <1>5, <1>6 DEF HandlerInv, AfterKeep
<1>8. TypeOK'
  BY <1>1, <1>4, <1>6 DEF Inv, TypeOK, LocalType
<1> QED BY <1>4, <1>6, <1>7, <1>8, TableStep

LEMMA StatementFailsInv ==
    ASSUME Inv, NEW p \in Procs, StatementFails(p)
    PROVE  Inv'
<1>1. /\ Return(p) /\ UNCHANGED <<plan, due, versions, claims, past, ahead, miscounts, calls>>
      /\ skipped \subseteq skipped' /\ skipped' \subseteq Nat /\ faults' \in 0..MaxFaults
  <2>1. faults' \in 0..MaxFaults
    BY LimitAssumption DEF StatementFails, Inv, TypeOK
  <2>2. proc[p].arg \in Nat /\ skipped \subseteq Nat
    BY DEF Inv, TypeOK
  <2> QED BY <2>1, <2>2 DEF StatementFails, SnapshotVersion
<1>2. /\ proc' \in [Procs -> LocalType]
      /\ \A q \in Procs \ {p} : proc'[q] = proc[q]
      /\ HandlerInv(p)'
  BY <1>1, ReturnStep
<1>3. TypeOK'
  BY <1>1, <1>2 DEF Inv, TypeOK, LocalType
<1>4. RowInv' /\ Grows
  BY <1>1 DEF Inv, TypeOK, RowInv, Unborn, Grows
<1> QED BY <1>2, <1>3, <1>4, TableStep

LEMMA NextInv == Inv /\ [Next]_vars => Inv'
<1> SUFFICES ASSUME Inv, [Next]_vars PROVE Inv'
  OBVIOUS
<1>1. CASE StorePlan \/ FallsDue \/ CleanupExpiredPlans
  BY <1>1, StorePlanInv, FallsDueInv, CleanupInv
<1>2. ASSUME NEW p \in Procs, Call(p) \/ PlanNotFound(p) PROVE Inv'
  BY <1>2, CallInv, ReturnsInv DEF PlanNotFound
<1>3. ASSUME NEW p \in Procs, Execute(p) PROVE Inv'
  BY <1>3, ChecksInv, StatusesInv, ClaimInv, ReturnsInv DEF Execute, ClaimRefused
<1>4. ASSUME NEW p \in Procs, Cancel(p) PROVE Inv'
  BY <1>4, ChecksInv, StatusesInv DEF Cancel
<1>5. ASSUME NEW p \in Procs, Update(p) PROVE Inv'
  BY <1>5, ChecksInv, CountsInv, UpdateSwapInv, ReturnsInv, SaveUpdatedInv DEF Update, UpdateConflicts
<1>6. ASSUME NEW p \in Procs, Rollback(p) PROVE Inv'
  BY <1>6, ChecksInv, CountsInv, FetchInv, PreRollbackInv, RestoreInv, ReturnsInv
     DEF Rollback, RestoreConflicts
<1>7. ASSUME NEW p \in Procs, Fault(p) PROVE Inv'
  BY <1>7, StatementFailsInv, CountsInv, PreRollbackInv DEF Fault
<1>8. CASE UNCHANGED vars
  <2>1. TypeOK' /\ RowInv'
    BY <1>8 DEF vars, Inv, TypeOK, RowInv, Unborn
  <2>2. \A p \in Procs : HandlerInv(p)'
    BY <1>8 DEF vars, Inv, HandlerInv, AfterKeep
  <2> QED BY <2>1, <2>2 DEF Inv
<1> QED BY <1>1, <1>2, <1>3, <1>4, <1>5, <1>6, <1>7, <1>8 DEF Next

LEMMA Invariance == Spec => []Inv
BY InitInv, NextInv, PTL DEF Spec

\* Every reachable state of the plan, its history and the handlers is well typed.
THEOREM TypeCorrect == Spec => []TypeOK
<1>1. Inv => TypeOK
  BY DEF Inv
<1> QED BY <1>1, Invariance, PTL

\* No interleaving of updates, rollbacks and failing statements files a snapshot under a
\* version it does not belong to, unless an update expected a later version than it read,
\* and then only under the version that update replaced (SavePlanVersion after UpdatePlanWithVersion and before
\* the UPDATE of RollbackPlan).
THEOREM SnapshotsTrue == Spec => []SnapshotsAreTrue
<1>1. Inv => SnapshotsAreTrue
  BY DEF Inv, RowInv, SnapshotsAreTrue
<1> QED BY <1>1, Invariance, PTL

-----------------------------------------------------------------------------
(* The history is complete.                                                *)

\* The version r of the past is in the history, known to be missing, or about to be saved.
Documented(r) ==
    \/ r \in versions
    \/ r.version \in skipped \cup ahead
    \/ \E p \in Procs : At(p, "update", "save") /\ SnapshotVersion(proc[p]) = r.version

LEMMA HistoryIs ==
    HistoryComplete <=> (Exists(plan) => \A r \in past : r.version < plan.version => Documented(r))
BY DEF HistoryComplete, Documented

\* Steps that neither supersede a version nor end the saving of one.
Frame ==
    /\ past' = past /\ plan'.version = plan.version
    /\ skipped \subseteq skipped' /\ ahead \subseteq ahead'
    /\ Exists(plan)' => Exists(plan) /\ versions \subseteq versions'
    /\ \A q \in Procs : At(q, "update", "save") => proc'[q] = proc[q]

LEMMA FrameHistory ==
    ASSUME HistoryComplete, Frame
    PROVE  HistoryComplete'
<1> SUFFICES ASSUME Exists(plan)', NEW r \in past', r.version < plan'.version
             PROVE  Documented(r)'
  BY DEF HistoryComplete, Documented
<1>1. Documented(r) /\ versions \subseteq versions' /\ skipped \subseteq skipped' /\ ahead \subseteq ahead'
  BY HistoryIs DEF Frame
<1>2. ASSUME NEW p \in Procs, At(p, "update", "save"), SnapshotVersion(proc[p]) = r.version
      PROVE  At(p, "update", "save")' /\ SnapshotVersion(proc[p])' = r.version
  BY <1>2 DEF Frame, At, SnapshotVersion
<1> QED BY <1>1, <1>2 DEF Documented

\* A step of p that does not save, and touches no row.
LEMMA OtherFrame ==
    ASSUME Inv, NEW p \in Procs, proc[p].pc # "save" \/ proc[p].op # "update",
           \A q \in Procs \ {p} : proc'[q] = proc[q],
           UNCHANGED <<plan, past, versions, ahead>>, skipped \subseteq skipped'
    PROVE  Frame
BY DEF Frame, At

LEMMA ReturnOthers ==
    ASSUME Inv, NEW p \in Procs, Return(p)
    PROVE  \A q \in Procs \ {p} : proc'[q] = proc[q]
BY ReturnStep

LEMMA GotoOthers ==
    ASSUME Inv, NEW p \in Procs, NEW pc, Goto(p, pc)
    PROVE  \A q \in Procs \ {p} : proc'[q] = proc[q]
BY DEF Inv, TypeOK, Goto

LEMMA KeepOthers ==
    ASSUME Inv, NEW p \in Procs, NEW pc, Keep(p, pc)
    PROVE  \A q \in Procs \ {p} : proc'[q] = proc[q]
BY DEF Inv, TypeOK, Keep

LEMMA ReadsFrame ==
    ASSUME Inv, NEW p \in Procs,
           \/ Call(p) \/ PlanNotFound(p) \/ GetPlanForExecution(p) \/ ClaimRefused(p)
           \/ CheckCancel(p) \/ CheckUpdate(p) \/ CountForUpdate(p) \/ UpdateConflicts(p)
           \/ CheckRollback(p) \/ CountForRollback(p) \/ RestoreConflicts(p) \/ CountFails(p)
    PROVE  Frame
<1>1. UNCHANGED <<plan, past, versions, skipped, ahead>>
  BY DEF Call, PlanNotFound, GetPlanForExecution, ClaimRefused, CheckCancel, CheckUpdate,
         CountForUpdate, UpdateConflicts, CheckRollback, CountForRollback, RestoreConflicts,
         CountFails, history
<1>2. proc[p].pc # "save" \/ proc[p].op # "update"
  BY DEF Call, PlanNotFound, GetPlanForExecution, ClaimRefused, CheckCancel, CheckUpdate,
         CountForUpdate, UpdateConflicts, CheckRollback, CountForRollback, RestoreConflicts,
         CountFails, At
<1>3. \A q \in Procs \ {p} : proc'[q] = proc[q]
  <2>1. CASE Call(p)
    BY <2>1 DEF Call, Inv, TypeOK
  <2>2. CASE ~Call(p)
    BY <2>2, ReturnOthers, GotoOthers, KeepOthers
       DEF PlanNotFound, GetPlanForExecution, ClaimRefused, CheckCancel, CheckUpdate,
           CountForUpdate, UpdateConflicts, CheckRollback, CountForRollback, RestoreConflicts,
           CountFails
  <2> QED BY <2>1, <2>2
<1> QED BY <1>1, <1>2, <1>3, OtherFrame

LEMMA FetchFrame ==
    ASSUME Inv, NEW p \in Procs, FetchTarget(p)
    PROVE  Frame
<1>1. \A q \in Procs \ {p} : proc'[q] = proc[q]
  BY ReturnOthers DEF FetchTarget, Inv, TypeOK
<1> QED BY <1>1, OtherFrame DEF FetchTarget, At, history

LEMMA StatusFrame ==
    ASSUME Inv, NEW p \in Procs, MarkExpired(p) \/ FinishPlan(p) \/ CancelPlan(p) \/ Claim(p)
    PROVE  Frame
<1>1. \A q \in Procs \ {p} : proc'[q] = proc[q]
  BY ReturnOthers, GotoOthers DEF MarkExpired, FinishPlan, CancelPlan, Claim
<1>2. UNCHANGED <<versions, past, skipped, ahead>> /\ proc[p].op # "update"
  BY DEF MarkExpired, FinishPlan, CancelPlan, Claim, At, history
<1>3. plan'.version = plan.version /\ (Exists(plan') => Exists(plan))
  BY DEF MarkExpired, FinishPlan, CancelPlan, Claim, UpdatePlanStatus, UpdatePlanStatusAtomic,
         Exists, Inv, TypeOK
<1> QED BY <1>1, <1>2, <1>3 DEF Frame, At, Exists

LEMMA PreRollbackFrame ==
    ASSUME Inv, NEW p \in Procs, SavePreRollback(p) \/ PreRollbackFails(p)
    PROVE  Frame
<1>1. \A q \in Procs \ {p} : proc'[q] = proc[q]
  BY GotoOthers DEF SavePreRollback, PreRollbackFails
<1>2. /\ plan' = plan /\ past' = past /\ proc[p].op # "update"
      /\ versions \subseteq versions' /\ skipped \subseteq skipped' /\ ahead' = ahead
  BY DEF SavePreRollback, PreRollbackFails, VersionInserted, At, history
<1> QED BY <1>1, <1>2 DEF Frame, At

LEMMA SupersedeHistory ==
    ASSUME Inv, HistoryComplete, NEW p \in Procs, UpdatePlanWithVersion(p) \/ RestoreVersion(p)
    PROVE  HistoryComplete'
<1>1. /\ UNCHANGED <<versions, skipped>> /\ Exists(plan) /\ ahead \subseteq ahead'
      /\ \A q \in Procs \ {p} : proc'[q] = proc[q]
      /\ ~At(p, "update", "save")
  <2>1. UNCHANGED <<versions, skipped>> /\ Exists(plan) /\ ~At(p, "update", "save")
    BY DEF UpdatePlanWithVersion, RestoreVersion, SwapVersion, At
  <2>2. ahead \subseteq ahead'
    BY DEF UpdatePlanWithVersion, RestoreVersion
  <2> QED BY <2>1, <2>2, UpdateSwapInv, RestoreInv
<1>2. PICK d : past' = past \cup {VersionRow(plan.version + 1, d)}
  BY UpdateSwapInv, RestoreInv
<1>3. plan'.version = plan.version + 1 /\ plan.version \in Nat
  BY UpdateSwapInv, RestoreInv DEF Inv, TypeOK
<1> SUFFICES ASSUME NEW r \in past', r.version < plan'.version
             PROVE  Documented(r)'
  BY DEF HistoryComplete, Documented
<1>4. r \in past /\ r.version \in Nat /\ r.version <= plan.version
  <2>1. r # VersionRow(plan.version + 1, d)
    BY <1>3 DEF VersionRow
  <2>2. r \in past
    BY <1>2, <2>1
  <2> QED BY <2>2 DEF Inv, RowInv, TypeOK
<1>5. CASE r.version < plan.version
  <2>1. Documented(r)
    BY <1>1, <1>4, <1>5, HistoryIs
  <2>2. ASSUME NEW q \in Procs, At(q, "update", "save"), SnapshotVersion(proc[q]) = r.version
        PROVE  At(q, "update", "save")' /\ SnapshotVersion(proc[q])' = r.version
    BY <1>1, <2>2 DEF At, SnapshotVersion
  <2> QED BY <1>1, <2>1, <2>2 DEF Documented
<1>6. CASE r.version = plan.version
  <2>1. CASE UpdatePlanWithVersion(p)
    <3>1. At(p, "update", "save")' /\ SnapshotVersion(proc[p])' = r.version
      BY <1>6, <2>1, UpdateSwapInv DEF SnapshotVersion
    <3> QED BY <3>1 DEF Documented
  <2>2. CASE RestoreVersion(p)
    <3>1. proc[p].read = plan.version /\ proc[p].pc = "restore"
      BY <2>2, RestoreInv
    <3>2. HandlerInv(p)
      BY DEF Inv
    <3>3. \/ VersionRow(proc[p].read, proc[p].def) \in versions
          \/ r.version \in skipped \cup ahead
      BY <1>1, <1>6, <3>1, <3>2 DEF HandlerInv
    <3>4. VersionRow(proc[p].read, proc[p].def) \in past
      BY <3>1, <3>2 DEF HandlerInv, AfterKeep
    <3>5. r = VersionRow(proc[p].read, proc[p].def)
      BY <1>4, <1>6, <3>1, <3>4 DEF Inv, RowInv, VersionRow
    <3> QED BY <1>1, <3>3, <3>5 DEF Documented
  <2> QED BY <2>1, <2>2
<1> QED BY <1>3, <1>4, <1>5, <1>6

LEMMA SavedHistory ==
    ASSUME Inv, HistoryComplete, NEW p \in Procs, SaveUpdatedVersion(p)
    PROVE  HistoryComplete'
<1>1. /\ UNCHANGED <<plan, past, skipped, ahead>>
      /\ versions \subseteq versions'
      /\ \/ proc[p].arg \in ahead
         \/ /\ VersionRow(proc[p].arg, proc[p].def) \in past
            /\ Exists(plan) => VersionRow(proc[p].arg, proc[p].def) \in versions'
      /\ \A q \in Procs \ {p} : proc'[q] = proc[q]
  BY SaveUpdatedInv DEF SaveUpdatedVersion, history
<1> SUFFICES ASSUME Exists(plan)', NEW r \in past', r.version < plan'.version
             PROVE  Documented(r)'
  BY DEF HistoryComplete, Documented
<1>2. Documented(r) /\ r \in past /\ Exists(plan)
  BY <1>1, HistoryIs
<1>3. CASE r.version = proc[p].arg /\ proc[p].arg \in ahead
  BY <1>1, <1>3 DEF Documented
<1>5. CASE r.version = proc[p].arg /\ proc[p].arg \notin ahead
  <2>1. r = VersionRow(proc[p].arg, proc[p].def)
    BY <1>1, <1>2, <1>5 DEF Inv, RowInv, VersionRow
  <2> QED BY <1>1, <1>2, <1>5, <2>1 DEF Documented
<1>4. CASE r.version # proc[p].arg
  <2>1. ASSUME NEW q \in Procs, At(q, "update", "save"), SnapshotVersion(proc[q]) = r.version
        PROVE  At(q, "update", "save")' /\ SnapshotVersion(proc[q])' = r.version
    BY <1>1, <1>4, <2>1 DEF At, SnapshotVersion
  <2> QED BY <1>1, <1>2, <2>1 DEF Documented
<1> QED BY <1>3, <1>4, <1>5

LEMMA FailedHistory ==
    ASSUME Inv, HistoryComplete, NEW p \in Procs, StatementFails(p)
    PROVE  HistoryComplete'
<1>1. /\ UNCHANGED <<plan, past, versions, ahead>> /\ skipped \subseteq skipped'
      /\ At(p, "update", "save") => SnapshotVersion(proc[p]) \in skipped'
      /\ \A q \in Procs \ {p} : proc'[q] = proc[q]
  BY ReturnOthers DEF StatementFails, At
<1> SUFFICES ASSUME Exists(plan)', NEW r \in past', r.version < plan'.version
             PROVE  Documented(r)'
  BY DEF HistoryComplete, Documented
<1>2. Documented(r)
  BY <1>1, HistoryIs
<1>3. ASSUME NEW q \in Procs, q # p, At(q, "update", "save"), SnapshotVersion(proc[q]) = r.version
      PROVE  At(q, "update", "save")' /\ SnapshotVersion(proc[q])' = r.version
  BY <1>1, <1>3 DEF At, SnapshotVersion
<1> QED BY <1>1, <1>2, <1>3 DEF Documented

LEMMA NextHistory == Inv /\ HistoryComplete /\ [Next]_vars => HistoryComplete'
<1> SUFFICES ASSUME Inv, HistoryComplete, [Next]_vars PROVE HistoryComplete'
  OBVIOUS
<1>1. CASE StorePlan
  <2>1. PICK d \in Defs : plan'.version = 1 /\ past' = {VersionRow(1, d)}
    BY <1>1 DEF StorePlan
  <2>2. \A r \in past' : ~(r.version < plan'.version)
    BY <2>1 DEF VersionRow
  <2> QED BY <2>2 DEF HistoryComplete
<1>2. CASE FallsDue
  BY <1>2, FrameHistory DEF FallsDue, Frame, history
<1>3. CASE CleanupExpiredPlans
  BY <1>3 DEF CleanupExpiredPlans, HistoryComplete, Exists, Inv, TypeOK
<1>4. ASSUME NEW p \in Procs, Call(p) \/ PlanNotFound(p) \/ Execute(p) \/ Cancel(p)
      PROVE  HistoryComplete'
  BY <1>4, FrameHistory, ReadsFrame, StatusFrame DEF Execute, Cancel
<1>5. ASSUME NEW p \in Procs, Update(p) PROVE HistoryComplete'
  BY <1>5, FrameHistory, ReadsFrame, SupersedeHistory, SavedHistory DEF Update
<1>6. ASSUME NEW p \in Procs, Rollback(p) PROVE HistoryComplete'
  BY <1>6, FrameHistory, ReadsFrame, FetchFrame, PreRollbackFrame, SupersedeHistory DEF Rollback
<1>7. ASSUME NEW p \in Procs, Fault(p) PROVE HistoryComplete'
  BY <1>7, FrameHistory, ReadsFrame, PreRollbackFrame, FailedHistory DEF Fault
<1>8. CASE UNCHANGED vars
  BY <1>8, FrameHistory DEF vars, Frame
<1> QED BY <1>1, <1>2, <1>3, <1>4, <1>5, <1>6, <1>7, <1>8 DEF Next

\* No superseded version is lost without an error having been logged for it, but for the
\* versions replaced by an update that expected a later version than it read.  The
\* snapshot is a statement of its own that other requests and the cleanup can come
\* before (UpdatePlan, RollbackPlan, SavePlanVersion).
THEOREM HistoryKept == Spec => []HistoryComplete
<1>1. Init => HistoryComplete
  BY DEF Init, HistoryComplete, Exists
<1> QED BY <1>1, NextHistory, Invariance, PTL DEF Spec

-----------------------------------------------------------------------------
(* The limit on the length of the history.                                 *)

\* Handlers that have passed the count and may still add a version.
Late   == {"swap", "save", "fetch", "presave"}
Adding == {p \in Procs : proc[p].pc \in Late}

LimitInv ==
    /\ IsFiniteSet(versions)
    /\ MaxVersions > 0 =>
          Cardinality(versions) + Cardinality(Adding) <= MaxVersions + Cardinality(Procs) - 1 + miscounts

LEMMA Sizes ==
    ASSUME Inv, IsFiniteSet(versions)
    PROVE  /\ IsFiniteSet(Adding) /\ Cardinality(Adding) \in Nat /\ Cardinality(Procs) \in Nat
           /\ Cardinality(Adding) <= Cardinality(Procs)
           /\ Cardinality(versions) \in Nat /\ miscounts \in Nat /\ MaxVersions \in Nat
<1>1. IsFiniteSet(Adding) /\ Cardinality(Adding) <= Cardinality(Procs)
  BY RequestsAssumption, FS_Subset DEF Adding
<1> QED BY <1>1, RequestsAssumption, LimitAssumption, FS_CardinalityType DEF Inv, TypeOK

LEMMA OneMore ==
    ASSUME NEW S, NEW x, IsFiniteSet(S)
    PROVE  IsFiniteSet(S \cup {x}) /\ Cardinality(S \cup {x}) <= Cardinality(S) + 1
<1>1. Cardinality(S) \in Nat
  BY FS_CardinalityType
<1> QED BY <1>1, FS_AddElement

\* Nothing is added, nobody passes the count.
LEMMA LimitRests ==
    ASSUME Inv, Inv', LimitInv, versions' \subseteq versions, Adding' \subseteq Adding,
           miscounts' = miscounts
    PROVE  LimitInv'
<1>1. IsFiniteSet(versions') /\ Cardinality(versions') <= Cardinality(versions)
  BY FS_Subset DEF LimitInv
<1>2. Cardinality(Adding') <= Cardinality(Adding) /\ Cardinality(Adding') \in Nat
  BY Sizes, FS_Subset, FS_CardinalityType DEF LimitInv
<1>3. Cardinality(versions') \in Nat
  BY <1>1, FS_CardinalityType
<1> QED BY <1>1, <1>2, <1>3, Sizes DEF LimitInv

\* A count below the limit.
LEMMA LimitCounted ==
    ASSUME Inv, Inv', LimitInv, WithinVersionLimit, UNCHANGED <<versions, miscounts>>
    PROVE  LimitInv'
<1>1. Cardinality(Adding') <= Cardinality(Procs) /\ Cardinality(Adding') \in Nat
  BY RequestsAssumption, FS_Subset, FS_CardinalityType DEF Adding
<1>2. MaxVersions > 0 => Cardinality(versions) < MaxVersions
  BY Sizes DEF WithinVersionLimit, AtVersionLimit, LimitInv
<1> QED BY <1>1, <1>2, Sizes DEF LimitInv

\* A count that failed.
LEMMA LimitMiscounted ==
    ASSUME Inv, Inv', LimitInv, NEW p \in Procs, Adding' \subseteq Adding \cup {p},
           versions' = versions, miscounts' = miscounts + 1
    PROVE  LimitInv'
<1>1. IsFiniteSet(Adding \cup {p}) /\ Cardinality(Adding \cup {p}) <= Cardinality(Adding) + 1
  BY Sizes, OneMore DEF LimitInv
<1>2. Cardinality(Adding') <= Cardinality(Adding) + 1 /\ Cardinality(Adding') \in Nat
  BY <1>1, Sizes, FS_Subset, FS_CardinalityType DEF LimitInv
<1> QED BY <1>2, Sizes DEF LimitInv

\* The INSERT of a handler that had passed the count.
LEMMA LimitInserted ==
    ASSUME Inv, Inv', LimitInv, NEW p \in Adding, Adding' = Adding \ {p}, NEW x,
           versions' \subseteq versions \cup {x}, miscounts' = miscounts
    PROVE  LimitInv'
<1>1. IsFiniteSet(versions \cup {x}) /\ Cardinality(versions \cup {x}) <= Cardinality(versions) + 1
  BY OneMore DEF LimitInv
<1>2. /\ IsFiniteSet(versions') /\ Cardinality(versions') \in Nat
      /\ Cardinality(versions') <= Cardinality(versions \cup {x})
      /\ Cardinality(versions \cup {x}) \in Nat
  BY <1>1, FS_Subset, FS_CardinalityType
<1>3. Cardinality(Adding') = Cardinality(Adding) - 1
  BY Sizes, FS_RemoveElement DEF LimitInv
<1> QED BY <1>1, <1>2, <1>3, Sizes DEF LimitInv

\* Where a handler goes.
LEMMA Goes ==
    ASSUME Inv, NEW p \in Procs, NEW pc \in Pcs,
           Goto(p, pc) \/ Keep(p, pc) \/ (pc = "idle" /\ Return(p))
    PROVE  proc'[p].pc = pc /\ \A q \in Procs \ {p} : proc'[q] = proc[q]
<1>1. proc[p] \in LocalType
  BY DEF Inv, TypeOK, LocalType
<1>2. CASE Goto(p, pc)
  BY <1>1, <1>2, GotoStep DEF LocalType
<1>3. CASE Keep(p, pc)
  <2>1. /\ \A q \in Procs \ {p} : proc'[q] = proc[q]
        /\ proc'[p] = [proc[p] EXCEPT !.pc = pc, !.read = plan.version, !.def = plan.def]
    BY <1>3, KeepStep
  <2>2. proc'[p].pc = pc
    BY <1>1, <2>1 DEF LocalType
  <2> QED BY <2>1, <2>2
<1>4. CASE pc = "idle" /\ Return(p)
  BY <1>4, ReturnStep
<1> QED BY <1>2, <1>3, <1>4

LEMMA AddingMoves ==
    ASSUME NEW p \in Procs, \A q \in Procs \ {p} : proc'[q] = proc[q]
    PROVE  /\ Adding' \subseteq Adding \cup {p}
           /\ proc'[p].pc \notin Late => Adding' = Adding \ {p}
           /\ proc[p].pc \in Late => Adding' \subseteq Adding
BY DEF Adding

\* Steps that read, change the plan or return.
LEMMA ReadsLimit ==
    ASSUME Inv, Inv', LimitInv, NEW p \in Procs,
           \/ PlanNotFound(p) \/ Execute(p) \/ Cancel(p)
           \/ CheckUpdate(p) \/ UpdatePlanWithVersion(p) \/ UpdateConflicts(p)
           \/ CheckRollback(p) \/ RestoreVersion(p) \/ RestoreConflicts(p)
           \/ StatementFails(p) \/ PreRollbackFails(p)
    PROVE  LimitInv'
<1>1. UNCHANGED <<versions, miscounts>>
  BY DEF PlanNotFound, Execute, Cancel, GetPlanForExecution, MarkExpired, Claim, ClaimRefused, FinishPlan,
         CheckCancel, CancelPlan, CheckUpdate, UpdatePlanWithVersion, UpdateConflicts, CheckRollback,
         RestoreVersion, RestoreConflicts, StatementFails, PreRollbackFails, history
<1>2. PICK pc \in Pcs : /\ Goto(p, pc) \/ Keep(p, pc) \/ (pc = "idle" /\ Return(p))
                        /\ pc \in Late => proc[p].pc \in Late
  <2>1. \/ Return(p)
        \/ \E pc \in {"expire", "claim", "cancel", "count"} : Keep(p, pc)
        \/ \E pc \in {"run", "restore"} : Goto(p, pc)
        \/ proc[p].pc = "swap" /\ Goto(p, "save")
    BY DEF PlanNotFound, Execute, Cancel, GetPlanForExecution, MarkExpired, Claim, ClaimRefused, FinishPlan,
           CheckCancel, CancelPlan, CheckUpdate, UpdatePlanWithVersion, UpdateConflicts, CheckRollback,
           RestoreVersion, RestoreConflicts, StatementFails, PreRollbackFails, At
  <2> QED BY <2>1 DEF Pcs, Late
<1>3. proc'[p].pc = pc /\ \A q \in Procs \ {p} : proc'[q] = proc[q]
  BY <1>2, Goes
<1> QED BY <1>1, <1>2, <1>3, AddingMoves, LimitRests

LEMMA CallLimit ==
    ASSUME Inv, Inv', LimitInv, NEW p \in Procs, Call(p)
    PROVE  LimitInv'
<1>1. PICK op \in Ops, v \in Asked \cup {1}, d \in Defs \cup {NoDef} :
        proc' = [proc EXCEPT ![p] = [Idle EXCEPT !.pc = "get", !.op = op, !.arg = v, !.want = d]]
  BY DEF Call
<1>2. proc'[p].pc = "get" /\ \A q \in Procs \ {p} : proc'[q] = proc[q]
  BY <1>1 DEF Idle, Inv, TypeOK
<1>3. UNCHANGED <<versions, miscounts>>
  BY DEF Call, history
<1> QED BY <1>2, <1>3, AddingMoves, LimitRests DEF Late

LEMMA CountsLimit ==
    ASSUME Inv, Inv', LimitInv, NEW p \in Procs, CountForUpdate(p) \/ CountForRollback(p) \/ CountFails(p)
    PROVE  LimitInv'
<1>1. PICK pc \in {"idle", "swap", "fetch"} : Goto(p, pc) \/ (pc = "idle" /\ Return(p))
  BY DEF CountForUpdate, CountForRollback, CountFails
<1>2. proc'[p].pc = pc /\ \A q \in Procs \ {p} : proc'[q] = proc[q]
  BY <1>1, Goes DEF Pcs
<1>3. CASE CountFails(p)
  BY <1>2, <1>3, AddingMoves, LimitMiscounted DEF CountFails
<1>4. CASE CountForUpdate(p) \/ CountForRollback(p)
  <2>1. UNCHANGED <<versions, miscounts>>
    BY <1>4 DEF CountForUpdate, CountForRollback, history
  <2>2. CASE WithinVersionLimit
    BY <2>1, <2>2, LimitCounted
  <2>3. CASE ~WithinVersionLimit
    <3>1. Return(p)
      BY <1>4, <2>3 DEF CountForUpdate, CountForRollback
    <3>2. proc'[p].pc = "idle"
      BY <3>1, Goes DEF Pcs
    <3> QED BY <1>2, <2>1, <3>2, AddingMoves, LimitRests DEF Late
  <2> QED BY <2>2, <2>3
<1> QED BY <1>3, <1>4

LEMMA FetchLimit ==
    ASSUME Inv, Inv', LimitInv, NEW p \in Procs, FetchTarget(p)
    PROVE  LimitInv'
<1>1. UNCHANGED <<versions, miscounts>> /\ proc[p].pc \in Late
  BY DEF FetchTarget, history, At, Late
<1>2. \A q \in Procs \ {p} : proc'[q] = proc[q]
  BY ReturnOthers DEF FetchTarget, Inv, TypeOK
<1> QED BY <1>1, <1>2, AddingMoves, LimitRests

LEMMA SavesLimit ==
    ASSUME Inv, Inv', LimitInv, NEW p \in Procs, SaveUpdatedVersion(p) \/ SavePreRollback(p)
    PROVE  LimitInv'
<1>1. p \in Adding /\ miscounts' = miscounts
  BY DEF SaveUpdatedVersion, SavePreRollback, At, Adding, Late, history
<1>2. PICK x : versions' \subseteq versions \cup {x}
  BY DEF SaveUpdatedVersion, SavePreRollback, VersionInserted
<1>3. proc'[p].pc \in {"idle", "restore"} /\ \A q \in Procs \ {p} : proc'[q] = proc[q]
  BY Goes DEF SaveUpdatedVersion, SavePreRollback, Pcs
<1>4. Adding' = Adding \ {p}
  BY <1>3, AddingMoves DEF Late
<1> QED BY <1>1, <1>2, <1>4, LimitInserted

LEMMA NextLimit == Inv /\ Inv' /\ LimitInv /\ [Next]_vars => LimitInv'
<1> SUFFICES ASSUME Inv, Inv', LimitInv, [Next]_vars PROVE LimitInv'
  OBVIOUS
<1>1. CASE StorePlan \/ FallsDue \/ CleanupExpiredPlans \/ UNCHANGED vars
  <2>1. UNCHANGED <<proc, miscounts>> /\ versions' \subseteq versions
    BY <1>1 DEF StorePlan, FallsDue, CleanupExpiredPlans, vars, history
  <2> QED BY <2>1, LimitRests DEF Adding
<1>2. ASSUME NEW p \in Procs,
             Call(p) \/ PlanNotFound(p) \/ Execute(p) \/ Cancel(p) \/ Update(p) \/ Rollback(p) \/ Fault(p)
      PROVE  LimitInv'
  BY <1>2, CallLimit, ReadsLimit, CountsLimit, FetchLimit, SavesLimit DEF Update, Rollback, Fault
<1> QED BY <1>1, <1>2 DEF Next

\* CountVersions and the INSERT of a snapshot are two statements: the history of a plan
\* exceeds MaxVersionsPerPlan by no more than the other requests in flight and the
\* counts whose error UpdatePlan and RollbackPlan ignored.
THEOREM HistoryBounded == Spec => []OvershootIsBounded
<1>1. Init => LimitInv
  <2> SUFFICES ASSUME Init PROVE LimitInv
    OBVIOUS
  <2>1. versions = {} /\ Adding = {} /\ miscounts = 0
    BY IdleType DEF Init, Adding, Late
  <2>2. Cardinality(Procs) \in Nat
    BY RequestsAssumption, FS_CardinalityType
  <2> QED BY <2>1, <2>2, FS_EmptySet, LimitAssumption DEF LimitInv
<1>2. Inv /\ LimitInv => OvershootIsBounded
  BY Sizes DEF LimitInv, OvershootIsBounded
<1> QED BY <1>1, <1>2, NextLimit, Invariance, PTL DEF Spec

-----------------------------------------------------------------------------
(* The refinement.                                                         *)

Offer == IF claims > 0 THEN "taken"
         ELSE IF plan.status = "none" THEN "absent"
         ELSE IF plan.status = "pending" THEN "open" ELSE "closed"

\* What a statement can do to status and claims.
Moves ==
    \/ plan'.status = plan.status /\ claims' = claims
    \/ plan.status = "none" /\ plan'.status = "pending" /\ claims' = claims
    \/ plan.status = "pending" /\ plan'.status = "executing" /\ claims' = claims + 1
    \/ plan.status # "none" /\ plan'.status \in Left \cup {"deleted"} /\ claims' = claims

LEMMA NextMoves == Inv /\ [Next]_vars => Moves
<1> SUFFICES ASSUME Inv, [Next]_vars PROVE Moves
  OBVIOUS
<1>1. CASE StorePlan
  BY <1>1 DEF StorePlan, Moves
<1>2. CASE FallsDue \/ UNCHANGED vars
  BY <1>2 DEF FallsDue, vars, history, Moves
<1>3. CASE CleanupExpiredPlans
  BY <1>3 DEF CleanupExpiredPlans, CleanedUp, history, Moves, Inv, TypeOK
<1>4. ASSUME NEW p \in Procs, MarkExpired(p) \/ FinishPlan(p) \/ CancelPlan(p) PROVE Moves
  <2>1. PICK status \in Left : UpdatePlanStatus(status)
    BY <1>4 DEF MarkExpired, FinishPlan, CancelPlan, Left
  <2>2. claims' = claims
    BY <1>4 DEF MarkExpired, FinishPlan, CancelPlan, history
  <2> QED BY <2>1, <2>2 DEF UpdatePlanStatus, Exists, Moves, Inv, TypeOK
<1>5. ASSUME NEW p \in Procs, Claim(p) PROVE Moves
  BY <1>5 DEF Claim, UpdatePlanStatusAtomic, Moves, Inv, TypeOK
<1>6. ASSUME NEW p \in Procs, UpdatePlanWithVersion(p) \/ RestoreVersion(p) PROVE Moves
  BY <1>6 DEF UpdatePlanWithVersion, RestoreVersion, SwapVersion, Moves, Inv, TypeOK
<1>7. ASSUME NEW p \in Procs, Call(p) \/ PlanNotFound(p) \/ GetPlanForExecution(p) \/ ClaimRefused(p)
                              \/ CheckCancel(p) \/ CheckUpdate(p) \/ CountForUpdate(p)
                              \/ UpdateConflicts(p) \/ SaveUpdatedVersion(p)
      PROVE Moves
  BY <1>7 DEF Call, PlanNotFound, GetPlanForExecution, ClaimRefused, CheckCancel, CheckUpdate,
              CountForUpdate, UpdateConflicts, SaveUpdatedVersion, history, Moves
<1>8. ASSUME NEW p \in Procs, CheckRollback(p) \/ CountForRollback(p) \/ FetchTarget(p)
                              \/ SavePreRollback(p) \/ RestoreConflicts(p) \/ Fault(p)
      PROVE Moves
  BY <1>8 DEF CheckRollback, CountForRollback, FetchTarget, SavePreRollback, RestoreConflicts,
              Fault, StatementFails, CountFails, PreRollbackFails, history, Moves
<1> QED BY <1>1, <1>2, <1>3, <1>4, <1>5, <1>6, <1>7, <1>8
        DEF Next, Execute, Cancel, Update, Rollback

LEMMA InitOffered == Init => Offered!Init
BY DEF Init, Offered!Init

LEMMA NextOffered == Inv /\ [Next]_vars => [Offered!Next]_<<Offer, claims>>
<1> SUFFICES ASSUME Inv, [Next]_vars PROVE Offered!Next \/ UNCHANGED <<Offer, claims>>
  OBVIOUS
<1>1. claims \in Nat /\ (claims > 0 => plan.status \notin {"none", "pending"})
  BY DEF Inv, TypeOK, RowInv
<1>2. CASE plan'.status = plan.status /\ claims' = claims
  BY <1>2 DEF Offer
<1>3. CASE plan.status = "none" /\ plan'.status = "pending" /\ claims' = claims
  BY <1>1, <1>3 DEF Offered!Next, Offered!Offer
<1>4. CASE plan.status = "pending" /\ plan'.status = "executing" /\ claims' = claims + 1
  BY <1>1, <1>4 DEF Offered!Next, Offered!Take
<1>5. CASE plan.status # "none" /\ plan'.status \in Left \cup {"deleted"} /\ claims' = claims
  BY <1>1, <1>5 DEF Left, Offer, Offered!Next, Offered!Withdraw
<1> QED BY <1>2, <1>3, <1>4, <1>5, NextMoves DEF Moves

\* PlanLifecycle implements OneShot: whatever executes, cancels, updates, expires and
\* deletes the plan at the same time, at most one request is ever handed it, and it is
\* not on offer again afterwards (UpdatePlanStatusAtomic in GetPlanForExecution).
THEOREM ClaimedOnce == Spec => ExecutedAtMostOnce
<1>1. Inv /\ [Next]_vars => [Offered!Next]_(Offered!vars)
  BY NextOffered DEF Offered!vars, Offer
<1> QED BY <1>1, InitOffered, Invariance, PTL DEF Spec, ExecutedAtMostOnce, Offered!Spec
=============================================================================

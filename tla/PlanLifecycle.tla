---------------------------- MODULE PlanLifecycle ----------------------------
(***************************************************************************)
(* Stored plans (platform/orchestrator/planning): one row of `plans', its  *)
(* rows in `plan_versions', the requests that execute, cancel, update and  *)
(* roll back the plan at the same time, and the cleanup worker.            *)
(*                                                                         *)
(* The service opens no transaction: a handler is one action per SQL       *)
(* statement, and acts on the row as it read it first.  Some statements    *)
(* are compare-and-swap (status for a claim, version for an update), the   *)
(* others are unconditional.                                               *)
(***************************************************************************)
EXTENDS Integers, FiniteSets

CONSTANTS
    Procs,        \* requests that can be in flight at the same time
    Defs,         \* contents of a plan: the field an update can change
    NoDef,        \* the content of a request that carries none
    Ops,          \* the operations the callers issue, a subset of AllOps
    Asked,        \* versions the callers expect or target, whether they exist or not
    MaxVersions,  \* MaxVersionsPerPlan; 0 is unlimited
    MaxCalls,     \* bound: requests issued in a behaviour
    MaxFaults     \* bound: statements that fail in a behaviour

AllOps == {"execute", "cancel", "update", "rollback"}

ASSUME ContentAssumption == NoDef \notin Defs
ASSUME OpsAssumption == Ops \subseteq AllOps
ASSUME AskedAssumption == Asked \subseteq Nat \ {0}
ASSUME RequestsAssumption == IsFiniteSet(Procs)
ASSUME LimitAssumption == MaxVersions \in Nat /\ MaxCalls \in Nat /\ MaxFaults \in Nat

VARIABLES
    plan,      \* the plans row: status, version, content; "none"/"deleted": no row
    due,       \* expires_at has passed
    versions,  \* the plan_versions rows: [version, def]
    proc,      \* the handler of each request in flight
    claims,    \* history: requests that were handed the plan for execution
    past,      \* history: every [version, def] the row ever had
    skipped,   \* history: versions whose snapshot INSERT failed or was not reached
    ahead,     \* history: versions replaced by an update that had read an older one
    miscounts, \* history: CountVersions errors the service ignored
    calls,     \* requests issued so far
    faults     \* statements failed so far

history == <<claims, past, skipped, ahead, miscounts>>
bounds  == <<calls, faults>>
vars == <<plan, due, versions, proc, claims, past, skipped, ahead, miscounts, calls, faults>>

-----------------------------------------------------------------------------
(* Rows and local records.                                                 *)

Statuses == {"none", "pending", "executing", "completed", "failed", "expired",
             "cancelled", "deleted"}
Pcs == {"idle", "get", "expire", "claim", "run", "cancel", "count", "swap", "save",
        "fetch", "presave", "restore"}

Exists(row) == row.status \notin {"none", "deleted"}
VersionRow(v, d) == [version |-> v, def |-> d]

\* read: version the handler read;  def: the content it read;  arg: the expected or
\* target version of the request;  want: the content it is going to write.
Idle == [pc |-> "idle", op |-> "execute", read |-> 0, def |-> NoDef, arg |-> 0, want |-> NoDef]

Goto(p, pc) == proc' = [proc EXCEPT ![p].pc = pc]
Return(p)   == proc' = [proc EXCEPT ![p] = Idle]
At(p, op, pc) == proc[p].op = op /\ proc[p].pc = pc

\* Mutant: the content is not loaded with the row.
KeepVersionOnly(p, pc) == proc' = [proc EXCEPT ![p].pc = pc, ![p].read = plan.version]

\* GetPlan: the handler keeps the row as it is now and goes on with it.
Keep(p, pc) == proc' = [proc EXCEPT ![p].pc = pc, ![p].read = plan.version, ![p].def = plan.def]

\* UPDATE plans SET status = $1 WHERE plan_id = $2: whatever the status is now.
UpdatePlanStatus(status) ==
    plan' = IF Exists(plan) THEN [plan EXCEPT !.status = status] ELSE plan

\* Mutant: the WHERE clause forgets the expected status.
UpdatePlanStatusBlind(expected, status) ==
    Exists(plan) /\ plan' = [plan EXCEPT !.status = status]

\* UPDATE plans SET status = $1 WHERE plan_id = $2 AND status = $3, one row affected.
UpdatePlanStatusAtomic(expected, status) ==
    plan.status = expected /\ plan' = [plan EXCEPT !.status = status]

\* UPDATE plans SET ..., version = version + 1 WHERE plan_id = $ AND version = $.
SwapVersion(expected, def) ==
    /\ Exists(plan)
    /\ plan.version = expected
    /\ plan' = [plan EXCEPT !.version = @ + 1, !.def = def]
    /\ past' = past \cup {VersionRow(plan.version + 1, def)}

\* INSERT INTO plan_versions under UNIQUE(plan_id, version), REFERENCES plans.
CanInsertVersion(v) == Exists(plan) /\ \A r \in versions : r.version # v
VersionInserted(v, d) ==
    IF CanInsertVersion(v) THEN versions \cup {VersionRow(v, d)} ELSE versions

\* CountVersions(...) >= MaxVersionsPerPlan.
AtVersionLimit == MaxVersions > 0 /\ Cardinality(versions) >= MaxVersions

-----------------------------------------------------------------------------
(* Requests.                                                               *)

\* GeneratePlan: INSERT of a new plan id, version 1.
StorePlan ==
    /\ plan.status = "none"
    /\ \E d \in Defs : /\ plan' = [status |-> "pending", version |-> 1, def |-> d]
                       /\ past' = {VersionRow(1, d)}
    /\ UNCHANGED <<due, versions, proc, claims, skipped, ahead, miscounts, bounds>>

\* A request arrives.  Of the version a caller expects or targets only that it is at
\* least 1 is checked, before the row is read.
Call(p) ==
    /\ plan.status # "none"
    /\ proc[p].pc = "idle"
    /\ calls < MaxCalls
    /\ calls' = calls + 1
    /\ \E op \in Ops, v \in Asked \cup {1}, d \in Defs \cup {NoDef} :
          /\ op \in {"execute", "cancel"} => v = 1
          /\ (op = "update") <=> (d # NoDef)
          /\ proc' = [proc EXCEPT ![p] = [Idle EXCEPT !.pc = "get", !.op = op,
                                                      !.arg = v, !.want = d]]
    /\ UNCHANGED <<plan, due, versions, history, faults>>

\* No such plan, or the plan of another org: "plan not found".
PlanNotFound(p) ==
    /\ proc[p].pc = "get"
    /\ Return(p)
    /\ UNCHANGED <<plan, due, versions, history, bounds>>

-----------------------------------------------------------------------------
(* ExecutePlan.                                                            *)

\* GetPlanForExecution up to its first write.
GetPlanForExecution(p) ==
    /\ At(p, "execute", "get")
    /\ Exists(plan)
    /\ \/ due /\ Keep(p, "expire")
       \/ ~due /\ plan.status # "pending" /\ Return(p)
       \/ ~due /\ plan.status = "pending" /\ Keep(p, "claim")
    /\ UNCHANGED <<plan, due, versions, history, bounds>>

\* Past its TTL: marked expired, whatever its status; the caller gets ErrPlanExpired.
MarkExpired(p) ==
    /\ At(p, "execute", "expire")
    /\ UpdatePlanStatus("expired")
    /\ Return(p)
    /\ UNCHANGED <<due, versions, history, bounds>>

\* The compare-and-swap from pending to executing hands the plan to this request.
Claim(p) ==
    /\ At(p, "execute", "claim")
    /\ UpdatePlanStatusAtomic("pending", "executing")
    /\ claims' = claims + 1
    /\ Goto(p, "run")
    /\ UNCHANGED <<due, versions, past, skipped, ahead, miscounts, bounds>>

\* No row affected: ErrPlanAlreadyRun.
ClaimRefused(p) ==
    /\ At(p, "execute", "claim")
    /\ plan.status # "pending"
    /\ Return(p)
    /\ UNCHANGED <<plan, due, versions, history, bounds>>

\* The end of the execution: MarkPlanCompleted or MarkPlanFailed, unconditional.
FinishPlan(p) ==
    /\ At(p, "execute", "run")
    /\ \E status \in {"completed", "failed"} : UpdatePlanStatus(status)
    /\ Return(p)
    /\ UNCHANGED <<due, versions, history, bounds>>

-----------------------------------------------------------------------------
(* CancelPlan.                                                             *)

CheckCancel(p) ==
    /\ At(p, "cancel", "get")
    /\ Exists(plan)
    /\ IF plan.status \in {"pending", "executing"} THEN Keep(p, "cancel") ELSE Return(p)
    /\ UNCHANGED <<plan, due, versions, history, bounds>>

CancelPlan(p) ==
    /\ At(p, "cancel", "cancel")
    /\ UpdatePlanStatus("cancelled")
    /\ Return(p)
    /\ UNCHANGED <<due, versions, history, bounds>>

-----------------------------------------------------------------------------
(* UpdatePlan and RollbackPlan.                                            *)

\* Mutant: the limit is never looked at.
WithinVersionLimitAlways == TRUE

WithinVersionLimit == ~AtVersionLimit

\* The checks of UpdatePlan on the row read.  A plan at version 1 may be refused
\* because the org's other plans fill MaxPlansWithVersioning.
CheckUpdate(p) ==
    /\ At(p, "update", "get")
    /\ Exists(plan)
    /\ \/ plan.status # "pending" /\ Return(p)
       \/ plan.status = "pending" /\ plan.version = 1 /\ Return(p)
       \/ plan.status = "pending" /\ Keep(p, "count")
    /\ UNCHANGED <<plan, due, versions, history, bounds>>

\* CountVersions; a request that changes nothing returns the plan as read.
CountForUpdate(p) ==
    /\ At(p, "update", "count")
    /\ IF WithinVersionLimit /\ proc[p].want # proc[p].def THEN Goto(p, "swap") ELSE Return(p)
    /\ UNCHANGED <<plan, due, versions, history, bounds>>

\* Mutant: optimistic locking on the version just read instead of the caller's.
ExpectedVersionRead(q) == q.read

ExpectedVersion(q) == q.arg

\* UpdatePlanWithVersion; the status is not part of its WHERE clause, and the version
\* expected is not compared with the one read: a request that expected a later version
\* than it read succeeds once others have brought the plan there.
UpdatePlanWithVersion(p) ==
    /\ At(p, "update", "swap")
    /\ SwapVersion(ExpectedVersion(proc[p]), proc[p].want)
    /\ ahead' = ahead \cup ({ExpectedVersion(proc[p])} \ {proc[p].read})
    /\ Goto(p, "save")
    /\ UNCHANGED <<due, versions, claims, skipped, miscounts, bounds>>

\* No row affected: ErrVersionConflict.
UpdateConflicts(p) ==
    /\ At(p, "update", "swap")
    /\ ~(Exists(plan) /\ plan.version = ExpectedVersion(proc[p]))
    /\ Return(p)
    /\ UNCHANGED <<plan, due, versions, history, bounds>>

\* Mutant: the snapshot is filed under the version it was replaced by.
SnapshotVersionNew(q) == q.arg + 1

\* "Snapshot of the version before update".
SnapshotVersion(q) == q.arg

\* SavePlanVersion of the row read at the start, after the UPDATE; an error is logged.
SaveUpdatedVersion(p) ==
    /\ At(p, "update", "save")
    /\ versions' = VersionInserted(SnapshotVersion(proc[p]), proc[p].def)
    /\ Return(p)
    /\ UNCHANGED <<plan, due, history, bounds>>

\* The checks of RollbackPlan on the row read.
CheckRollback(p) ==
    /\ At(p, "rollback", "get")
    /\ Exists(plan)
    /\ IF plan.status = "pending" /\ proc[p].arg < plan.version
       THEN Keep(p, "count") ELSE Return(p)
    /\ UNCHANGED <<plan, due, versions, history, bounds>>

CountForRollback(p) ==
    /\ At(p, "rollback", "count")
    /\ IF WithinVersionLimit THEN Goto(p, "fetch") ELSE Return(p)
    /\ UNCHANGED <<plan, due, versions, history, bounds>>

\* GetPlanVersion; ErrVersionNotFound when the snapshot was never saved.
FetchTarget(p) ==
    /\ At(p, "rollback", "fetch")
    /\ \/ \E r \in versions :
             /\ r.version = proc[p].arg
             /\ proc' = [proc EXCEPT ![p].pc = "presave", ![p].want = r.def]
       \/ /\ \A r \in versions : r.version # proc[p].arg
          /\ Return(p)
    /\ UNCHANGED <<plan, due, versions, history, bounds>>

\* SavePlanVersion of the current state, before the UPDATE; an error is logged.
SavePreRollback(p) ==
    /\ At(p, "rollback", "presave")
    /\ versions' = VersionInserted(proc[p].read, proc[p].def)
    /\ Goto(p, "restore")
    /\ UNCHANGED <<plan, due, history, bounds>>

RestoreVersion(p) ==
    /\ At(p, "rollback", "restore")
    /\ SwapVersion(proc[p].read, proc[p].want)
    /\ Return(p)
    /\ UNCHANGED <<due, versions, claims, skipped, ahead, miscounts, bounds>>

RestoreConflicts(p) ==
    /\ At(p, "rollback", "restore")
    /\ ~(Exists(plan) /\ plan.version = proc[p].read)
    /\ Return(p)
    /\ UNCHANGED <<plan, due, versions, history, bounds>>

-----------------------------------------------------------------------------
(* Time, the cleanup worker and failing statements.                        *)

FallsDue ==
    /\ Exists(plan)
    /\ ~due
    /\ due' = TRUE
    /\ UNCHANGED <<plan, versions, proc, history, bounds>>

\* AND status IN ('pending', 'expired').
CleanedUp == {"pending", "expired"}

\* DELETE FROM plans; the version rows go with the plan (ON DELETE CASCADE).
CleanupExpiredPlans ==
    /\ due
    /\ plan.status \in CleanedUp
    /\ plan' = [plan EXCEPT !.status = "deleted"]
    /\ versions' = {}
    /\ UNCHANGED <<due, proc, history, bounds>>

\* A statement fails, or the process stops before it: the handler is over.  When the
\* UPDATE of an update had succeeded, its snapshot is never saved.
StatementFails(p) ==
    /\ proc[p].pc # "idle"
    /\ faults < MaxFaults
    /\ faults' = faults + 1
    /\ skipped' = IF proc[p].pc = "save" THEN skipped \cup {SnapshotVersion(proc[p])} ELSE skipped
    /\ Return(p)
    /\ UNCHANGED <<plan, due, versions, claims, past, ahead, miscounts, calls>>

\* CountVersions failed: a warning, and the limit is not enforced.
CountFails(p) ==
    /\ proc[p].pc = "count"
    /\ faults < MaxFaults
    /\ faults' = faults + 1
    /\ miscounts' = miscounts + 1
    /\ IF proc[p].op = "rollback" THEN Goto(p, "fetch")
       ELSE IF proc[p].want # proc[p].def THEN Goto(p, "swap") ELSE Return(p)
    /\ UNCHANGED <<plan, due, versions, claims, past, skipped, ahead, calls>>

\* The pre-rollback snapshot could not be saved: a warning, the rollback goes on.
PreRollbackFails(p) ==
    /\ At(p, "rollback", "presave")
    /\ faults < MaxFaults
    /\ faults' = faults + 1
    /\ skipped' = skipped \cup {proc[p].read}
    /\ Goto(p, "restore")
    /\ UNCHANGED <<plan, due, versions, claims, past, ahead, miscounts, calls>>

-----------------------------------------------------------------------------
Init ==
    /\ plan = [status |-> "none", version |-> 0, def |-> NoDef]
    /\ due = FALSE
    /\ versions = {}
    /\ proc = [p \in Procs |-> Idle]
    /\ claims = 0
    /\ past = {}
    /\ skipped = {}
    /\ ahead = {}
    /\ miscounts = 0
    /\ calls = 0
    /\ faults = 0

Execute(p)  == GetPlanForExecution(p) \/ MarkExpired(p) \/ Claim(p) \/ ClaimRefused(p) \/ FinishPlan(p)
Cancel(p)   == CheckCancel(p) \/ CancelPlan(p)
Update(p)   == \/ CheckUpdate(p) \/ CountForUpdate(p) \/ UpdatePlanWithVersion(p)
               \/ UpdateConflicts(p) \/ SaveUpdatedVersion(p)
Rollback(p) == \/ CheckRollback(p) \/ CountForRollback(p) \/ FetchTarget(p)
               \/ SavePreRollback(p) \/ RestoreVersion(p) \/ RestoreConflicts(p)
Fault(p)    == StatementFails(p) \/ CountFails(p) \/ PreRollbackFails(p)

Next == \/ StorePlan
        \/ FallsDue
        \/ CleanupExpiredPlans
        \/ \E p \in Procs : \/ Call(p) \/ PlanNotFound(p) \/ Execute(p) \/ Cancel(p)
                            \/ Update(p) \/ Rollback(p) \/ Fault(p)

Spec == Init /\ [][Next]_vars

-----------------------------------------------------------------------------
(* Properties.                                                             *)

TypeOK ==
    /\ plan \in [status: Statuses, version: Nat, def: Defs \cup {NoDef}]
    /\ due \in BOOLEAN
    /\ versions \subseteq [version: Nat, def: Defs]
    /\ proc \in [Procs -> [pc: Pcs, op: AllOps, read: Nat, def: Defs \cup {NoDef},
                           arg: Nat, want: Defs \cup {NoDef}]]
    /\ claims \in Nat
    /\ past \subseteq [version: Nat, def: Defs]
    /\ skipped \subseteq Nat
    /\ ahead \subseteq Nat
    /\ miscounts \in Nat
    /\ calls \in 0..MaxCalls
    /\ faults \in 0..MaxFaults

\* The abstract plan this module implements: open while pending, taken by a claim.
Offered == INSTANCE OneShot WITH
    takers <- claims,
    offer  <- IF claims > 0 THEN "taken"
              ELSE IF plan.status = "none" THEN "absent"
              ELSE IF plan.status = "pending" THEN "open" ELSE "closed"

\* Whatever executions, cancellations, expiries, updates and the cleanup interleave, a
\* plan is executed by at most one request and is never executable again
\* (GetPlanForExecution relies on UpdatePlanStatusAtomic).
ExecutedAtMostOnce == Offered!Spec

\* Every row of the version history is what the plan really contained at that version,
\* although it is written by a statement of its own, from an earlier read, before
\* (RollbackPlan) or after (UpdatePlan) the UPDATE it documents.  Excluded are the versions
\* replaced by an update that had expected them before they existed: UpdatePlan saves the
\* row it read and never compares its version with the one the request expects.
SnapshotsAreTrue == \A r \in versions : r \in past \/ r.version \in ahead

\* No superseded version is missing from the history of an existing plan, unless the
\* statement that saves it failed or is still to come, or the update that replaced it
\* had read an older version, which it then filed in its place.
HistoryComplete ==
    Exists(plan) =>
        \A r \in past :
            r.version < plan.version =>
                \/ r \in versions
                \/ r.version \in skipped \cup ahead
                \/ \E p \in Procs : At(p, "update", "save") /\ SnapshotVersion(proc[p]) = r.version

\* The count of versions is checked in another statement than the insert, so the limit
\* can be exceeded, but only by the other requests in flight and by ignored errors.
OvershootIsBounded ==
    MaxVersions > 0 =>
        Cardinality(versions) <= MaxVersions + Cardinality(Procs) - 1 + miscounts
=============================================================================

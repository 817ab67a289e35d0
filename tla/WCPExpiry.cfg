\* The HITL queue at its limit and its sweep, which may fail or die, against reviewers and re-evaluations.
SPECIFICATION FairSpec
CONSTANTS
    Procs = {p1, p2}
    Steps = {s1}
    NoStep = NoStep
    Keys = {}
    NoKey = NoKey
    Ops = {"gate", "approve", "reject", "complete"}
    Modes = {"reevaluate"}
    EvalTier = TRUE
    MaxPending = 1
    MaxCalls = 3
    MaxFaults = 1
INVARIANTS QueueOvershootIsBounded
PROPERTIES SweepKeepsSettled RefusalStopsWorkflow

\* One request at a time, no failing statement: long sequences of legal calls.
SPECIFICATION Spec
CONSTANTS
    Procs = {p1}
    Steps = {s1, s2}
    NoStep = NoStep
    Keys = {k1}
    NoKey = NoKey
    Ops = {"gate", "approve", "reject", "complete", "abort", "fail", "mark", "resumeLast", "resumeAt"}
    Modes = {"idempotent", "reevaluate"}
    EvalTier = FALSE
    MaxPending = 0
    MaxCalls = 5
    MaxFaults = 0
SYMMETRY Symmetry
INVARIANTS CompletedHasNoPending ApprovalFollowsDecision CheckpointFollowsStep

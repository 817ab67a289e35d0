\* Two requests of any kind at the same time, one failing statement, no HITL queue.
SPECIFICATION Spec
CONSTANTS
    Procs = {p1, p2}
    Steps = {s1, s2}
    NoStep = NoStep
    Keys = {k1}
    NoKey = NoKey
    Ops = {"gate", "approve", "reject", "complete", "abort", "fail", "mark", "resumeLast", "resumeAt"}
    Modes = {"idempotent", "reevaluate"}
    EvalTier = FALSE
    MaxPending = 2
    MaxCalls = 3
    MaxFaults = 1
SYMMETRY Symmetry
INVARIANTS TypeOK AllowIsBacked ResumesWereGated
PROPERTIES CursorNeverRetreats KeyIsImmutable

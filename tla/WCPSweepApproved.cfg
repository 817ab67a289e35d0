\* One gate, one approval, and the queue row falls due later.
SPECIFICATION Spec
CONSTANTS
    Procs = {p1}
    Steps = {s1}
    NoStep = NoStep
    Keys = {}
    NoKey = NoKey
    Ops = {"gate", "approve"}
    Modes = {"idempotent"}
    EvalTier = TRUE
    MaxPending = 2
    MaxCalls = 2
    MaxFaults = 0
PROPERTY ApprovedIsNotAborted

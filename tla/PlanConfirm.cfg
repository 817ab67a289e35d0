SPECIFICATION Spec
CONSTANTS
    AutoPlans = {}
    StepPlans = {}
    ConfirmPlans = {c1}
    NumSteps = 3
    Procs = {p1}
    MaxActive = 2
    MaxCalls = 4
    MaxFaults = 0
INVARIANTS
    ConfirmedBeforeRun
CHECK_DEADLOCK FALSE

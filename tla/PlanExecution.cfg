SPECIFICATION Spec
CONSTANTS
    AutoPlans = {a1}
    StepPlans = {s1}
    ConfirmPlans = {c1}
    NumSteps = 2
    Procs = {p1, p2}
    MaxActive = 2
    MaxCalls = 4
    MaxFaults = 1
INVARIANTS
    TypeOK
    EndedPlansFreeTheirSlot
    LimitOvershoot
    StepModeInOrder
PROPERTIES
    ClaimedPlanEnds
CHECK_DEADLOCK FALSE

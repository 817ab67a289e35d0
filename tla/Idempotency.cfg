SPECIFICATION Spec
CONSTANTS
    Keys = {k1, k2}
    Procs = {p1, p2, p3}
    MaxCalls = 5
    MaxFaults = 1
INVARIANTS
    TypeOK
    ReplaysAreOriginal
    SequentialRetriesRunOnce
PROPERTIES
    KeepsFirstAnswer
CHECK_DEADLOCK FALSE

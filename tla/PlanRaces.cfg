\* Requests of every kind, three at a time, at the version limit, with one failing statement.
SPECIFICATION Spec
CONSTANTS
    Procs = {p1, p2, p3}
    Defs = {d1, d2}
    NoDef = NoDef
    Ops = {"execute", "cancel", "update", "rollback"}
    Asked = {1, 2, 3}
    MaxVersions = 2
    MaxCalls = 5
    MaxFaults = 1
SYMMETRY Symmetry
CHECK_DEADLOCK FALSE
INVARIANTS TypeOK SnapshotsAreTrue HistoryComplete OvershootIsBounded
PROPERTIES ExecutedAtMostOnce

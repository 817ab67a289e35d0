\* Overflow, outages, lost acknowledgements, disk errors, crashes and a shutdown under load.
SPECIFICATION Spec
CONSTANTS
    Callers = {c1, c2}
    Workers = {w1}
    Entries = {e1, e2, e3, m1}
    NoEntry = NoEntry
    Metrics = {m1}
    Critical = {e2}
    Unscoped = {e1}
    Unique = {}
    Compliance = TRUE
    QueueSize = 1
    MetricsSize = 1
    BatchSize = 2
    ExecAttempts = 2
    WorkerRounds = 1
    MaxOutages = 1
    MaxLostAcks = 1
    MaxDiskFaults = 1
    MaxCrashes = 1
    MaxRestarts = 1
SYMMETRY Symmetry
INVARIANTS TypeOK AcceptedIsAccounted

\* Crashes at every point of the recovery, then another start; an outage that may last.
SPECIFICATION FairSpec
CONSTANTS
    Callers = {c1}
    Workers = {w1}
    Entries = {e1, e2, e3}
    NoEntry = NoEntry
    Metrics = {}
    Critical = {}
    Unscoped = {e3}
    Unique = {e1}
    Compliance = FALSE
    QueueSize = 1
    MetricsSize = 1
    BatchSize = 2
    ExecAttempts = 2
    WorkerRounds = 1
    MaxOutages = 1
    MaxLostAcks = 1
    MaxDiskFaults = 0
    MaxCrashes = 2
    MaxRestarts = 2
INVARIANTS StoredOnce
PROPERTIES FallbackNeverForgets QueueDrains ShutdownEnds

SPECIFICATION Spec
CONSTANTS
    Agents = {a1, a2}
    Chains = {c1}
    MaxDecisions = 3
    Configs <- MCConfigs
    NoKey = "none"
    QueueSize = 1
    Workers = 1
    MaxStarts = 2
    MaxCrashes = 1
    MaxFaults = 1
INVARIANTS
    TypeOK
    ChainsVerify
    QueueIsFlushed
PROPERTIES
    ChainsAreLedgers
    DecisionsSettle
CHECK_DEADLOCK FALSE

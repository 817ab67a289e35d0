SPECIFICATION Spec
CONSTANTS
    Writers = {w1, w2}
    Steps = {s1, s2}
    NoStep = NoStep
    Streams = {c1, c2}
    MaxConnections = 1
    ChannelSize = 1
    MaxOps = 2
    MaxFaults = 1
INVARIANTS
    TypeOK
    ConnectionsAreExact
    StepsFollowWorkflow
PROPERTIES
    StreamsEnd
CHECK_DEADLOCK FALSE

SPECIFICATION FairSpec
CONSTANTS
    Partitions <- OnePartition
    Events <- MCEvents
    Log <- ShortLog
    Replicas = {r1, r2}
    NoReplica = NoReplica
    BatchSize = 2
    MaxRetries = 0
    DlqCapacity = 2
    FaultKinds = {"crash", "evict", "write", "commit", "stall", "delivery", "sigterm"}
    MaxFaults = 1
INVARIANT NoLoss
PROPERTY EventuallyAccounted
CHECK_DEADLOCK FALSE

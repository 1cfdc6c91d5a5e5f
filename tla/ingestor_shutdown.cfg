SPECIFICATION Spec
CONSTANTS
    Partitions <- TwoPartitions
    Events <- MCEvents
    Log <- RejectedLog
    Replicas = {r1}
    NoReplica = NoReplica
    BatchSize = 2
    MaxRetries = 1
    DlqCapacity = 1
    FaultKinds = {"crash", "evict", "write", "commit", "stall", "delivery", "sigterm"}
    MaxFaults = 3
INVARIANTS OrderlyShutdownKeepsQuarantine ReadyMeansConsuming
PROPERTY ImplementsReliableLanding
CHECK_DEADLOCK FALSE

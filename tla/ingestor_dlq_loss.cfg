SPECIFICATION Spec
CONSTANTS
    Partitions <- OnePartition
    Events <- MCEvents
    Log <- ShortLog
    Replicas = {r1}
    NoReplica = NoReplica
    BatchSize = 2
    MaxRetries = 0
    DlqCapacity = 2
    FaultKinds = {"crash"}
    MaxFaults = 1
INVARIANT QuarantineDurable
CHECK_DEADLOCK FALSE

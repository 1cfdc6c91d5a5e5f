SPECIFICATION FairSpec
CONSTANTS
    MaxRow = 2
    QueueSize = 2
    StallTimeout = 1
    ErrorWindow = 1
    DownloadTicks = 1
    RestTicks = 1
    FaultKinds = {"delivery", "fatal", "dataset", "wedge", "sigterm", "crash"}
    MaxFaults = 1
INVARIANTS
    RowsAccounted
    LabelsFollowFeatures
    StallMeansWedged
    OrderlyStopDelivers
PROPERTIES
    BrokenIsReplaced
    LabelsArrive
    ReadinessReturns

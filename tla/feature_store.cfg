SPECIFICATION PlaneSpec
CONSTANTS
    Entities <- MCEntities
    FeatureTime <- MCFeatureTime
    LabelTime <- MCLabelTime
    Earlier <- MCEarlier
    Start = 7
    Instants <- MCInstants
    Runs = {r1}
    Backfills = {b1}
    ChunkRows = 1
    Retries = 1
    FaultKinds = {"fail", "timeout", "lose"}
    MaxFaults = 1
    Trainings = {t1}
    MaxRows = 2
    Unset = Unset
INVARIANTS
    PrefixServed
    PlansAreChunked
    PinNamesFrame
PROPERTY ImplementsServedFeatures
CHECK_DEADLOCK FALSE

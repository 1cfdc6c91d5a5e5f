SPECIFICATION PlaneSpec
CONSTANTS
    Entities <- MCEntities
    FeatureTime <- MCFeatureTime
    LabelTime <- MCLabelTime
    Earlier <- MCEarlier
    Start = 7
    Instants <- MCInstants
    Runs = {}
    Backfills = {b1, b2}
    ChunkRows = 1
    Retries = 1
    FaultKinds = {"lose"}
    MaxFaults = 1
    Trainings = {}
    MaxRows = 2
    Unset = Unset
INVARIANT BackfillRebuilds
CHECK_DEADLOCK FALSE

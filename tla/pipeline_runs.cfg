SPECIFICATION Spec
CONSTANTS
    Entities = {"e1", "e2"}
    Published <- PairAndFeature
    Invalid <- OneInvalid
    EventTime <- MCEventTime
    Runs = {r1, r2}
    NoRun = NoRun
    Retries = 1
    MaxInvalidPercent = 50
    MaxFailures = 1
SYMMETRY RunSymmetry
INVARIANTS NothingSkipped JoinComplete SuccessIsServed LineageComplete GoldAgrees
PROPERTIES WatermarksAdvance ImplementsCuratedOnce
CHECK_DEADLOCK FALSE

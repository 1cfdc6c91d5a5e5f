SPECIFICATION Spec
CONSTANTS
    Entities = {"e1", "e2"}
    Published <- PairAndFeature
    Invalid <- OneInvalid
    EventTime <- MCEventTime
    Runs = {r1, r2}
    NoRun = NoRun
    Retries = 1
    MaxInvalidPercent = 50
    MaxFailures = 0
INVARIANT CuratedUpToWatermark
CHECK_DEADLOCK FALSE

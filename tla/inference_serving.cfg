SPECIFICATION FairSpec
CONSTANTS
    q1 = q1
    q2 = q2
    Versions <- MCVersions
    Requests <- MCRequests
    ByEntity <- MCByEntity
    AutoRefresh = TRUE
    MaxPromotions = 2
    FaultKinds = {"fetch", "load", "hang", "save", "publish", "flush", "sigterm", "crash"}
    MaxFaults = 1
INVARIANTS
    AnswersAgree
    PersistedMeansStored
    MetadataTrue
    AnswersFresh
    OrderlyExitPublishes
PROPERTIES
    ChampionGetsServed
    RequestsEnd
CHECK_DEADLOCK FALSE

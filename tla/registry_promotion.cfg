SPECIFICATION Spec
CONSTANTS
    t1 = t1
    t2 = t2
    p1 = p1
    p2 = p2
    Trainers <- MCTrainers
    Pipelines <- MCPipelines
    Promoters <- MCPromoters
    Scores <- MCScores
    MinAccuracy = 2
    MinAuc = 2
    MaxRegression = 1
    FaultKinds = {"train", "retry", "read", "promote", "answer"}
    MaxFaults = 1
SYMMETRY MCSymmetry
INVARIANTS
    CandidatesQualify
    ProvenanceTrue
    GateHolds
    FlipsAccounted
    LedgerIsHistory
    FormerChampionsMarked
CHECK_DEADLOCK FALSE

SPECIFICATION Spec
CONSTANTS
    t1 = t1
    t2 = t2
    p1 = p1
    p2 = p2
    Trainers <- MCTrainers
    Pipelines <- MCPipelines
    Promoters <- MCPromoters
    Scores <- MCScores
    MinAccuracy = 2
    MinAuc = 2
    MaxRegression = 1
    FaultKinds = {"read"}
    MaxFaults = 1
SYMMETRY MCSymmetry
INVARIANT RegressionRefused
CHECK_DEADLOCK FALSE

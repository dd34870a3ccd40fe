SPECIFICATION FairSpec
CONSTANTS
    Nothing = Nothing
    MaxBatch = 2
    ID = {1, 2}
    Target <- MCTargets
    BatchOperation = {"read", "handled"}
    MaxKeys = 1
    MaxFailures = 2
PROPERTIES
    ListConverges
    UncertaintyEnds
CHECK_DEADLOCK FALSE

SPECIFICATION Spec
CONSTANTS
    Nothing = Nothing
    MaxBatch = 1
    ID = {1, 2}
    Target <- MCTarget
    BatchOperation = {"read"}
    MaxKeys = 2
    MaxFailures = 1
INVARIANTS
    TypeOK
    RecoveryIsShown
    FailedStaySelected
    OneBatch
CHECK_DEADLOCK FALSE

SPECIFICATION FairSpec
CONSTANTS
    Nothing = Nothing
    MaxBatch = 2
    ID = {1, 2}
    Target = {}
    BatchOperation = {"read"}
    MaxKeys = 1
    MaxFailures = 0
PROPERTIES
    OnlyFailedStaySelected
CHECK_DEADLOCK FALSE

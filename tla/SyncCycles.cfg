SPECIFICATION FairSpec
CONSTANTS
  t1 = t1
  t2 = t2
  t3 = t3
  c1 = c1
  c2 = c2
  Thread = {t1,t2,t3}
  Cycle = {c1}
  Wanted = {t1,t2,t3}
  Touched = {t1}
  PageSize = 1
  AlertLimit = 1
  MaxTime = 4
  MaxFaults = 1
INVARIANTS TypeOK NotModifiedMeansFresh NoAlertLost RepeatsNeedAFault ThrottleBound
PROPERTIES EventuallyConsistent

SPECIFICATION Spec
CONSTANTS
  t1 = t1
  t2 = t2
  t3 = t3
  c1 = c1
  c2 = c2
  Thread = {t1,t2}
  Cycle = {c1,c2}
  Wanted = {t1,t2}
  Touched = {}
  PageSize = 2
  AlertLimit = 5
  MaxTime = 3
  MaxFaults = 0
INVARIANTS NotModifiedMeansFresh

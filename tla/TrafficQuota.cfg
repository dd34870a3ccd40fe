SPECIFICATION Spec
CONSTANTS
  b1 = b1
  u1 = u1
  u2 = u2
  s1 = s1
  e1 = e1
  UI = UI
  Task = {b1}
  Batch = {b1}
  BatchSize = 3
  BatchLimit = 2
  MinWorkers = 1
  MaxWorkers = 2
  Quota = {0, 2}
  LowQuota = 1
  MaxReports = 1
  Priority <- MCPriority
  Capacity <- MCCapacityOne
INVARIANTS TypeOK PermitAccounting ShortOnlyIfCancelled

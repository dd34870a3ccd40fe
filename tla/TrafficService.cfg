SPECIFICATION FairSpec
CONSTANTS
  b1 = b1
  u1 = u1
  u2 = u2
  s1 = s1
  e1 = e1
  UI = UI
  Task = {b1, e1}
  Batch = {b1}
  BatchSize = 1
  BatchLimit = 1
  MinWorkers = 1
  MaxWorkers = 1
  Quota = {2}
  LowQuota = 1
  MaxReports = 1
  Priority <- MCPriority
  Capacity <- MCCapacityOne
PROPERTIES ImplementsTaskService ShutdownReturns

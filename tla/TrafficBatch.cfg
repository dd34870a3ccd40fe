SPECIFICATION Spec
CONSTANTS
  b1 = b1
  u1 = u1
  u2 = u2
  s1 = s1
  e1 = e1
  UI = UI
  Task = {b1, u1, s1}
  Batch = {b1}
  BatchSize = 2
  BatchLimit = 2
  MinWorkers = 1
  MaxWorkers = 2
  Quota = {0, 2}
  LowQuota = 1
  MaxReports = 0
  Priority <- MCPriority
  Capacity <- MCCapacityOne
INVARIANTS AnsweredOnce UserOrder NothingStranded StoppedIsQuiet OneOutcomePerID
PROPERTIES NoBackgroundDuringUserWork

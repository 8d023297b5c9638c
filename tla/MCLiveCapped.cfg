CONSTANTS
  m1 = m1
  m2 = m2
  Monitors = {m1, m2}
  Reads = {r1}
  MonitorWidth = 1
  PoolWidth = 1
  MaxEvents = 2
  MaxValues = 4
  PVs = {p, q}
  MaxBatch = 2
  MaxNames = 3
  NumFiles = 3
  Values = {"v", "w"}
  ContextCap = 2
SPECIFICATION LiveSpec
INVARIANT CappedIsAmongOrigins
CHECK_DEADLOCK FALSE

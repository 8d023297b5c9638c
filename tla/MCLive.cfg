CONSTANTS
  m1 = m1
  m2 = m2
  Monitors = {m1, m2}
  Reads = {r1}
  MonitorWidth = 1
  PoolWidth = 1
  MaxEvents = 2
  MaxValues = 4
  PVs = {p, q}
  MaxBatch = 2
  MaxNames = 3
  NumFiles = 3
  Values = {"v"}
  ContextCap = 1
SPECIFICATION LiveSpec
INVARIANTS TypeOK MonitorHonest ConnectionExplained PlacesAnswered StatusEarned ViewsBounded
PROPERTIES EveryLiveReadEnds
CHECK_DEADLOCK FALSE

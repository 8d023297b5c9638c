CONSTANTS
  t1 = t1
  t2 = t2
  t3 = t3
  NoThread = NoThread
  Threads = {t1, t2, t3}
  Limit = 2
  Window = 2
  MaxClock = 5
SPECIFICATION FairSpec
INVARIANTS TypeOK WindowBound RefusalJustified
PROPERTIES NeverBlocksInLock PoolRefined
CHECK_DEADLOCK TRUE

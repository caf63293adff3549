CONSTANTS
  t1 = t1
  t2 = t2
  sessions = sessions
  send = send
  octree = octree
  Threads = {t1, t2}
  Locks <- ThreeLocks
  Order <- Orders
  ON_READ = 1
  ON_WRITE = 4
  AssertsOn = TRUE
  MaxCalls = 3
SPECIFICATION FairSpec
INVARIANTS MutualExclusion FlagTellsHolders NoCircularWait
PROPERTIES EveryCallServed

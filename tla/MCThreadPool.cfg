CONSTANTS
  N = 3
  Requests = {r1, r2}
  Empty = Empty
SPECIFICATION PoolFairSpec
INVARIANTS NoLostWakeup
PROPERTIES IsTaskRunner StopEnds
CHECK_DEADLOCK FALSE

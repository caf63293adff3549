CONSTANTS
  s1 = s1
  s2 = s2
  main = main
  io1 = io1
  io2 = io2
  Main = main
  IoThreads = {io1, io2}
  NoThread = NoThread
  Sessions = {s1, s2}
  m_sessionVec <- TwoSessions
  MayFail = {"RECV", "SEND", "DISCONNECT"}
  MaxClients = 1
  MaxSends = 1
  MaxFailures = 1
SPECIFICATION FairSpec
INVARIANTS PoolAtRest RefBalance SingleReceiver
PROPERTIES PoolLockReleased
CHECK_DEADLOCK FALSE

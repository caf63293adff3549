CONSTANTS
  s1 = s1
  s2 = s2
  main = main
  io1 = io1
  io2 = io2
  Main = main
  IoThreads = {io1, io2}
  NoThread = NoThread
  Sessions = {s1}
  m_sessionVec <- OneSession
  MayFail = {}
  MaxClients = 1
  MaxSends = 1
  MaxFailures = 1
SPECIFICATION FairSpec
PROPERTIES SessionReused
CHECK_DEADLOCK FALSE

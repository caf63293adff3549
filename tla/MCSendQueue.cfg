CONSTANTS
  main = main
  io1 = io1
  io2 = io2
  spawn = spawn
  enemies = enemies
  move = move
  chat = chat
  NoThread = NoThread
  Threads <- ThreeThreads
  Messages <- FourMessages
  SendingInit = {TRUE, FALSE}
SPECIFICATION FairSpec
INVARIANTS OneSender NothingLostOrReordered
PROPERTIES IsChannel SendingEnds
CHECK_DEADLOCK FALSE

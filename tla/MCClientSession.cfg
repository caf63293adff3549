CONSTANTS
  Parts = 2
  MaxPackets = 3
  MaxArrived = 3
SPECIFICATION FairSpec
INVARIANTS PinnedSessionLives SocketOutlivesWorkers PacketsWhole
PROPERTIES ShutdownEnds PacketLeaves
CHECK_DEADLOCK FALSE

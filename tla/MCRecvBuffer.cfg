CONSTANTS
  HEADER = 2
  NoByte = NoByte
  Builds = {TRUE, FALSE}
  BUF_SIZE = 5
  Sizes = {2, 3, 5, 6}
  MaxPackets = 3
SPECIFICATION FairSpec
INVARIANTS StreamIntact ProcessedInOrder AssertsHold
PROPERTIES StreamDrained
CHECK_DEADLOCK FALSE

CONSTANTS
  Threads = {main, io}
  Main = main
  Blocks = {b1, b2}
  NoBlock = NoBlock
  None = None
  Zero = "0.0"
  Float <- MCFloat
  Ids <- MCIds
  Texts <- MCTexts
  Moves <- MCMoves
  Crowds <- MCCrowds
  Hordes <- MCHordes
  Objects <- MCObjects
SPECIFICATION Spec
INVARIANTS BlocksSound PacketFits PacketWhole
CHECK_DEADLOCK FALSE

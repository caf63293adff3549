CONSTANTS
  N = 2
  MaxChats = 1
SPECIFICATION FairSpec
INVARIANTS EveryPlayerSeen MoverKnownUntilDespawn
PROPERTIES JoinCompletes
CHECK_DEADLOCK FALSE

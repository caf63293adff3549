CONSTANTS
  Wizards = {w1, w2}
  Me = w1
  Enemies = {e1}
  Others = {o1}
  None = None
  PlayerHp = 20
  MaxTimers = 2
SPECIFICATION ActorFairSpec
INVARIANTS OneHitPerSwing
PROPERTIES HitEnds DeadLeaves LostIsForgotten
CHECK_DEADLOCK FALSE

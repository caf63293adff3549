CONSTANTS
  N = 2
  Enemies = {e1}
  MaxAttacks = 3
  NoEnemy = NoEnemy
SPECIFICATION EnemyFairSpec
INVARIANTS HitsReach HpWithin
PROPERTIES EnemyDiesEverywhere
CHECK_DEADLOCK FALSE

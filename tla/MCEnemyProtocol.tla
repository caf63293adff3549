--------------------------- MODULE MCEnemyProtocol ---------------------------
(* Instances of EnemyProtocol for TLC. *)
EXTENDS EnemyProtocol
=============================================================================

------------------------------ MODULE MCWorld ------------------------------
(***************************************************************************)
(* One enemy and one player in a tree of three levels.  Their boxes fit an *)
(* octant of the second level at either point, and one of the first on the *)
(* way between them.                                                       *)
(***************************************************************************)
EXTENDS World

Cell(f, r) == [a \in Axes |-> CASE a = "forward" -> f [] a = "right" -> r [] a = "up" -> -4]

MCBoxes == EnemyInfos \cup Players
MCExtents == [b \in MCBoxes |-> [a \in Axes |-> 3]]
MCPoints == {Cell(-4, -4), Cell(-4, -10)}
=============================================================================

------------------------------ MODULE MCPackets ------------------------------
(* Instances of PacketCodec for TLC. *)
EXTENDS PacketCodec

MCFloat == {"0.0", "1.5", "-90.0"}

Point(x, y, z) == [x |-> x, y |-> y, z |-> z]

\* A player as the server keeps it, and one whose coordinates, rotation,
\* velocity and direction RemovePlayerById has released.
Whole ==
  [id |-> 50000, hp |-> 100, battack |-> TRUE, coord |-> Point("1.5", "-90.0", "0.0"),
   rot |-> Point("0.0", "1.5", "0.0"), vel |-> Point("-90.0", "1.5", "0.0"),
   dir |-> Point("0.0", "0.0", "1.5"), movestate |-> 2]
Leaving == [id |-> 1, hp |-> 100, battack |-> FALSE, movestate |-> 1]

\* An enemy at full health, and one that was hit after its death.
Skeleton ==
  [id |-> 0, hp |-> 100, coord |-> Point("1.5", "-90.0", "0.0"),
   rot |-> Point("0.0", "1.5", "0.0"), dir |-> Point("0.0", "0.0", "1.5"),
   movestate |-> 1, bnewdest |-> FALSE]
Hit == [Skeleton EXCEPT !.id = 2, !.hp = -50, !.bnewdest = TRUE]

MCIds == {1, 50000}
MCTexts == {1, 200}
MCMoves == {Whole}
MCCrowds == {<<>>, <<Leaving, Whole, Whole>>}
MCHordes == {<<Skeleton, Hit, Skeleton>>}
MCObjects == {100, 24800}
=============================================================================

------------------------------ MODULE Messages ------------------------------
(***************************************************************************)
(* The messages of test.proto as protoc generated them, for both sides     *)
(* from the same test.pb.cc and test.pb.h.  Of a class C there is C, its   *)
(* values (the class); CDefault, a value after the constructor or Clear;   *)
(* CView, what the getters give; CIsInitialized, all required fields are   *)
(* set; CSerialize, what _InternalSerialize writes in its order;           *)
(* CByteSizeLong, the size the sender allocates; CParse, what the parse    *)
(* table of C makes of the tokens it is given.  S_EnemyDespawn is left     *)
(* out: nobody builds or parses one.                                       *)
(***************************************************************************)
EXTENDS Wire, Functions

CONSTANTS
  Float,  \* the floats told apart
  Zero    \* 0.0

ASSUME FloatAssumption == Zero \in Float

IDLE == 1
MoveState == IDLE .. 4

-----------------------------------------------------------------------------
(* The parts of players and enemies. *)

Coordiante(m) == HasFields(m, [x |-> Float, y |-> Float, z |-> Float])

CoordianteDefault == [x |-> Zero, y |-> Zero, z |-> Zero]

CoordianteView(m) == View(m, CoordianteDefault)

CoordianteIsInitialized(m) == DOMAIN m = DOMAIN CoordianteDefault

CoordianteSerialize(m) ==
  WriteFloat(m, "x", 1) \o WriteFloat(m, "y", 2) \o WriteFloat(m, "z", 3)

CoordianteByteSizeLong(m) ==
  FixedSize(m, "x", 5) + FixedSize(m, "y", 5) + FixedSize(m, "z", 5)

CoordianteParse(b) ==
  ParseFields(b, LAMBDA t :
    FloatAt(t, 1, "x") ++ FloatAt(t, 2, "y") ++ FloatAt(t, 3, "z"))

Rotation(m) == HasFields(m, [x |-> Float, y |-> Float, z |-> Float])

RotationDefault == [x |-> Zero, y |-> Zero, z |-> Zero]

RotationView(m) == View(m, RotationDefault)

RotationIsInitialized(m) == DOMAIN m = DOMAIN RotationDefault

RotationSerialize(m) ==
  WriteFloat(m, "x", 1) \o WriteFloat(m, "y", 2) \o WriteFloat(m, "z", 3)

RotationByteSizeLong(m) ==
  FixedSize(m, "x", 5) + FixedSize(m, "y", 5) + FixedSize(m, "z", 5)

RotationParse(b) ==
  ParseFields(b, LAMBDA t :
    FloatAt(t, 1, "x") ++ FloatAt(t, 2, "y") ++ FloatAt(t, 3, "z"))

Velocity(m) == HasFields(m, [x |-> Float, y |-> Float, z |-> Float])

VelocityDefault == [x |-> Zero, y |-> Zero, z |-> Zero]

VelocityView(m) == View(m, VelocityDefault)

VelocityIsInitialized(m) == DOMAIN m = DOMAIN VelocityDefault

VelocitySerialize(m) ==
  WriteFloat(m, "x", 1) \o WriteFloat(m, "y", 2) \o WriteFloat(m, "z", 3)

VelocityByteSizeLong(m) ==
  FixedSize(m, "x", 5) + FixedSize(m, "y", 5) + FixedSize(m, "z", 5)

VelocityParse(b) ==
  ParseFields(b, LAMBDA t :
    FloatAt(t, 1, "x") ++ FloatAt(t, 2, "y") ++ FloatAt(t, 3, "z"))

-----------------------------------------------------------------------------
(* Player and Enemy. *)

PlayerDefault ==
  [id |-> 0, hp |-> 0, battack |-> FALSE, coord |-> CoordianteDefault,
   rot |-> RotationDefault, vel |-> VelocityDefault,
   dir |-> CoordianteDefault, movestate |-> IDLE]

Player(m) ==
  /\ IsMessage(m)
  /\ DOMAIN m \subseteq DOMAIN PlayerDefault
  /\ HasFields(Restrict(m, {"id", "hp", "battack", "movestate"} \cap DOMAIN m),
               [id |-> Int32, hp |-> Int32, battack |-> BOOLEAN, movestate |-> MoveState])
  /\ \A f \in {"coord", "dir"} \cap DOMAIN m : Coordiante(m[f])
  /\ "rot" \in DOMAIN m => Rotation(m.rot)
  /\ "vel" \in DOMAIN m => Velocity(m.vel)

PlayerView(m) ==
  [View(m, PlayerDefault) EXCEPT
     !.coord = CoordianteView(@), !.rot = RotationView(@),
     !.vel = VelocityView(@), !.dir = CoordianteView(@)]

PlayerIsInitialized(m) ==
  /\ DOMAIN m = DOMAIN PlayerDefault
  /\ CoordianteIsInitialized(m.coord)
  /\ RotationIsInitialized(m.rot)
  /\ VelocityIsInitialized(m.vel)
  /\ CoordianteIsInitialized(m.dir)

PlayerSerialize(m) ==
  WriteInt32(m, "id", 1) \o WriteInt32(m, "hp", 2)
  \o WriteBool(m, "battack", 3)
  \o WriteMessage(m, "coord", 4, CoordianteSerialize, CoordianteByteSizeLong)
  \o WriteMessage(m, "rot", 5, RotationSerialize, RotationByteSizeLong)
  \o WriteMessage(m, "vel", 6, VelocitySerialize, VelocityByteSizeLong)
  \o WriteMessage(m, "dir", 7, CoordianteSerialize, CoordianteByteSizeLong)
  \o WriteEnum(m, "movestate", 8)

PlayerByteSizeLong(m) ==
  MessageSize(m, "coord", CoordianteByteSizeLong)
  + MessageSize(m, "rot", RotationByteSizeLong)
  + MessageSize(m, "vel", VelocityByteSizeLong)
  + MessageSize(m, "dir", CoordianteByteSizeLong) + Int32SizePlusOne(m, "id")
  + Int32SizePlusOne(m, "hp") + FixedSize(m, "battack", 2)
  + Int32SizePlusOne(m, "movestate")

PlayerParse(b) ==
  ParseFields(b, LAMBDA t :
    Int32At(t, 1, "id") ++ Int32At(t, 2, "hp") ++ BoolAt(t, 3, "battack")
    ++ MessageAt(t, 4, "coord", CoordianteParse)
    ++ MessageAt(t, 5, "rot", RotationParse)
    ++ MessageAt(t, 6, "vel", VelocityParse)
    ++ MessageAt(t, 7, "dir", CoordianteParse)
    ++ EnumAt(t, 8, "movestate", MoveState))

PlayerMergeImpl(to, from) ==
  [f \in {"coord", "rot", "vel", "dir"} \cap DOMAIN to \cap DOMAIN from |-> from[f] ++ to[f]]
  ++ from ++ to

\* Clear, then MergeFrom.
PlayerCopyFrom(to, from) == PlayerMergeImpl(Unset, from)

EnemyDefault ==
  [id |-> 0, hp |-> 0, coord |-> CoordianteDefault, rot |-> RotationDefault,
   dir |-> CoordianteDefault, movestate |-> IDLE, bnewdest |-> FALSE]

Enemy(m) ==
  /\ IsMessage(m)
  /\ DOMAIN m \subseteq DOMAIN EnemyDefault
  /\ HasFields(Restrict(m, {"id", "hp", "movestate", "bnewdest"} \cap DOMAIN m),
               [id |-> Int32, hp |-> Int32, movestate |-> MoveState, bnewdest |-> BOOLEAN])
  /\ \A f \in {"coord", "dir"} \cap DOMAIN m : Coordiante(m[f])
  /\ "rot" \in DOMAIN m => Rotation(m.rot)

EnemyView(m) ==
  [View(m, EnemyDefault) EXCEPT
     !.coord = CoordianteView(@), !.rot = RotationView(@),
     !.dir = CoordianteView(@)]

EnemyIsInitialized(m) ==
  /\ DOMAIN m = DOMAIN EnemyDefault
  /\ CoordianteIsInitialized(m.coord)
  /\ RotationIsInitialized(m.rot)
  /\ CoordianteIsInitialized(m.dir)

EnemySerialize(m) ==
  WriteInt32(m, "id", 1) \o WriteInt32(m, "hp", 2)
  \o WriteMessage(m, "coord", 3, CoordianteSerialize, CoordianteByteSizeLong)
  \o WriteMessage(m, "rot", 4, RotationSerialize, RotationByteSizeLong)
  \o WriteMessage(m, "dir", 5, CoordianteSerialize, CoordianteByteSizeLong)
  \o WriteEnum(m, "movestate", 6) \o WriteBool(m, "bnewdest", 7)

EnemyByteSizeLong(m) ==
  MessageSize(m, "coord", CoordianteByteSizeLong)
  + MessageSize(m, "rot", RotationByteSizeLong)
  + MessageSize(m, "dir", CoordianteByteSizeLong) + Int32SizePlusOne(m, "id")
  + Int32SizePlusOne(m, "hp") + Int32SizePlusOne(m, "movestate")
  + FixedSize(m, "bnewdest", 2)

\* A mutant: two entries of the table change places.
EnemyParse_Swapped(b) ==
  ParseFields(b, LAMBDA t :
    Int32At(t, 1, "id") ++ Int32At(t, 2, "hp")
    ++ MessageAt(t, 5, "coord", CoordianteParse)
    ++ MessageAt(t, 4, "rot", RotationParse)
    ++ MessageAt(t, 3, "dir", CoordianteParse)
    ++ EnumAt(t, 6, "movestate", MoveState) ++ BoolAt(t, 7, "bnewdest"))

EnemyParse(b) ==
  ParseFields(b, LAMBDA t :
    Int32At(t, 1, "id") ++ Int32At(t, 2, "hp")
    ++ MessageAt(t, 3, "coord", CoordianteParse)
    ++ MessageAt(t, 4, "rot", RotationParse)
    ++ MessageAt(t, 5, "dir", CoordianteParse)
    ++ EnumAt(t, 6, "movestate", MoveState) ++ BoolAt(t, 7, "bnewdest"))

EnemyMergeImpl(to, from) ==
  [f \in {"coord", "rot", "dir"} \cap DOMAIN to \cap DOMAIN from |-> from[f] ++ to[f]]
  ++ from ++ to

\* Clear, then MergeFrom.
EnemyCopyFrom(to, from) == EnemyMergeImpl(Unset, from)

-----------------------------------------------------------------------------
(* The packets. *)

C_Login(m) == HasFields(m, [id |-> Int32])

C_LoginDefault == [id |-> 0]

C_LoginView(m) == View(m, C_LoginDefault)

C_LoginIsInitialized(m) == DOMAIN m = DOMAIN C_LoginDefault

C_LoginSerialize(m) == WriteInt32(m, "id", 1)

C_LoginByteSizeLong(m) == Int32SizePlusOne(m, "id")

C_LoginParse(b) == ParseFields(b, LAMBDA t : Int32At(t, 1, "id"))

S_Login(m) == HasFields(m, [bsucceded |-> BOOLEAN])

S_LoginDefault == [bsucceded |-> FALSE]

S_LoginView(m) == View(m, S_LoginDefault)

S_LoginIsInitialized(m) == DOMAIN m = DOMAIN S_LoginDefault

S_LoginSerialize(m) == WriteBool(m, "bsucceded", 1)

S_LoginByteSizeLong(m) == FixedSize(m, "bsucceded", 2)

S_LoginParse(b) == ParseFields(b, LAMBDA t : BoolAt(t, 1, "bsucceded"))

C_Spawn(m) == HasFields(m, [id |-> Int32])

C_SpawnDefault == [id |-> 0]

C_SpawnView(m) == View(m, C_SpawnDefault)

C_SpawnIsInitialized(m) == DOMAIN m = DOMAIN C_SpawnDefault

C_SpawnSerialize(m) == WriteInt32(m, "id", 1)

C_SpawnByteSizeLong(m) == Int32SizePlusOne(m, "id")

C_SpawnParse(b) == ParseFields(b, LAMBDA t : Int32At(t, 1, "id"))

S_Spawn(m) == DOMAIN m = {"player"} /\ \A i \in DOMAIN m.player : Player(m.player[i])

S_SpawnView(m) == [player |-> Each(m.player, PlayerView)]

S_SpawnIsInitialized(m) == \A i \in DOMAIN m.player : PlayerIsInitialized(m.player[i])

S_SpawnSerialize(m) == WriteRepeated(m.player, 1, PlayerSerialize, PlayerByteSizeLong)

S_SpawnByteSizeLong(m) == RepeatedSize(m.player, PlayerByteSizeLong)

S_SpawnParse(b) == [player |-> ParseRepeated(b, 1, PlayerParse)]

C_Despawn(m) == HasFields(m, [id |-> Int32])

C_DespawnDefault == [id |-> 0]

C_DespawnView(m) == View(m, C_DespawnDefault)

C_DespawnIsInitialized(m) == DOMAIN m = DOMAIN C_DespawnDefault

C_DespawnSerialize(m) == WriteInt32(m, "id", 1)

C_DespawnByteSizeLong(m) == Int32SizePlusOne(m, "id")

C_DespawnParse(b) == ParseFields(b, LAMBDA t : Int32At(t, 1, "id"))

S_Despawn(m) == HasFields(m, [id |-> Int32])

S_DespawnDefault == [id |-> 0]

S_DespawnView(m) == View(m, S_DespawnDefault)

S_DespawnIsInitialized(m) == DOMAIN m = DOMAIN S_DespawnDefault

S_DespawnSerialize(m) == WriteInt32(m, "id", 1)

S_DespawnByteSizeLong(m) == Int32SizePlusOne(m, "id")

S_DespawnParse(b) == ParseFields(b, LAMBDA t : Int32At(t, 1, "id"))

C_MoveDefault == [player |-> PlayerDefault]

C_Move(m) ==
  /\ IsMessage(m)
  /\ DOMAIN m \subseteq DOMAIN C_MoveDefault
  /\ "player" \in DOMAIN m => Player(m.player)

C_MoveView(m) == [View(m, C_MoveDefault) EXCEPT !.player = PlayerView(@)]

C_MoveIsInitialized(m) ==
  /\ DOMAIN m = DOMAIN C_MoveDefault
  /\ PlayerIsInitialized(m.player)

C_MoveSerialize(m) ==
  WriteMessage(m, "player", 1, PlayerSerialize, PlayerByteSizeLong)

C_MoveByteSizeLong(m) == MessageSize(m, "player", PlayerByteSizeLong)

C_MoveParse(b) ==
  ParseFields(b, LAMBDA t : MessageAt(t, 1, "player", PlayerParse))

S_Move(m) == DOMAIN m = {"player"} /\ \A i \in DOMAIN m.player : Player(m.player[i])

S_MoveView(m) == [player |-> Each(m.player, PlayerView)]

S_MoveIsInitialized(m) == \A i \in DOMAIN m.player : PlayerIsInitialized(m.player[i])

S_MoveSerialize(m) == WriteRepeated(m.player, 1, PlayerSerialize, PlayerByteSizeLong)

S_MoveByteSizeLong(m) == RepeatedSize(m.player, PlayerByteSizeLong)

S_MoveParse(b) == [player |-> ParseRepeated(b, 1, PlayerParse)]

C_Chat(m) == HasFields(m, [msg |-> Nat])

C_ChatDefault == [msg |-> 0]

C_ChatView(m) == View(m, C_ChatDefault)

C_ChatIsInitialized(m) == DOMAIN m = DOMAIN C_ChatDefault

C_ChatSerialize(m) == WriteString(m, "msg", 1)

C_ChatByteSizeLong(m) == StringSize(m, "msg")

C_ChatParse(b) == ParseFields(b, LAMBDA t : StringAt(t, 1, "msg"))

S_Chat(m) == HasFields(m, [msg |-> Nat])

S_ChatDefault == [msg |-> 0]

S_ChatView(m) == View(m, S_ChatDefault)

S_ChatIsInitialized(m) == DOMAIN m = DOMAIN S_ChatDefault

S_ChatSerialize(m) == WriteString(m, "msg", 1)

S_ChatByteSizeLong(m) == StringSize(m, "msg")

S_ChatParse(b) == ParseFields(b, LAMBDA t : StringAt(t, 1, "msg"))

S_EnemySpawn(m) == DOMAIN m = {"enemy"} /\ \A i \in DOMAIN m.enemy : Enemy(m.enemy[i])

S_EnemySpawnView(m) == [enemy |-> Each(m.enemy, EnemyView)]

S_EnemySpawnIsInitialized(m) == \A i \in DOMAIN m.enemy : EnemyIsInitialized(m.enemy[i])

S_EnemySpawnSerialize(m) == WriteRepeated(m.enemy, 1, EnemySerialize, EnemyByteSizeLong)

S_EnemySpawnByteSizeLong(m) == RepeatedSize(m.enemy, EnemyByteSizeLong)

S_EnemySpawnParse(b) == [enemy |-> ParseRepeated(b, 1, EnemyParse)]

C_Attack(m) == HasFields(m, [attacker |-> Int32, target |-> Int32])

C_AttackDefault == [attacker |-> 0, target |-> 0]

C_AttackView(m) == View(m, C_AttackDefault)

C_AttackIsInitialized(m) == DOMAIN m = DOMAIN C_AttackDefault

C_AttackSerialize(m) ==
  WriteInt32(m, "attacker", 1) \o WriteInt32(m, "target", 2)

C_AttackByteSizeLong(m) ==
  Int32SizePlusOne(m, "attacker") + Int32SizePlusOne(m, "target")

C_AttackParse(b) ==
  ParseFields(b, LAMBDA t :
    Int32At(t, 1, "attacker") ++ Int32At(t, 2, "target"))

S_Attack(m) == HasFields(m, [target |-> Int32])

S_AttackDefault == [target |-> 0]

S_AttackView(m) == View(m, S_AttackDefault)

S_AttackIsInitialized(m) == DOMAIN m = DOMAIN S_AttackDefault

S_AttackSerialize(m) == WriteInt32(m, "target", 1)

S_AttackByteSizeLong(m) == Int32SizePlusOne(m, "target")

S_AttackParse(b) == ParseFields(b, LAMBDA t : Int32At(t, 1, "target"))

S_EnemyMove(m) == DOMAIN m = {"enemy"} /\ \A i \in DOMAIN m.enemy : Enemy(m.enemy[i])

S_EnemyMoveView(m) == [enemy |-> Each(m.enemy, EnemyView)]

S_EnemyMoveIsInitialized(m) == \A i \in DOMAIN m.enemy : EnemyIsInitialized(m.enemy[i])

S_EnemyMoveSerialize(m) == WriteRepeated(m.enemy, 1, EnemySerialize, EnemyByteSizeLong)

S_EnemyMoveByteSizeLong(m) == RepeatedSize(m.enemy, EnemyByteSizeLong)

S_EnemyMoveParse(b) == [enemy |-> ParseRepeated(b, 1, EnemyParse)]
=============================================================================

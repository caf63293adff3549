---------------------------- MODULE ClientActors ----------------------------
(***************************************************************************)
(* The actors of one client's level, all on the game thread: wizards, one  *)
(* per player (Wizard.cpp), the enemies (SkeletonEnemy.cpp) with the       *)
(* blackboard of their controllers (EnemyAIController.cpp), and the        *)
(* animation that drives both (the AnimInstance and Notify files). Packets, *)
(* key presses, animation notifies, perception and timers call them in any *)
(* order.  The behaviour tree and animation assets are the engine's: the   *)
(* tasks and notifies they run may come whenever the flags allow them.     *)
(***************************************************************************)
EXTENDS Integers

CONSTANTS
  Wizards,    \* the players this client hears of
  Me,         \* its own
  Enemies,
  Others,     \* other actors perception reports, no wizards
  None,
  PlayerHp,   \* _PLAYER_HP
  MaxTimers   \* bound: four-second timers of one controller that run together

ASSUME ActorsAssumption ==
  /\ Me \in Wizards
  /\ Wizards \cap Enemies = {}
  /\ Others \cap (Wizards \cup Enemies) = {}
  /\ None \notin Wizards
  /\ PlayerHp \in Nat \ {0}
  /\ MaxTimers \in Nat \ {0}

VARIABLES
  running,  \* the engine has not stopped the program
  actor,    \* the actor of each id of m_idToPlayer and m_enemies
  brain,    \* blackboard and timers of each enemy's controller: armed tells
            \* that m_hTimer names a running one, stale counts the others
  seen,     \* perception: the actors each enemy sees
  hurt      \* history: wizards hit by the last attack each enemy started

actorVars == <<running, actor, brain, seen, hurt>>

Actors == Wizards \cup Enemies
WizardDamage == 10
EnemyHp == 100
EnemyDamage == 50

\* An actor as its constructor leaves it, or none.
Actor(here, hp) ==
  [here |-> here, hp |-> hp, gotHit |-> FALSE, attacking |-> FALSE, succeeded |-> FALSE,
   dead |-> FALSE, dying |-> FALSE, destroySet |-> FALSE, hitting |-> FALSE]

ActorTypeOK ==
  /\ running \in BOOLEAN
  /\ actor \in [Actors ->
       [here : {"absent", "null", "spawned", "destroyed"}, hp : Int,
        gotHit : BOOLEAN, attacking : BOOLEAN, succeeded : BOOLEAN, dead : BOOLEAN,
        dying : BOOLEAN, destroySet : BOOLEAN, hitting : BOOLEAN]]
  /\ brain \in [Enemies ->
       [gotHit : BOOLEAN, target : Wizards \cup {None},
        stale : 0 .. MaxTimers - 1, armed : BOOLEAN]]
  /\ seen \in [Enemies -> SUBSET (Actors \cup Others)]
  /\ hurt \in [Enemies -> Nat]

\* RunBehaviorTree in OnPossess starts with an empty blackboard.
OnPossess == [gotHit |-> FALSE, target |-> None, stale |-> 0, armed |-> FALSE]

NothingYet ==
  [actor |-> [a \in Actors |-> Actor("absent", 0)],
   brain |-> [e \in Enemies |-> OnPossess],
   seen |-> [e \in Enemies |-> {}],
   none |-> [e \in Enemies |-> 0]]

ActorInit ==
  /\ running = TRUE
  /\ actor = NothingYet.actor
  /\ brain = NothingYet.brain
  /\ seen = NothingYet.seen
  /\ hurt = NothingYet.none

Here(a) == running /\ actor[a].here = "spawned"

\* The engine stops the program on a null pointer; a destroyed actor may be
\* used as long as its memory is not collected.  Nothing is left of the level.
Crash ==
  /\ running' = FALSE
  /\ actor' = NothingYet.actor
  /\ brain' = NothingYet.brain
  /\ seen' = NothingYet.seen
  /\ hurt' = NothingYet.none

\* The actor is destroyed: perception drops it, weak pointers to it read null,
\* and an enemy's controller has no pawn any more.
Gone(a, here) ==
  /\ actor' = [actor EXCEPT ![a] = Actor(here, 0)]
  /\ seen' = [e \in Enemies |-> IF e = a THEN {} ELSE seen[e] \ {a}]
  /\ brain' = [e \in Enemies |->
                 IF e = a THEN OnPossess
                 ELSE [brain[e] EXCEPT !.target = IF @ = a THEN None ELSE @]]
  /\ UNCHANGED <<running, hurt>>

-----------------------------------------------------------------------------
(* Packets, CastleDefenseGameState.cpp. *)

\* ProcessS_Spawn adds whom GetPlayerById does not give.  SpawnActor gives
\* null where another actor stands; LazyCreateWidget uses the client's own.
AddPlayer(w) ==
  /\ running
  /\ actor[w].here \in {"absent", "null"}
  /\ \/ /\ actor' = [actor EXCEPT ![w] = Actor("spawned", PlayerHp)]
        /\ UNCHANGED <<running, brain, seen, hurt>>
     \/ /\ w # Me
        /\ actor' = [actor EXCEPT ![w] = Actor("null", 0)]
        /\ UNCHANGED <<running, brain, seen, hurt>>
     \/ w = Me /\ Crash

RemovePlayerById(w) ==
  /\ running
  /\ \/ actor[w].here \in {"spawned", "destroyed"} /\ Gone(w, "absent")
     \/ actor[w].here \in {"null", "destroyed"} /\ Crash

\* A mutant: a hit does not keep the wizard from attacking.
StartAttack_WhenHit(a) == [a EXCEPT !.attacking = TRUE]

StartAttack(a) == [a EXCEPT !.attacking = @ \/ ~a.gotHit]

StopAttack(a) == [a EXCEPT !.attacking = FALSE]

\* S_Move lists every player, the client's own included.  What a dead wizard's
\* flags still become moves nothing and is left out, here and below.
UpdatePlayerMovement(w, battack) ==
  /\ running
  /\ \/ /\ actor[w].here = "spawned" /\ ~actor[w].dead
        /\ actor' = [actor EXCEPT ![w] = IF battack THEN StartAttack(actor[w]) ELSE StopAttack(actor[w])]
        /\ UNCHANGED <<running, brain, seen, hurt>>
     \/ actor[w].here = "destroyed" /\ Crash

AddEnemy(e) ==
  /\ running
  /\ actor[e].here = "absent"
  /\ actor' = [actor EXCEPT ![e] = Actor("spawned", EnemyHp)]
  /\ UNCHANGED <<running, brain, seen, hurt>>

\* A mutant: an actor without hit points left still lives.
TakeHp_BelowZero(a, damage) ==
  [a EXCEPT !.hp = @ - damage,
            !.dead = @ \/ a.hp - damage < 0,
            !.gotHit = @ \/ a.hp - damage >= 0]

\* What both DecreaseHp do to the actor.
TakeHp(a, damage) ==
  [a EXCEPT !.hp = @ - damage,
            !.dead = @ \/ a.hp - damage <= 0,
            !.gotHit = @ \/ a.hp - damage > 0]

\* S_Attack: a killing hit sets m_bGotHit as well.  One that comes later only
\* takes more hit points and is left out.
UpdateEnemyHp(e) ==
  /\ Here(e)
  /\ actor[e].hp > 0
  /\ actor' = [actor EXCEPT ![e] = [TakeHp(actor[e], EnemyDamage) EXCEPT !.gotHit = TRUE]]
  /\ brain' = [brain EXCEPT ![e].gotHit = TRUE]
  /\ UNCHANGED <<running, seen, hurt>>

-----------------------------------------------------------------------------
(* The keys of the client's player. *)

Key(now) ==
  /\ Here(Me)
  /\ ~actor[Me].dead
  /\ actor' = [actor EXCEPT ![Me] = now]
  /\ UNCHANGED <<running, brain, seen, hurt>>

PressAttack == Key(StartAttack(actor[Me]))
ReleaseAttack == Key(StopAttack(actor[Me]))

-----------------------------------------------------------------------------
(* Attacks of enemies. *)

\* DecreaseHp of a wizard; of a dead one it only takes more hit points, which
\* is left out.
Wound(w) ==
  LET now == TakeHp(actor[w], WizardDamage)
  IN IF actor[w].dead THEN actor[w]
     ELSE IF now.dead THEN [Actor("spawned", now.hp) EXCEPT !.dead = TRUE, !.dying = now.dying,
                                                            !.destroySet = now.destroySet]
     ELSE now

\* BTT_AttackPlayer; the tree runs until DestroyTimer stops it.
ExecuteTask(e) ==
  /\ Here(e)
  /\ ~actor[e].destroySet /\ ~actor[e].attacking
  /\ ~actor[e].gotHit
  /\ actor' = [actor EXCEPT ![e] = StartAttack(actor[e])]
  /\ hurt' = [hurt EXCEPT ![e] = 0]
  /\ UNCHANGED <<running, brain, seen>>

NotifyStopAttack(e) ==
  /\ Here(e)
  /\ actor[e].attacking /\ ~actor[e].dying
  /\ actor' = [actor EXCEPT ![e] = [StopAttack(actor[e]) EXCEPT !.succeeded = FALSE]]
  /\ UNCHANGED <<running, brain, seen, hurt>>

\* A mutant: the attack is not marked as having succeeded.
OnHandOverlap_Again(e, w) ==
  /\ Here(e) /\ Here(w)
  /\ actor[e].attacking /\ ~actor[e].succeeded
  /\ hurt[e] <= 1
  /\ actor' = [actor EXCEPT ![w] = Wound(w)]
  /\ hurt' = [hurt EXCEPT ![e] = @ + 1]
  /\ UNCHANGED <<running, brain, seen>>

\* The sword touches a wizard, whoever it is aimed at, dead ones included.
OnHandOverlap(e, w) ==
  /\ Here(e) /\ Here(w)
  /\ actor[e].attacking /\ ~actor[e].succeeded
  /\ actor' = [actor EXCEPT ![e].succeeded = TRUE, ![w] = Wound(w)]
  /\ hurt' = [hurt EXCEPT ![e] = @ + 1]
  /\ UNCHANGED <<running, brain, seen>>

-----------------------------------------------------------------------------
(* Animation. *)

\* The hit montage is played, which is what hitting tells, or the attack
\* montage, which stops it.
Animated(a, now) ==
  IF now.dead THEN [now EXCEPT !.dying = @ \/ ~now.destroySet]
  ELSE IF now.gotHit /\ ~now.hitting THEN [now EXCEPT !.hitting = TRUE]
  ELSE IF a \in Wizards /\ now.attacking THEN [now EXCEPT !.hitting = FALSE]
  ELSE now

NativeUpdateAnimation(a) ==
  /\ Here(a)
  /\ actor' = [actor EXCEPT ![a] = Animated(a, actor[a])]
  /\ UNCHANGED <<running, brain, seen, hurt>>

\* NotifyHitEnd, at the end of the hit montage.
ResetHit(a) ==
  /\ Here(a)
  /\ actor[a].hitting
  /\ actor' = [actor EXCEPT ![a].gotHit = FALSE, ![a].hitting = FALSE]
  /\ brain' = [e \in Enemies |-> [brain[e] EXCEPT !.gotHit = @ /\ e # a]]
  /\ UNCHANGED <<running, seen, hurt>>

\* NotifyDeath, at the end of the death animation.
DestroyTimer(a) ==
  /\ Here(a)
  /\ actor[a].dying /\ ~actor[a].destroySet
  /\ actor' = [actor EXCEPT ![a].destroySet = TRUE]
  /\ UNCHANGED <<running, brain, seen, hurt>>

\* DestroyPlayer and DestroyEnemy, four seconds later.  The game state keeps
\* its pointer to the actor.
DestroyActor(a) == Here(a) /\ actor[a].destroySet /\ Gone(a, "destroyed")

Proceed(a) == NativeUpdateAnimation(a) \/ DestroyTimer(a) \/ DestroyActor(a)

-----------------------------------------------------------------------------
(* Perception, EnemyAIController.cpp. *)

\* SetTimer with m_hTimer: the timer the handle names starts anew.
SetTimer(b) == [b EXCEPT !.armed = TRUE]

\* Invalidate forgets the timer without stopping it.
Sighted(b, w) ==
  [b EXCEPT !.stale = IF b.armed THEN @ + 1 ELSE @, !.armed = FALSE, !.target = w]

\* A living wizard comes into sight.
Spotted(a, sensed) == sensed /\ a \in Wizards /\ ~actor[a].dead

\* What else perception reports starts the timer: a wizard lost or dead, and
\* any actor that is none, as m_pSightConfig detects neutrals.  Sightings, not
\* the timer, are bounded.
OnTargetInSight(e, a, sensed) ==
  /\ Here(e)
  /\ a # e
  /\ a \in Actors => Here(a)
  /\ sensed # (a \in seen[e])
  /\ Spotted(a, sensed) /\ brain[e].armed => brain[e].stale < MaxTimers - 1
  /\ seen' = [seen EXCEPT ![e] = IF sensed THEN @ \cup {a} ELSE @ \ {a}]
  /\ brain' = [brain EXCEPT ![e] = IF Spotted(a, sensed) THEN Sighted(@, a) ELSE SetTimer(@)]
  /\ UNCHANGED <<running, actor, hurt>>

\* The call that makes a running timer start anew.
Restart(e) ==
  /\ brain[e].armed
  /\ \E a \in Actors \cup Others, sensed \in BOOLEAN :
       ~Spotted(a, sensed) /\ OnTargetInSight(e, a, sensed)

\* A mutant: the target stays on the blackboard.
StartEnemyTimer_Keep(e) ==
  /\ Here(e)
  /\ brain[e].stale > 0 \/ brain[e].armed
  /\ brain' = [brain EXCEPT ![e].stale = IF @ > 0 THEN @ - 1 ELSE 0,
                            ![e].armed = @ /\ brain[e].stale > 0]
  /\ UNCHANGED <<running, actor, seen, hurt>>

\* Four seconds are over for the oldest timer; the handle's is the newest.
StartEnemyTimer(e) ==
  /\ Here(e)
  /\ brain[e].stale > 0 \/ brain[e].armed
  /\ brain' = [brain EXCEPT ![e].target = None,
                            ![e].stale = IF @ > 0 THEN @ - 1 ELSE 0,
                            ![e].armed = @ /\ brain[e].stale > 0]
  /\ UNCHANGED <<running, actor, seen, hurt>>

ActorNext ==
  \/ \E w \in Wizards :
       \/ AddPlayer(w) \/ RemovePlayerById(w)
       \/ \E battack \in BOOLEAN : UpdatePlayerMovement(w, battack)
  \/ \E e \in Enemies :
       \/ AddEnemy(e) \/ UpdateEnemyHp(e)
       \/ ExecuteTask(e) \/ NotifyStopAttack(e) \/ StartEnemyTimer(e)
       \/ \E w \in Wizards : OnHandOverlap(e, w)
       \/ \E a \in Actors \cup Others, sensed \in BOOLEAN : OnTargetInSight(e, a, sensed)
  \/ PressAttack \/ ReleaseAttack
  \/ \E a \in Actors : Proceed(a) \/ ResetHit(a)

ActorSpec == ActorInit /\ [][ActorNext]_actorVars

\* Animations go on, and an attack key is released sometime, here or by the
\* player an S_Move tells of.  A timer fires unless it is started anew.
ActorFairSpec ==
  /\ ActorSpec
  /\ \A a \in Actors : WF_actorVars(Proceed(a)) /\ WF_actorVars(ResetHit(a))
  /\ \A e \in Enemies : WF_actorVars(StartEnemyTimer(e) \/ Restart(e))
  /\ \A w \in Wizards : WF_actorVars(Here(w) /\ UpdatePlayerMovement(w, FALSE))

-----------------------------------------------------------------------------
(* Properties. *)

\* However often the sword touches wizards and attacks are cut short by hits,
\* one attack hurts one wizard at most (SkeletonEnemy.cpp:140-148).
OneHitPerSwing == \A e \in Enemies : hurt[e] <= 1

Hit(a) == Here(a) /\ actor[a].gotHit

\* A hit comes to its end, though the attack montage and the hit montage stop
\* each other while the attack key is down (WizardAnimInstance.cpp:61-70), and
\* only m_bGotHit keeps the key from starting over (Wizard.cpp:279).
HitEnds == \A a \in Actors : []<>~Hit(a)

Beaten(a) == Here(a) /\ actor[a].hp <= 0

\* An actor without hit points leaves the level, whatever it is doing, unless
\* the program stops (Wizard.cpp:433, SkeletonEnemy.cpp:184).
DeadLeaves == \A a \in Actors : []<>~Beaten(a)

Lost(e, w) == Here(e) /\ brain[e].target = w /\ w \notin seen[e]

\* An enemy forgets a target it has lost from sight, or sees it again, although
\* every sighting gives up the handle of the timer that does it
\* (EnemyAIController.cpp:70, :82): unless perception reports others for ever,
\* less than four seconds apart.
LostIsForgotten ==
  \A e \in Enemies :
    (\A w \in Wizards : []<>~Lost(e, w)) \/ []<><<Restart(e)>>_actorVars

=============================================================================

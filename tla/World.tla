------------------------------- MODULE World -------------------------------
(***************************************************************************)
(* The simulation of the server's main thread (EnemyManager.cpp,           *)
(* PlayerManager.cpp): enemies that walk from node to node of random paths *)
(* over the navigation mesh, players that move as their clients ask, and   *)
(* the octree their boxes are kept in, while IO threads add and remove     *)
(* players.  Coordinates are those of the navigation mesh; a turn is one   *)
(* pass of SetNextLocation's loop over one enemy or player, with           *)
(* m_simTime run out.  What the passes send is EnemyProtocol's and         *)
(* PlayerProtocol's; yaw, direction and speed only decide how far a walk   *)
(* gets.                                                                   *)
(***************************************************************************)
EXTENDS Octree, FiniteSets

CONSTANTS
  EnemyInfos, \* addresses of EnemyInfos
  Players,    \* and of PlayerInfos
  Points,     \* positions on the mesh
  MaxNodes,   \* MAX_SMOOTH, the nodes m_nodes has room for
  MaxJoins    \* bound: players made at one address

ASSUME WorldAssumption ==
  /\ Boxes = EnemyInfos \cup Players /\ EnemyInfos \cap Players = {}
  /\ Points \subseteq [Axes -> Int] /\ Points # {}
  /\ MaxNodes \in Nat \ {0} /\ MaxJoins \in Nat \ {0}

VARIABLES
  coord,   \* m_curCoord of each enemy
  nodes,   \* m_nodes of each enemy
  curNode, \* m_curNode of each enemy
  nNodes,  \* m_nNodes of each enemy
  joined,  \* players made at each address
  online   \* those in m_idToPlayer

patrolVars == <<coord, nodes, curNode, nNodes>>
vars == <<octreeVars, patrolVars, joined, online>>

-----------------------------------------------------------------------------

\* What a path may be (BuildNodes, FindPath and SetRandomDest): it starts
\* where the enemy is.  It is no longer than that if the destination is the
\* same as before because no other was found, or if there is no way.
BuildNodes(src) ==
  UNION {{path \in [0 .. n - 1 -> Points] : path[0] = src} : n \in 1 .. MaxNodes}

CheckReachedEnd(e) == curNode[e] + 1 = nNodes[e]

GetNextNode(e) == nodes[e][curNode[e]]

AtNode(e) == \A a \in {"forward", "right"} : coord[e][a] = GetNextNode(e)[a]

\* The coordinates between here and there, without here.
Closer(here, there) ==
  IF here < there THEN here + 1 .. there ELSE IF there < here THEN there .. here - 1 ELSE {here}

-----------------------------------------------------------------------------

\* No memory is cleared: m_nodes holds anything.
Init ==
  /\ OctreeInit
  /\ coord \in [EnemyInfos -> Points]
  /\ nodes \in [EnemyInfos -> [0 .. MaxNodes - 1 -> Points]]
  /\ curNode = [e \in EnemyInfos |-> -1]
  /\ nNodes = [e \in EnemyInfos |-> 0]
  /\ joined = [p \in Players |-> 0]
  /\ online = {}
  /\ aabb = [b \in Boxes |-> Box(b, IF b \in EnemyInfos THEN coord[b] ELSE CHOOSE c \in Points : TRUE)]

\* A mutant: the reset is left out.
ResetNode_Keeps(e) == curNode[e]

ResetNode(e) == 0

\* At the end of a path: BuildPath, with ResetNode, and MoveAlongPath.  The
\* nodes of longer paths stay behind the new ones.
BuildPath(e) ==
  /\ CheckReachedEnd(e)
  /\ \E path \in BuildNodes(coord[e]) :
       /\ nodes' = [nodes EXCEPT ![e] = path @@ @]
       /\ nNodes' = [nNodes EXCEPT ![e] = Cardinality(DOMAIN path)]
       /\ curNode' = [curNode EXCEPT ![e] = ResetNode(e) + 1]
  /\ UNCHANGED <<octreeVars, coord, joined, online>>

SetCoord(e, to) ==
  /\ coord' = [coord EXCEPT ![e] = to]
  /\ Move(e, to)

\* A mutant: MoveAlongPath is left out, and the next node is the one the
\* enemy is at.
ReachNode_Stays(e) ==
  /\ ~ CheckReachedEnd(e) /\ curNode[e] + 1 < MaxNodes /\ AtNode(e)
  /\ SetCoord(e, GetNextNode(e))
  /\ UNCHANGED <<nodes, nNodes, curNode, joined, online>>

\* At a node MoveAlongPath is called and the enemy put on the next one.
\* Behind m_nodes nothing is defined, and nothing modelled.
ReachNode(e) ==
  /\ ~ CheckReachedEnd(e) /\ curNode[e] + 1 < MaxNodes /\ AtNode(e)
  /\ curNode' = [curNode EXCEPT ![e] = @ + 1]
  /\ SetCoord(e, nodes[e][curNode[e] + 1])
  /\ UNCHANGED <<nodes, nNodes, joined, online>>

\* Between nodes it gets closer along both axes, at its own height.
Walk(e) ==
  /\ ~ CheckReachedEnd(e) /\ curNode[e] < MaxNodes /\ ~ AtNode(e)
  /\ \E f \in Closer(coord[e]["forward"], GetNextNode(e)["forward"]),
        r \in Closer(coord[e]["right"], GetNextNode(e)["right"]) :
       SetCoord(e, [coord[e] EXCEPT !["forward"] = f, !["right"] = r])
  /\ UNCHANGED <<nodes, curNode, nNodes, joined, online>>

EnemyTurn(e) == BuildPath(e) \/ ReachNode(e) \/ Walk(e)

\* PlayerManager's loop: the client's direction and speed, and the ground,
\* say where to.
PlayerTurn(p) ==
  /\ p \in online
  /\ \E center \in Points : Move(p, center)
  /\ UNCHANGED <<patrolVars, joined, online>>

\* The constructor sets the box's centre only: its corners are what the
\* memory held, a box as another PlayerInfo left it.
AddPlayerById(p) ==
  /\ p \notin online /\ joined[p] < MaxJoins
  /\ joined' = [joined EXCEPT ![p] = @ + 1]
  /\ online' = online \cup {p}
  /\ \E center \in Points : aabb' = [aabb EXCEPT ![p] = Box(p, center)]
  /\ UNCHANGED <<split, objects, patrolVars>>

\* The box of a player that leaves stays in its octant.
RemovePlayerById(p) ==
  /\ p \in online /\ joined[p] < MaxJoins
  /\ online' = online \ {p}
  /\ UNCHANGED <<octreeVars, patrolVars, joined>>

Next ==
  \/ \E e \in EnemyInfos : EnemyTurn(e)
  \/ \E p \in Players : PlayerTurn(p) \/ AddPlayerById(p) \/ RemovePlayerById(p)

\* The main thread runs for ever.
Spec == Init /\ [][Next]_vars /\ \A e \in EnemyInfos : WF_vars(EnemyTurn(e))

-----------------------------------------------------------------------------

\* Where RemoveFromNode will look for an enemy's box it is listed, and
\* nowhere else: the way down is the same however the tree has grown since
\* PlaceInNode put it there.  So no enemy leaves a copy of its box behind.
PlacedWhereFound ==
  \A e \in EnemyInfos : objects[e] \in {EmptyBag, SetToBag({RemovePath(aabb[e])})}

\* An enemy on a path of more than one node never has a next node behind the
\* path's end, where other paths' nodes are, whatever turns it took.
NodeInPath == \A e \in EnemyInfos : nNodes[e] > 1 => curNode[e] \in 1 .. nNodes[e] - 1

OnPath(e) == nNodes[e] > 1
AtEnd(e) == CheckReachedEnd(e)

\* An enemy on a path of more than one node gets to its end, where it takes
\* the next: it does not get stuck at a node.
PathEnds == \A e \in EnemyInfos : OnPath(e) ~> AtEnd(e)

=============================================================================

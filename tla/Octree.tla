------------------------------- MODULE Octree -------------------------------
(***************************************************************************)
(* The tree of boxes the simulation looks for collisions in                *)
(* (Partitioning.cpp, Misc.h), in the navigation mesh's coordinates.  An   *)
(* octant is the path of signs that leads to it from the root.  As in the  *)
(* code, bmin is the larger corner and bmax the smaller one.  Only the     *)
(* server's main thread uses the tree.                                     *)
(***************************************************************************)
EXTENDS Integers, Sequences, SequencesExt

CONSTANTS
  SideLen,  \* _SIDE_LEN
  Boxes,    \* addresses of AABBs
  Extents   \* half the sizes of each, by axis

Axes == {"forward", "up", "right"}

\* All sizes are far above the smallest octant's, which has no children.
ASSUME OctreeAssumption ==
  /\ SideLen \in Nat /\ SideLen > 1
  /\ Extents \in [Boxes -> [Axes -> Nat]]
  /\ \A b \in Boxes, a \in Axes : Extents[b][a] > 2

VARIABLES
  split,   \* octants with IsLeaf unset
  objects, \* the octants each box is listed in
  aabb     \* corners of each box

octreeVars == <<split, objects, aabb>>

\* SetExtent.  Upwards a box ends at 0.
Box(b, center) ==
  [bmin |-> [a \in Axes |-> LET top == center[a] + Extents[b][a] IN IF top < 0 THEN top ELSE 0],
   bmax |-> [a \in Axes |-> center[a] - Extents[b][a]]]

-----------------------------------------------------------------------------

\* The n-th step from the root halves the sides n times.
SideAt(n) == SideLen \div 2 ^ n

Center(path, a) == FoldLeft(+, 0, [n \in DOMAIN path |-> SideAt(n) * path[n][a]])

\* Does the half of the octant on this side of an axis contain the box there?
HasRoom(path, side, box, a) ==
  LET childLen == SideAt(Len(path) + 1)
      center == Center(path, a) + side * childLen
  IN center - childLen <= box.bmax[a] /\ center + childLen >= box.bmin[a]

GoesDown(path, box) == \A a \in Axes : \E side \in {1, -1} : HasRoom(path, side, box, a)

\* The children are tried in an order that has the larger half of each axis
\* first, and each axis decides for itself.
FirstChild(path, box) == [a \in Axes |-> IF HasRoom(path, 1, box, a) THEN 1 ELSE -1]

\* The octants passed on the way down, as far as one has a child with room.
\* Octants of length 1 have no children.
Passed(box) ==
  FoldLeft(LAMBDA paths, n : paths \cup
             {Append(p, FirstChild(p, box)) :
                p \in {q \in paths : Len(q) = n - 1 /\ GoesDown(q, box)}},
           {<<>>}, [n \in {d \in 1 .. SideLen : 2 ^ d <= SideLen} |-> n])

LastOf(paths) == CHOOSE p \in paths : \A q \in paths : Len(q) <= Len(p)

-----------------------------------------------------------------------------

\* The constructor makes the root's children.
OctreeInit ==
  /\ split = {<<>>}
  /\ objects = [b \in Boxes |-> EmptyBag]

\* A mutant: an octant that is given children stays marked as a leaf.
CreateNode_Leaf(paths) == split

CreateNode(paths) == split \cup paths

\* RemoveFromNode goes the same way no further than there are children.
Reached(paths) == {p \in paths : \A q \in paths : Len(q) < Len(p) => q \in split}

RemovePath(box) == LastOf(UNION {Reached(paths) : paths \in {Passed(box)}})

\* The first of the octant's entries for the box is erased, if it has one.
RemoveFromNode(b) == objects[b] (-) SetToBag({RemovePath(aabb[b])})

\* What the simulation does to a box it moves: RemoveFromNode, a new centre,
\* SetExtent and PlaceInNode, which gives every octant it comes by children
\* if it has none.
Move(b, center) ==
  \E paths \in {Passed(Box(b, center))}, others \in {RemoveFromNode(b)} :
    /\ objects' = [objects EXCEPT ![b] = others (+) SetToBag({LastOf(paths)})]
    /\ split' = CreateNode(paths)
    /\ aabb' = [aabb EXCEPT ![b] = Box(b, center)]

=============================================================================

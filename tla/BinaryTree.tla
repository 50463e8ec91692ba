----------------------------- MODULE BinaryTree -----------------------------
(***************************************************************************)
(* The binary tree behind TreeSync (ABinaryTree) and the diff in which a   *)
(* commit collects its changes to it (AbDiff).  A node is an option: {}    *)
(* for a blank, {node} for a full one.  A tree has a function for the      *)
(* leaves and one for the parents; a diff has the tree it was taken from,  *)
(* the leaves and parents changed since, and its own size.                 *)
(***************************************************************************)
EXTENDS TreeMath, FiniteSets, FiniteSetsExt, Functions, TLC

CONSTANT MaxTreeSize  \* MAX_TREE_SIZE, 2^k - 1 nodes for some k

ASSUME MaxTreeSizeAssumption == \E k \in 1..30 : MaxTreeSize = 2^k - 1

-----------------------------------------------------------------------------
(* The navigation methods of the diff, as tables of the tree math.         *)

Sizes == {2^k - 1 : k \in 1..Log2(MaxTreeSize + 1)}

FullSizes == [nodes \in 1..MaxTreeSize |-> TreeSize(nodes)]

LeavesOf(size) == 0..(LeafCount(size) - 1)

DirectPaths == [size \in Sizes |-> [i \in LeavesOf(size) |-> DirectPath(i, size)]]

Copaths == [size \in Sizes |-> [i \in LeavesOf(size) |-> Copath(i, size)]]

LeftChild == [x \in {ParentNode(i) : i \in 0..(ParentCount(MaxTreeSize) - 1)} |-> Left(x)]

RightChild == [x \in {ParentNode(i) : i \in 0..(ParentCount(MaxTreeSize) - 1)} |-> Right(x)]

CommonAncestors ==
  [i \in LeavesOf(MaxTreeSize) |->
     [j \in LeavesOf(MaxTreeSize) \ {i} |-> LowestCommonAncestor(i, j)]]

Below == [x \in 0..(MaxTreeSize - 1) |-> LeavesBelow(x)]

ParentsBelow ==
  [x \in 0..(MaxTreeSize - 1) |->
     {y \in {ParentNode(i) : i \in 0..(ParentCount(MaxTreeSize) - 1)} : Below[y] \subseteq Below[x]}]

TreeMathIsRightAt == [size \in Sizes |-> IsTreeMathOf(size)]

-----------------------------------------------------------------------------
(* Trees and diffs.                                                        *)

Blank == {}

EmptyDiff(tree) ==
  [tree        |-> tree,
   leaf_diff   |-> <<>>,
   parent_diff |-> <<>>,
   size        |-> FullSizes[Cardinality(DOMAIN tree.leaf_nodes) + Cardinality(DOMAIN tree.parent_nodes)]]

Leaf(diff, i) ==
  CASE i \in DOMAIN diff.leaf_diff -> diff.leaf_diff[i]
    [] i \notin DOMAIN diff.leaf_diff /\ i < LeafCount(diff.size) /\ i \in DOMAIN diff.tree.leaf_nodes -> diff.tree.leaf_nodes[i]
    [] OTHER -> Blank

ParentAt(diff, i) ==
  CASE i \in DOMAIN diff.parent_diff -> diff.parent_diff[i]
    [] i \notin DOMAIN diff.parent_diff /\ i \in DOMAIN diff.tree.parent_nodes -> diff.tree.parent_nodes[i]
    [] OTHER -> Blank

\* The positions the iterators over leaves and parents visit: those of the
\* original tree and of the diff.  What neither knows is not visited.
Leaves(diff) ==
  {i \in DOMAIN diff.leaf_diff \cup DOMAIN diff.tree.leaf_nodes : i < LeafCount(diff.size)}

Parents(diff) ==
  {i \in DOMAIN diff.parent_diff \cup DOMAIN diff.tree.parent_nodes : i < ParentCount(diff.size)}

ReplaceLeaf(diff, i, leaf) == [diff EXCEPT !.leaf_diff = (i :> leaf) @@ @]

SetDirectPathToBlank(diff, leaf) ==
  LET path == {KindIndex(x) : x \in Range(DirectPaths[diff.size][leaf])}
  IN [diff EXCEPT !.parent_diff = [i \in path |-> Blank] @@ @]

TreeTooLarge(diff) == diff.size > MaxTreeSize \div 2

\* Without the blanks at the positions a shrink had cut off.
MutantGrowTree(diff) == [diff EXCEPT !.size = Inc(@)]

\* Positions that a shrink cut off and that this re-exposes are blanked.
GrowTree(diff) ==
  LET size    == Inc(diff.size)
      leaves  == {i \in DOMAIN diff.tree.leaf_nodes : LeafCount(diff.size) <= i /\ i < LeafCount(size)}
      parents == {i \in DOMAIN diff.tree.parent_nodes : ParentCount(diff.size) <= i /\ i < ParentCount(size)}
  IN [diff EXCEPT !.size = size,
                  !.leaf_diff = [i \in leaves |-> Blank] @@ @,
                  !.parent_diff = [i \in parents |-> Blank] @@ @]

ShrinkTree(diff) ==
  LET size == Dec(diff.size)
  IN [diff EXCEPT !.size = size,
                  !.leaf_diff = Restrict(@, {i \in DOMAIN @ : i < LeafCount(size)}),
                  !.parent_diff = Restrict(@, {i \in DOMAIN @ : i < ParentCount(size)})]

\* The vectors are resized, with blanks, before the changes are written.
MergeDiff(diff) ==
  LET Resized(nodes, count) == [i \in 0..(count - 1) |-> IF i \in DOMAIN nodes THEN nodes[i] ELSE Blank]
  IN [leaf_nodes   |-> diff.leaf_diff @@ Resized(diff.tree.leaf_nodes, LeafCount(diff.size)),
      parent_nodes |-> diff.parent_diff @@ Resized(diff.tree.parent_nodes, ParentCount(diff.size))]
=============================================================================

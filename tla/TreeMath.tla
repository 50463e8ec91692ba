------------------------------ MODULE TreeMath ------------------------------
(***************************************************************************)
(* Index arithmetic on the array representation of a full binary tree: a   *)
(* leaf has an even and a parent an odd index.  A node is its tree index   *)
(* (TreeNodeIndex), a leaf or a parent its position among its kind         *)
(* (LeafNodeIndex, ParentNodeIndex), a size the number of nodes, 2^k - 1.  *)
(***************************************************************************)
EXTENDS Integers, Sequences

LeafNode(leaf) == leaf * 2

ParentNode(parent) == parent * 2 + 1

IsLeaf(x) == x % 2 = 0

\* The position of a node among the nodes of its kind.
KindIndex(x) == x \div 2

Log2(x) == IF x = 0 THEN 0 ELSE CHOOSE k \in 0..31 : 2^k <= x /\ x < 2^(k + 1)

\* trailing_ones
Level(x) == CHOOSE k \in 0..31 : x % 2^(k + 1) = 2^k - 1

TreeSize(nodes) == 2^(Log2(nodes) + 1) - 1

LeafCount(size) == size \div 2 + 1

ParentCount(size) == size \div 2

LeafIsLeft(size, leaf) == leaf < LeafCount(size) \div 2

Inc(size) == size * 2 + 1

Dec(size) == (size + 1) \div 2 - 1

Root(size) == 2^Log2(size) - 1

Bit(x, k) == (x \div 2^k) % 2

SetBit(x, k) == x + (1 - Bit(x, k)) * 2^k

\* The exclusive or with 2^k.
FlipBit(x, k) == x + (1 - 2 * Bit(x, k)) * 2^k

Left(x) == FlipBit(x, Level(x) - 1)

Right(x) == FlipBit(FlipBit(x, Level(x) - 1), Level(x))

Parent(x) ==
  LET k == Level(x)
      y == SetBit(x, k)
  IN IF Bit(x, k + 1) = 1 THEN FlipBit(y, k + 1) ELSE y

Sibling(x) == IF x < Parent(x) THEN Right(Parent(x)) ELSE Left(Parent(x))

\* The nodes above a leaf, up to and including the root.
DirectPath(leaf, size) ==
  LET above[x \in 0..(size - 1)] ==
        IF x = Root(size) THEN <<>> ELSE <<Parent(x)>> \o above[Parent(x)]
  IN above[LeafNode(leaf)]

\* The sibling of the leaf, then those of the direct path without the root.
Copath(leaf, size) ==
  LET path == <<LeafNode(leaf)>> \o DirectPath(leaf, size)
  IN [i \in 1..(Len(path) - 1) |-> Sibling(path[i])]

\* For distinct leaves: shift both until they agree.
LowestCommonAncestor(leaf1, leaf2) ==
  LET x == LeafNode(leaf1)
      y == LeafNode(leaf2)
      k == CHOOSE n \in 1..31 : x \div 2^n = y \div 2^n /\ x \div 2^(n - 1) # y \div 2^(n - 1)
  IN (x \div 2^k) * 2^k + 2^(k - 1) - 1

-----------------------------------------------------------------------------
(* What the arithmetic is meant to compute.                                *)

\* The root of the subtree of height h above a leaf: its leaves are the block of
\* 2^h leaves around the leaf, and it sits in their middle.
Ancestor(leaf, h) == (leaf \div 2^h) * 2^(h + 1) + 2^h - 1

\* The leaves below a node.
LeavesBelow(x) == {i \in 0..x : Ancestor(i, Level(x)) = x}

\* In a tree of the given size the direct path, the copath and the common
\* ancestor of leaves are those of the perfect binary tree over them.
IsTreeMathOf(size) ==
  LET leaves == 0..(LeafCount(size) - 1)
      height == Log2(size + 1) - 1
  IN \A i \in leaves :
       /\ DirectPath(i, size) = [h \in 1..height |-> Ancestor(i, h)]
       /\ \A h \in 1..height :
            LET copath == Copath(i, size)[h]
            IN /\ LeavesBelow(copath) \cup LeavesBelow(Ancestor(i, h - 1)) = LeavesBelow(Ancestor(i, h))
               /\ i \notin LeavesBelow(copath)
       /\ \A j \in leaves \ {i} :
            LET lca == LowestCommonAncestor(i, j)
            IN /\ {i, j} \subseteq LeavesBelow(lca)
               /\ {i, j} \cap LeavesBelow(Left(lca)) # {} /\ {i, j} \cap LeavesBelow(Right(lca)) # {}
=============================================================================

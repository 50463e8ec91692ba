------------------------------ MODULE TreeSync ------------------------------
(***************************************************************************)
(* The operations of TreeSyncDiff: the changes a commit makes to the       *)
(* ratchet tree, resolutions, tree and parent hashes, export and import.   *)
(*                                                                         *)
(* A leaf is [key, parent_hash], with an option for the parent hash (only  *)
(* leaves from a commit carry one); a parent is [key, parent_hash,         *)
(* unmerged].  Hashes are the values that are hashed, so they do not       *)
(* collide.  A key is generated with its node, so in a hash the key stands *)
(* for all that was generated with it.                                     *)
(***************************************************************************)
EXTENDS BinaryTree, SequencesExt

TheOne(option) == CHOOSE x \in option : TRUE

IsFull(option) == option # Blank

Node(diff, x) == IF IsLeaf(x) THEN Leaf(diff, KindIndex(x)) ELSE ParentAt(diff, KindIndex(x))

KeyOf(diff, x) == TheOne(Node(diff, x)).key

-----------------------------------------------------------------------------
(* Changes to the leaves.                                                  *)

RightmostFullLeaf(diff) == Max({0} \cup {i \in Leaves(diff) : IsFull(Leaf(diff, i))})

FreeLeafIndex(diff) ==
  LET blank == {i \in Leaves(diff) : ~IsFull(Leaf(diff, i))}
  IN IF blank # {} THEN Min(blank) ELSE Cardinality(Leaves(diff))

UpdateLeaf(diff, leaf, i) == SetDirectPathToBlank(ReplaceLeaf(diff, i, {leaf}), i)

BlankLeaf(diff, i) == SetDirectPathToBlank(ReplaceLeaf(diff, i, Blank), i)

\* UnmergedLeaves::add
AddUnmerged(list, i) ==
  LET Before(j) == j < i
      From(j)   == j >= i
  IN SelectSeq(list, Before) \o <<i>> \o SelectSeq(list, From)

AddUnmergedLeaf(node, i) == [node EXCEPT !.unmerged = AddUnmerged(@, i)]

\* Puts a leaf at a free place, and on the unmerged lists of the nodes above it.
AddLeafAt(diff, leaf, i) ==
  LET above == [p \in {KindIndex(x) : x \in Range(DirectPaths[diff.size][i])} |->
                  {AddUnmergedLeaf(node, i) : node \in ParentAt(diff, p)}]
  IN [diff |-> [ReplaceLeaf(diff, i, {leaf}) EXCEPT !.parent_diff = above @@ @], index |-> i]

\* The diff with the leaf and the leaf's index; none when the tree is full.
AddLeaf(diff, leaf) ==
  UNION {CASE i < LeafCount(diff.size) -> {AddLeafAt(diff, leaf, i)}
           [] i >= LeafCount(diff.size) /\ ~TreeTooLarge(diff) -> {AddLeafAt(GrowTree(diff), leaf, i)}
           [] OTHER -> {} : i \in {FreeLeafIndex(diff)}}

TrimTree(diff) ==
  LET rightmost == RightmostFullLeaf(diff)
      Step(d, level) == IF LeafIsLeft(d.size, rightmost) THEN ShrinkTree(d) ELSE d
  IN FoldLeft(Step, diff, DirectPaths[diff.size][0])

-----------------------------------------------------------------------------
(* Resolutions and filtered paths.                                         *)

\* The full nodes that cover the leaves below a node, the excluded leaves left
\* out: a full parent stands for the leaves merged into it.
Resolution(diff, node, excluded) ==
  LET Shown(i) == i \notin excluded /\ IsFull(Leaf(diff, i))
      res[x \in 0..(diff.size - 1)] ==
        CASE IsLeaf(x) -> IF Shown(KindIndex(x)) THEN <<x>> ELSE <<>>
          [] ~IsLeaf(x) /\ IsFull(Node(diff, x)) ->
               LET unmerged == SelectSeq(TheOne(Node(diff, x)).unmerged, Shown)
               IN <<x>> \o [k \in 1..Len(unmerged) |-> LeafNode(unmerged[k])]
          [] OTHER -> res[LeftChild[x]] \o res[RightChild[x]]
  IN res[node]

\* The levels of a leaf's direct path at which the copath resolves to something.
FilteredLevels(diff, leaf) ==
  LET copath == Copaths[diff.size][leaf]
      Resolves(k) == Resolution(diff, copath[k], {}) # <<>>
  IN SelectSeq([k \in 1..Len(copath) |-> k], Resolves)

OnLevels(levels, path) == [k \in 1..Len(levels) |-> path[levels[k]]]

FilteredDirectPath(diff, leaf) == OnLevels(FilteredLevels(diff, leaf), DirectPaths[diff.size][leaf])

FilteredCopath(diff, leaf) == OnLevels(FilteredLevels(diff, leaf), Copaths[diff.size][leaf])

\* The longest common end of the two filtered direct paths.
FilteredCommonDirectPath(diff, leaf1, leaf2) ==
  LongestCommonPrefix({Reverse(FilteredDirectPath(diff, leaf1)), Reverse(FilteredDirectPath(diff, leaf2))})

CopathResolutions(diff, copath, excluded) ==
  LET Kept(x) == ~(IsLeaf(x) /\ KindIndex(x) \in excluded)
  IN [k \in 1..Len(copath) |-> SelectSeq(Resolution(diff, copath[k], {}), Kept)]

\* The nodes to which a path is encrypted.  Every level of the filtered copath has
\* its list, emptied ones included; the new leaves are taken off the lists.
FilteredCopathResolutions(diff, leaf, excluded) == CopathResolutions(diff, FilteredCopath(diff, leaf), excluded)

\* encryption_keys: what the owner of a leaf should have private keys for.
OwnedKeys(diff, leaf) ==
  LET Owned(x) == IsFull(Node(diff, x)) /\ leaf \notin Range(TheOne(Node(diff, x)).unmerged)
      above == {x \in Range(FilteredDirectPath(diff, leaf)) : Owned(x)}
  IN {node.key : node \in Leaf(diff, leaf)} \cup {KeyOf(diff, x) : x \in above}

-----------------------------------------------------------------------------
(* Tree hashes and parent hashes.                                          *)

\* The full nodes of a subtree, at their places, without the excluded leaves.
TreeHash(diff, node, excluded) ==
  LET Kept(i) == i \notin excluded
      leaves  == {i \in Below[node] : Kept(i) /\ IsFull(Leaf(diff, i))}
      parents == {x \in ParentsBelow[node] : IsFull(Node(diff, x))}
  IN <<node,
       {<<i, KeyOf(diff, LeafNode(i))>> : i \in leaves},
       {<<x, KeyOf(diff, x), SelectSeq(TheOne(Node(diff, x)).unmerged, Kept)>> : x \in parents}>>

\* A parent hash covers the node's key, the hash of its sibling's subtree and the
\* parent hash the node carries: the sequence of the first two, up to the root.
ParentHash(key, parent_hash, sibling_hash) == <<[key |-> key, sibling |-> sibling_hash]>> \o parent_hash

NoParentHash == <<>>

\* The parent hashes along a new path with the given keys, computed from the root
\* down: the first is the leaf's, the next ones are those of the path's nodes.
SetParentHashes(diff, copath, keys) ==
  LET Extend(k, hashes) == <<ParentHash(keys[k], Head(hashes), TreeHash(diff, copath[k], {}))>> \o hashes
  IN FoldRight(Extend, [k \in 1..Len(keys) |-> k], <<NoParentHash>>)

\* Every node gets the parent hash of the node below it.
MutantPathNodes(path, keys, hashes) ==
  LET LevelOf(p) == CHOOSE k \in 1..Len(path) : KindIndex(path[k]) = p
  IN [p \in {KindIndex(x) : x \in Range(path)} |->
        {[key |-> keys[LevelOf(p)], parent_hash |-> hashes[LevelOf(p)], unmerged |-> <<>>]}]

\* The nodes of a path with their new keys and parent hashes.
PathNodes(path, keys, hashes) ==
  LET LevelOf(p) == CHOOSE k \in 1..Len(path) : KindIndex(path[k]) = p
  IN [p \in {KindIndex(x) : x \in Range(path)} |->
        {[key |-> keys[LevelOf(p)], parent_hash |-> hashes[LevelOf(p) + 1], unmerged |-> <<>>]}]

\* The diff with the new path in place of the whole direct path, and the parent hash
\* for the leaf.
ProcessUpdatePath(diff, leaf, keys) ==
  TheOne({[diff |-> [SetDirectPathToBlank(diff, leaf) EXCEPT
                       !.parent_diff = PathNodes(FilteredDirectPath(diff, leaf), keys, hashes) @@ @],
           parent_hash |-> hashes[1]] :
            hashes \in {SetParentHashes(diff, FilteredCopath(diff, leaf), keys)}})

\* A parent hash is valid if exactly one descendant carries it: the leaves unmerged
\* at the node are left out, they were added after it.
VerifyParentHashes(diff) ==
  \A p \in Parents(diff) : \A node \in ParentAt(diff, p) :
    LET x        == ParentNode(p)
        excluded == Range(node.unmerged)
        Carries(y, hash) ==
          IF IsLeaf(y) THEN hash \in TheOne(Node(diff, y)).parent_hash
          ELSE TheOne(Node(diff, y)).parent_hash = hash
        Descends(child, sibling) ==
          LET hash == ParentHash(node.key, node.parent_hash, TreeHash(diff, sibling, excluded))
          IN \E y \in Range(Resolution(diff, child, excluded)) : Carries(y, hash)
    IN Descends(LeftChild[x], RightChild[x]) # Descends(RightChild[x], LeftChild[x])

-----------------------------------------------------------------------------
(* The exported ratchet tree.                                              *)

\* The nodes up to the rightmost full leaf.
ExportRatchetTree(diff) ==
  [x \in 0..(2 * RightmostFullLeaf(diff)) |-> Node(diff, x)]

\* from_ratchet_tree: the tree as received, before the empty diff that caches its
\* tree hash is merged.
FromNodes(nodes) ==
  LET leaves == Cardinality({x \in DOMAIN nodes : IsLeaf(x)})
  IN [leaf_nodes   |-> [i \in 0..(leaves - 1) |-> nodes[LeafNode(i)]],
      parent_nodes |-> [i \in 0..(leaves - 2) |-> nodes[ParentNode(i)]]]

\* What a received tree is checked for: parent hashes (from_ratchet_tree), unique
\* keys, and unmerged leaves that are in the tree, below the node and known to every
\* full node in between (PublicGroup::from_external_internal).
IsValidTree(tree) ==
  LET diff == EmptyDiff(tree)
      full == {x \in 0..(diff.size - 1) : IsFull(Node(diff, x))}
  IN /\ VerifyParentHashes(diff)
     /\ Cardinality({KeyOf(diff, x) : x \in full}) = Cardinality(full)
     /\ \A x \in full : ~IsLeaf(x) =>
          \A i \in Range(TheOne(Node(diff, x)).unmerged) :
            LET path == DirectPaths[diff.size][i]
            IN /\ i \in DOMAIN tree.leaf_nodes
               /\ x \in Range(path)
               /\ \A y \in Range(path) \cap full :
                    y # x /\ Below[y] \subseteq Below[x] => i \in Range(TheOne(Node(diff, y)).unmerged)
=============================================================================

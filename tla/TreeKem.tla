------------------------------ MODULE TreeKem -------------------------------
(***************************************************************************)
(* The ratchet tree of a group over its epochs.  Every commit is taken     *)
(* through the code of all parties: the committer changes its tree, puts a *)
(* new path into it and encrypts the path; every member applies the same   *)
(* proposals and the received path to its own tree, decrypts and merges;   *)
(* every new member imports the exported tree and derives the keys of the  *)
(* path it was given a secret of.  Members are named by their leaf index.  *)
(*                                                                         *)
(* Keys and path secrets are named <<t, n>>, with a tag t per commit: n = 0 *)
(* is the committer's leaf, n >= 1 the n-th node of its path (and the      *)
(* secret the key is derived from), n = -(i + 1) the leaf that member i    *)
(* brings by an Add or Update proposal.  Tags are reused once no tree has  *)
(* a key or hash with them, so that the groups of unboundedly many epochs  *)
(* are finitely many states.                                               *)
(***************************************************************************)
EXTENDS TreeSync

CONSTANTS MaxCommits,  \* bound on the number of commits
          FirstAdds,   \* bound on the Add proposals of the creator's first commit
          MaxAdds,     \* bound on the Add proposals of a later commit
          MaxChanges   \* bound on the Update and Remove proposals of a commit

VARIABLES commits, \* number of commits so far
          trees,   \* by member: the tree the member has
          keys,    \* by member: the private keys stored for the epoch
          known,   \* by member: the private keys it has held of nodes still in a tree
          former,  \* the private keys of nodes still in a tree that removed members held
          failed   \* the members that could not follow the last commit

vars == <<commits, trees, keys, known, former, failed>>

Members == DOMAIN trees

Trees == {trees[m] : m \in Members}

NewLeaf(t, i) == [key |-> <<t, -(i + 1)>>, parent_hash |-> {}]

\* The group of its creator: one leaf, no parent.
Init ==
  /\ commits = 0
  /\ trees = (0 :> [leaf_nodes |-> (0 :> {NewLeaf(<<0, 0>>, 0)}), parent_nodes |-> <<>>])
  /\ keys = (0 :> {<<<<0, 0>>, -1>>})
  /\ known = (0 :> {<<<<0, 0>>, -1>>})
  /\ former = {}
  /\ failed = {}

\* The trees, as diffs without a change.
Unchanged == {EmptyDiff(tree) : tree \in Trees}

FullNodes(diff) == {x \in 0..(diff.size - 1) : IsFull(Node(diff, x))}

KeysIn(diff) == {KeyOf(diff, x) : x \in FullNodes(diff)}

\* The keys a tree has in nodes and in hashes.
KeysNamed(diff) ==
  LET carried == UNION {IF IsLeaf(x) THEN TheOne(Node(diff, x)).parent_hash
                        ELSE {TheOne(Node(diff, x)).parent_hash} : x \in FullNodes(diff)}
      Named(h) == {h.key} \cup {n[2] : n \in h.sibling[2] \cup h.sibling[3]}
  IN KeysIn(diff) \cup UNION {Named(h) : h \in UNION {Range(hash) : hash \in carried}}

FreshTag(sender) ==
  LET used == {key[1][2] : key \in {k \in UNION {KeysNamed(diff) : diff \in Unchanged} : k[1][1] = sender}}
  IN <<sender, Min((0..Cardinality(used)) \ used)>>

-----------------------------------------------------------------------------
(* Applying the proposals of a commit to a tree.                           *)

\* Updates, then removes, then adds, then the trim.  The diff with the leaf indices
\* of the new members; none when the tree is full.
ApplyProposals(tree, t, updates, removes, adds) ==
  LET ApplyUpdate(i, d) == UpdateLeaf(d, NewLeaf(t, i), i)
      ApplyRemove(i, d) == BlankLeaf(d, i)
      ApplyAdd(option, k) ==
        UNION {{[diff |-> a.diff, invited |-> Append(o.invited, a.index)]
                  : a \in AddLeaf(o.diff, NewLeaf(t, FreeLeafIndex(o.diff)))} : o \in option}
      updated == FoldSet(ApplyUpdate, EmptyDiff(tree), updates)
      removed == FoldSet(ApplyRemove, updated, removes)
      added   == FoldLeft(ApplyAdd, {[diff |-> removed, invited |-> <<>>]}, [k \in 1..adds |-> k])
  IN {[a EXCEPT !.diff = TrimTree(@)] : a \in added}

\* leftmost_free_index: where the sender of an external commit goes.
LeftmostFreeIndex(tree, removes) == Min(removes \cup {FreeLeafIndex(EmptyDiff(tree))})

-----------------------------------------------------------------------------
(* The committer.                                                          *)

\* Per level of the path a list of ciphertexts, each for a key.
Encrypted(diff, t, resolutions) ==
  [k \in 1..Len(resolutions) |->
     [key |-> <<t, k>>,
      ciphertexts |-> [j \in 1..Len(resolutions[k]) |->
                         [to |-> KeyOf(diff, resolutions[k][j]), secret |-> <<t, k>>]]]]

\* Encrypts to the new members as well.
MutantEncryptPath(diff, t, sender, excluded) ==
  Encrypted(diff, t, FilteredCopathResolutions(diff, sender, {}))

EncryptPath(diff, t, sender, excluded) ==
  Encrypted(diff, t, FilteredCopathResolutions(diff, sender, excluded))

\* apply_own_update_path and encrypt_path.  The sender of an external commit first
\* puts a placeholder leaf into the tree, so that it has the right size.
ComputePath(applied, t, sender, external) ==
  LET placed == IF external THEN {a.diff : a \in AddLeaf(applied, NewLeaf(t, sender))} ELSE {applied}
      New(d) == [k \in 1..Len(FilteredDirectPath(d, sender)) |-> <<t, k>>]
      OwnLeaf(p) == [key |-> <<t, 0>>, parent_hash |-> {p.parent_hash}]
  IN {[diff |-> ReplaceLeaf(p.diff, sender, {OwnLeaf(p)}), leaf |-> OwnLeaf(p), length |-> p.length] :
        p \in {[length |-> Len(new.keys)] @@ ProcessUpdatePath(new.diff, sender, new.keys) :
                new \in {[diff |-> d, keys |-> New(d)] : d \in placed}}}

-----------------------------------------------------------------------------
(* A member that receives the commit.                                      *)

\* The received path has no leaf of its own position in an external commit; it must
\* be as long as the filtered direct path, and its parent hash the one computed here.
ApplyReceivedUpdatePath(applied, sender, path) ==
  LET absent == ~IsFull(Leaf(applied, sender)) \/ sender >= LeafCount(applied.size)
      placed == IF absent THEN {a.diff : a \in {b \in AddLeaf(applied, path.leaf) : b.index = sender}}
                ELSE {applied}
      new    == [k \in 1..Len(path.nodes) |-> path.nodes[k].key]
      fitting == {d \in placed : Len(FilteredDirectPath(d, sender)) = Len(new)}
  IN {ReplaceLeaf(p.diff, sender, {path.leaf}) :
        p \in {q \in {ProcessUpdatePath(d, sender, new) : d \in fitting} :
                path.leaf.parent_hash = {q.parent_hash}}}

\* The n-th secret after a given one.
Derived(secret, n) == <<secret[1], secret[2] + n>>

\* The level, on a sender's path, of the lowest node above sender and another leaf.
SubtreeRootPosition(path, sender, own) == {k \in 1..Len(path) : path[k] = CommonAncestors[sender][own]}

\* The level of the path at which the member looks, and the ciphertext it opens.  Its
\* position is found by resolving the sender's copath node above the member, without
\* the new leaves, up to the first key the member owns.
Opened(diff, sender, own, nodes, excluded, owned) ==
  LET lca == CommonAncestors[sender][own]
      CopathNode == IF own < sender THEN LeftChild[lca] ELSE RightChild[lca]
      OwnedOf(sought) == {j \in 1..Len(sought) : sought[j] \in owned}
      Keys(resolution) == [j \in 1..Len(resolution) |-> KeyOf(diff, resolution[j])]
      AtPosition(k, sought) ==
        {[position |-> k, secret |-> nodes[k].ciphertexts[j].secret] :
           j \in {j \in DOMAIN nodes[k].ciphertexts :
                   OwnedOf(sought) # {} /\ j = Min(OwnedOf(sought)) /\ nodes[k].ciphertexts[j].to = sought[j]}}
  IN UNION {AtPosition(k, Keys(Resolution(diff, CopathNode, excluded))) :
              k \in SubtreeRootPosition(FilteredDirectPath(diff, sender), sender, own)}

\* decrypt_path: the new key pairs and the commit secret, unless a derived key is not
\* the one in the path.
DecryptPath(diff, sender, own, nodes, excluded, owned) ==
  LET Levels == 0..(Len(FilteredCommonDirectPath(diff, own, sender)) - 1)
  IN {[keypairs |-> {Derived(c.secret, n) : n \in c.levels}, secret |-> Derived(c.secret, Cardinality(c.levels))] :
        c \in {d \in {[levels |-> Levels] @@ e : e \in Opened(diff, sender, own, nodes, excluded, owned)} :
                \A n \in d.levels :
                  d.position + n <= Len(nodes) => nodes[d.position + n].key = Derived(d.secret, n)}}

\* The merged tree with the private keys kept, of those available; none if one is
\* missing.
MergedWith(tree, owned, available) ==
  IF owned \subseteq available THEN {[tree |-> tree, keys |-> owned, held |-> available]} ELSE {}

\* merge_commit: the keys kept are the ones owned in the merged tree, and all of
\* those must be there.
MergeCommit(diff, own, available) ==
  UNION {MergedWith(tree, OwnedKeys(EmptyDiff(tree), own), available) : tree \in {MergeDiff(diff)}}

\* What a receiver stages for its tree: the new members and the diff, on an error none.
StagedDiff(commit, tree) ==
  UNION {{[invited |-> Range(a.invited), diff |-> d] :
            d \in IF commit.has_path THEN ApplyReceivedUpdatePath(a.diff, commit.sender, commit.path)
                  ELSE {a.diff}} :
         a \in ApplyProposals(tree, commit.tag, commit.updates, commit.removes, commit.adds)}

\* stage_commit and merge of a member that stays.  A commit secret other than the
\* committer's shows in the confirmation tag.
MemberFollows(commit, own, staged) ==
  LET owned == keys[own] \cup IF own \in commit.updates THEN {NewLeaf(commit.tag, own).key} ELSE {}
      Secrets(s) == {p \in DecryptPath(s.diff, commit.sender, own, commit.path.nodes, s.invited, owned) :
                       p.secret = commit.secret}
  IN UNION {IF commit.has_path
            THEN UNION {MergeCommit(s.diff, own, owned \cup p.keypairs) : p \in Secrets(s)}
            ELSE MergeCommit(s.diff, own, owned) : s \in staged}

-----------------------------------------------------------------------------
(* A new member.                                                           *)

\* derive_path_secrets: from the secret of the lowest node shared with the committer
\* upwards, over the full nodes that do not list the member as unmerged.  None if a
\* derived key is not the node's.
DerivePathSecrets(tree, sender, own, secret) ==
  LET diff == EmptyDiff(tree)
      Shared(x) == /\ own \in Below[x] /\ sender \in Below[x]
                   /\ IsFull(Node(diff, x))
                   /\ own \notin Range(TheOne(Node(diff, x)).unmerged)
      path == SelectSeq(DirectPaths[diff.size][own], Shared)
  IN IF \A k \in 1..Len(path) : KeyOf(diff, path[k]) = Derived(secret, k - 1)
     THEN {{Derived(secret, k - 1) : k \in 1..Len(path)}}
     ELSE {}

\* Without the merge of the empty diff.
MutantImport(nodes, tree_hash) ==
  {tree \in {FromNodes(nodes)} :
     IsValidTree(tree) /\ TreeHash(EmptyDiff(tree), Root(EmptyDiff(tree).size), {}) = tree_hash}

\* The tree a client builds from an exported one, if it accepts it: the vectors grow
\* to the full size when the cached tree hash is merged in.
Import(nodes, tree_hash) ==
  {MergeDiff(diff) :
     diff \in {d \in {EmptyDiff(tree) : tree \in {t \in {FromNodes(nodes)} : IsValidTree(t)}} :
                TreeHash(d, Root(d.size), {}) = tree_hash}}

\* A tree as some other client gets it.
Exported(diff) == Import(ExportRatchetTree(diff), TreeHash(diff, Root(diff.size), {}))

Reimported(tree) == Exported(EmptyDiff(tree))

\* The Welcome has the secret of the lowest node above committer and joiner, when there
\* is a path.
JoinerFollows(commit, own) ==
  LET leaf == {NewLeaf(commit.tag, own).key}
      PathKeys(tree, level) ==
        IF commit.has_path THEN DerivePathSecrets(tree, commit.sender, own, <<commit.tag, level>>) ELSE {{}}
  IN UNION {UNION {{[tree |-> tree, keys |-> leaf \cup derived, held |-> leaf \cup derived] :
                      derived \in PathKeys(tree, level)} :
                   level \in SubtreeRootPosition(FilteredDirectPath(commit.staged, commit.sender), commit.sender, own)} :
            tree \in Exported(commit.staged)}

-----------------------------------------------------------------------------
(* A commit and what becomes of it at every party.                         *)

\* The committer's side: the commit, and the diff it stages.  None if the tree is full.
CreateCommit(sender, tree, updates, removes, adds, has_path, external) ==
  LET Path(applied, t) ==
        IF has_path THEN ComputePath(applied.diff, t, sender, external)
        ELSE {[diff |-> applied.diff, leaf |-> NewLeaf(t, sender), length |-> 0]}
      Applied(t) == {[tag |-> t] @@ a : a \in ApplyProposals(tree, t, updates, removes, adds)}
  IN UNION {{[tag |-> applied.tag, sender |-> sender, external |-> external,
              updates |-> updates, removes |-> removes, adds |-> adds,
              invited |-> Range(applied.invited), staged |-> own.diff, has_path |-> has_path,
              keypairs |-> IF has_path THEN {<<applied.tag, k>> : k \in 0..own.length} ELSE {},
              secret |-> <<applied.tag, own.length + 1>>,
              path |-> [leaf |-> own.leaf,
                        nodes |-> EncryptPath(own.diff, applied.tag, sender, Range(applied.invited))]] :
               own \in Path(applied, applied.tag)} : applied \in Applied(FreshTag(sender))}

\* What the receivers stage, by their tree.
Stages(commit) == {[tree |-> tree, staged |-> StagedDiff(commit, tree)] : tree \in Trees}

\* By member of this and the next epoch: the result of merging or joining, none on an
\* error.  A removed member only stages the public part.
Outcome(commit, stages) ==
  LET before == IF commit.external THEN {} ELSE keys[commit.sender]
      Staged(m) == (CHOOSE s \in stages : s.tree = trees[m]).staged
  IN [after |-> [m \in Members \ (commit.removes \cup {commit.sender}) |-> MemberFollows(commit, m, Staged(m))]
                @@ (commit.sender :> MergeCommit(commit.staged, commit.sender, before \cup commit.keypairs))
                @@ [i \in commit.invited |-> JoinerFollows(commit, i)],
      lost  |-> {m \in commit.removes : Staged(m) = {}}]

\* The members of this epoch that are not new to a leaf in the next one.
Remaining(commit) == Members \ (commit.removes \cup IF commit.external THEN {commit.sender} ELSE {})

Commit(sender, tree, updates, removes, adds, has_path, external) ==
  /\ commits' = commits + 1
  /\ \E commit \in CreateCommit(sender, tree, updates, removes, adds, has_path, external) :
     \E stages \in {Stages(commit)} : \E outcome \in {Outcome(commit, stages)} :
     \E after \in {Restrict(outcome.after, {m \in DOMAIN outcome.after : outcome.after[m] # {}})} :
     \E present \in {UNION {KeysIn(diff) : diff \in {EmptyDiff(TheOne(after[m]).tree) : m \in DOMAIN after}}} :
       /\ trees' = [m \in DOMAIN after |-> TheOne(after[m]).tree]
       /\ keys' = [m \in DOMAIN after |-> TheOne(after[m]).keys]
       /\ known' = [m \in DOMAIN after |->
                      present \cap (TheOne(after[m]).held
                                    \cup IF m \in Remaining(commit) THEN known[m] ELSE {})]
       /\ former' = present \cap (former \cup UNION {known[m] : m \in removes})
       /\ failed' = (DOMAIN outcome.after \ DOMAIN after) \cup outcome.lost

\* The members a commit updates or removes.
Changes(members) == UNION {kSubset(n, members) : n \in 0..MaxChanges}

\* A member commits Update proposals of others, Remove and SelfRemove proposals, and
\* Add proposals.  A path is optional for adds alone.
MemberCommit ==
  \E sender \in Members : \E changed \in Changes(Members \ {sender}) : \E updates \in SUBSET changed :
    \E adds \in 0..(IF commits = 0 THEN FirstAdds ELSE MaxAdds), has_path \in BOOLEAN :
      /\ (changed # {} \/ adds = 0) => has_path
      /\ Commit(sender, trees[sender], updates, changed \ updates, adds, has_path, FALSE)

\* A client joins with the tree some member exported, possibly removing its former
\* self and members that proposed to leave.
ExternalCommit ==
  \E source \in {Min(Members)} : \* as long as TreesAgree, any member is as good
  \E tree \in Reimported(trees[source]) : \E removes \in Changes(Members) :
    Commit(LeftmostFreeIndex(tree, removes), tree, {}, removes, 0, TRUE, TRUE)

Next ==
  /\ failed = {} /\ commits < MaxCommits
  /\ MemberCommit \/ ExternalCommit

Spec == Init /\ [][Next]_vars

-----------------------------------------------------------------------------
(* Properties.                                                             *)

\* Every member has a full tree with at least its own leaf, and stored keys it once
\* got.
TypeOK ==
  /\ commits \in 0..MaxCommits
  /\ Members \subseteq 0..(LeafCount(MaxTreeSize) - 1)
  /\ DOMAIN keys = Members /\ DOMAIN known = Members
  /\ \A m \in Members : /\ keys[m] \subseteq known[m] /\ known[m] \subseteq KeysIn(EmptyDiff(trees[m]))
                        /\ IsFull(trees[m].leaf_nodes[m])
  /\ failed \subseteq 0..(LeafCount(MaxTreeSize) - 1)

\* Whoever a commit concerns can follow it: the committer and the members have every
\* key the merged tree says they own, the received path fits and its ciphertexts are
\* where a member looks for them, and new members accept tree and path secret
\* (apply_received_update_path, decrypt_path, merge_commit, from_ratchet_tree,
\* derive_path_secrets never fail on an honest commit).
EveryoneFollows == failed = {}

\* After a commit all members, new ones and the committer included, have the same
\* tree, although they came to it by different code (apply_own_update_path,
\* apply_received_update_path, from_ratchet_tree).
TreesAgree == \A m, n \in Members : trees[m] = trees[n]

\* The members that share the private key of a node: those below it, without the
\* unmerged ones.
Holders(diff, x) ==
  {i \in Below[x] \cap Members : IsLeaf(x) \/ i \notin Range(TheOne(Node(diff, x)).unmerged)}

\* A member stores exactly the private keys of the nodes above it into which it is
\* merged: merge_commit drops all others.
KeysMatchTree ==
  \A m \in Members : \A diff \in {EmptyDiff(trees[m])} :
    keys[m] = {KeyOf(diff, x) : x \in {y \in FullNodes(diff) : m \in Holders(diff, y)}}

\* The members agree on the public tree, and each has its share of the private one.
MembersAgree == TreesAgree /\ KeysMatchTree

\* The private key of a node has only ever been known to the members below it that
\* are merged into it: no other member and no removed member has held it (blank_leaf,
\* update_leaf and process_update_path blank or replace every node whose key someone
\* outside could have).
OnlyThoseBelowKnow ==
  \A diff \in Unchanged : \A x \in FullNodes(diff) :
    /\ KeyOf(diff, x) \notin former
    /\ {n \in Members : KeyOf(diff, x) \in known[n]} = Holders(diff, x)

\* The unmerged leaves of a node are in strictly ascending order, as the decoder of
\* the list demands, and are members below the node (add_unmerged_leaf).
UnmergedLeavesAreSound ==
  \A diff \in Unchanged : \A x \in FullNodes(diff) : ~IsLeaf(x) =>
    LET list == TheOne(Node(diff, x)).unmerged
    IN /\ \A k \in 1..(Len(list) - 1) : list[k] < list[k + 1]
       /\ Range(list) \subseteq Below[x] \cap Members

\* In every epoch, also those that nobody joins in, the tree of a member passes the
\* checks of a client that would import it, and the client gets the same tree
\* (verify_parent_hashes, export_ratchet_tree, from_ratchet_tree).
ExportedTreesAreValid ==
  \A tree \in Trees : Reimported(tree) = {tree}

\* A tree is no larger than its rightmost member needs (trim_tree after the removes,
\* and the growth of add_leaf after the trim).
TreesAreTrimmed ==
  \A diff \in Unchanged : diff.size = 1 \/ ~LeafIsLeft(diff.size, Max(Members))

\* On the sizes the trees take, the index arithmetic computes the paths of the
\* perfect binary tree over the leaves (direct_path, copath, lowest_common_ancestor).
TreeMathIsRight == \A diff \in Unchanged : TreeMathIsRightAt[diff.size]

\* Trees stay in the form that the decoder, the importing client and the next
\* commit rely on, whatever was added, removed and updated before.
TreesAreSound ==
  /\ UnmergedLeavesAreSound /\ ExportedTreesAreValid /\ TreesAreTrimmed
  /\ TreeMathIsRight
=============================================================================

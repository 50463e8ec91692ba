--------------------------- MODULE MlsGroupProofs ---------------------------
(***************************************************************************)
(* Proofs about MlsGroup, for applications that join only where no group   *)
(* is stored: any number of clients, commits and proposals of any kind.    *)
(***************************************************************************)
EXTENDS MlsGroupInvariant, ProposalQueueProofs

\* The prover of a leaf that names none.
USE ZenonT(30)

-----------------------------------------------------------------------------
(* What a committed list does to the leaves.                               *)

\* A committer cannot add a member that it does not remove.
LEMMA MembersAreNotAdded ==
  ASSUME NEW queue \in Seq(Proposal), NEW tree, OwnKeys(tree), NEW committer,
         BuilderChecks(queue, tree, committer, NoKey) = "Ok",
         NEW d \in DOMAIN tree \ RemovedMembers(queue)
  PROVE  d \notin AddedBy(queue)
<1>1. ValidateKeyUniqueness(queue, tree, committer, NoKey)
  BY BuilderChecksOk
<1>2. SubjectsOf(queue, "Add") \cap {tree[m].key : m \in DOMAIN tree \ RemovedMembers(queue)} = {}
  BY <1>1 DEF ValidateKeyUniqueness
<1>3. SUFFICES ASSUME NEW i \in OfType(queue, "Add"), queue[i].target = d
               PROVE  FALSE
  BY DEF AddedBy
<1>4. queue[i] \in Proposal /\ queue[i].type = "Add"
  BY SMTT(30) DEF OfType
<1>5. queue[i].subject = Key[d]
  BY <1>3, <1>4 DEF Proposal, Subject
<1>6. queue[i].subject \in SubjectsOf(queue, "Add")
  BY DEF SubjectsOf
<1>7. tree[d].key = Key[d]
  BY DEF OwnKeys
<1> QED BY <1>2, <1>5, <1>6, <1>7

\* What becomes of the leaf of a member that is not removed: the committer's path
\* replaces the committer's, an Update that of another member, and then there is a
\* path.
KeptLeaf(d, queue, tree, committer, path, id) ==
  LET new == NewTree(queue, tree, committer, path, id)
  IN \/ path /\ d = committer /\ new[d].leaf = id
     \/ ~(path /\ d = committer) /\ new[d] = tree[d]
     \/ /\ d # committer /\ PathRequired(queue)
        /\ \E i \in OfType(queue, "Update") : queue[i].sender = d /\ new[d].leaf = queue[i].id

\* See KeptLeaf.
LEMMA LeavesOfMembers ==
  ASSUME NEW queue \in Seq(Proposal), NEW tree, OwnKeys(tree), NEW committer \in DOMAIN tree,
         BuilderChecks(queue, tree, committer, NoKey) = "Ok", NEW path \in BOOLEAN, NEW id,
         NEW d \in DOMAIN tree \ RemovedMembers(queue)
  PROVE  KeptLeaf(d, queue, tree, committer, path, id)
<1> DEFINE new == NewTree(queue, tree, committer, path, id)
<1>1. committer \notin RemovedMembers(queue) /\ committer \notin SendersOf(queue, "Update")
  BY BuilderChecksOk DEF ValidateUpdateProposals
<1>2. d \notin AddedBy(queue)
  BY MembersAreNotAdded
<1>3. /\ path /\ d = committer => new[d].leaf = id
      /\ ~(path /\ d = committer) =>
           \/ new[d] = tree[d]
           \/ \E i \in OfType(queue, "Update") : queue[i].target = d /\ new[d].leaf = queue[i].id
  BY SMTT(30), <1>1, <1>2, NewTreeLeaf
<1>4. \A i \in OfType(queue, "Update") :
        queue[i].target = queue[i].sender /\ queue[i].sender # committer /\ PathRequired(queue)
  <2>1. SUFFICES ASSUME NEW i \in OfType(queue, "Update")
                 PROVE  /\ queue[i].target = queue[i].sender /\ queue[i].sender # committer
                        /\ PathRequired(queue)
    OBVIOUS
  <2>2. i \in DOMAIN queue /\ queue[i].type = "Update" /\ queue[i] \in Proposal
    BY SMTT(30) DEF OfType
  <2>3. queue[i].target = queue[i].sender
    BY <2>2 DEF Proposal
  <2>4. queue[i].sender # committer
    BY <1>1 DEF SendersOf
  <2>5. PathRequired(queue)
    BY <2>2 DEF PathRequired, PathRequiring, Range
  <2> QED BY <2>3, <2>4, <2>5
<1> HIDE DEF new
<1>5. \/ path /\ d = committer /\ new[d].leaf = id
      \/ ~(path /\ d = committer) /\ new[d] = tree[d]
      \/ /\ d # committer /\ PathRequired(queue)
         /\ \E i \in OfType(queue, "Update") : queue[i].sender = d /\ new[d].leaf = queue[i].id
  BY <1>3, <1>4
<1> QED BY <1>5 DEF new, KeptLeaf

\* What the builder accepted passes the receiver's checks, although the receiver
\* knows the key of the path's leaf.
LEMMA ReceiverAccepts ==
  ASSUME NEW queue \in Seq(Proposal), NEW tree \in Trees, OwnKeys(tree),
         NEW committer \in DOMAIN tree,
         BuilderChecks(queue, tree, committer, NoKey) = "Ok",
         NEW path \in BOOLEAN, PathRequired(queue) => path
  PROVE  ValidateCommit(queue, tree, committer, IF path THEN Key[committer] ELSE NoKey) = "Ok"
<1> DEFINE pathKey == IF path THEN Key[committer] ELSE NoKey
<1>1. /\ ValidateKeyUniqueness(queue, tree, committer, NoKey)
      /\ ValidateRemoveProposals(queue, tree)
      /\ ValidatePreSharedKeyProposals(queue)
      /\ ValidateReinitProposals(queue)
      /\ ValidateUpdateProposals(queue, committer)
      /\ ValidateGroupContextExtensions(queue)
      /\ ValidateAppDataUpdates(queue)
      /\ committer \notin RemovedMembers(queue)
  BY BuilderChecksOk
<1>2. DOMAIN tree \in SUBSET Clients /\ committer \in Clients
  BY DEF Trees
<1>3. Key[committer] # NoKey /\ \A d \in Clients : Key[committer] = Key[d] => committer = d
  BY <1>2, KeyAssumption
<1>4. PathRequired(queue) => pathKey # NoKey
  BY <1>3
<1>5. ValidateKeyUniqueness(queue, tree, committer, pathKey)
  <2>1. CASE ~path
    BY <1>1, <2>1
  <2>2. CASE path
    <3> DEFINE kept == DOMAIN tree \ RemovedMembers(queue)
               added == SubjectsOf(queue, "Add")
    <3>1. DistinctSubjects(queue, "Add") /\ added \cap {tree[m].key : m \in kept} = {}
      BY <1>1 DEF ValidateKeyUniqueness
    <3>2. committer \in kept /\ tree[committer].key = Key[committer]
      BY <1>1 DEF OwnKeys
    <3>3. Key[committer] \notin added
      BY <3>1, <3>2
    <3>4. \A m \in kept \ {committer} : tree[m].key # Key[committer]
      BY <1>2, <1>3 DEF OwnKeys
    <3>5. pathKey = Key[committer] /\ pathKey # NoKey
      BY <1>3, <2>2
    <3> HIDE DEF pathKey
    <3> QED BY <3>1, <3>3, <3>4, <3>5 DEF ValidateKeyUniqueness
  <2> QED BY <2>1, <2>2
<1> HIDE DEF pathKey
<1>6. ValidateCommit(queue, tree, committer, pathKey) = "Ok"
  BY <1>1, <1>4, <1>5, ValidateCommitOk
<1> QED BY <1>6 DEF pathKey

\* The leaves of a commit's tree have their clients' keys.
LEMMA CommitKeys ==
  ASSUME IInv, NEW m \in commits
  PROVE  OwnKeys(m.tree)
<1> DEFINE tree == TreeAt(Len(m.context))
<1>1. TypeInv /\ LogInv /\ CommitOK(m) /\ m \in Commit
  BY DEF IInv, CommitsInv, TypeInv
<1>2. Len(m.context) \in 1..(Len(log) + 1)
  BY <1>1 DEF CommitOK, InHistory
<1>3. tree \in Trees /\ OwnKeys(tree)
  BY <1>1, <1>2, TranscriptFacts DEF LogInv
<1>4. /\ m.sender \in DOMAIN tree /\ BuilderChecks(m.queue, tree, m.sender, NoKey) = "Ok"
      /\ m.tree = NewTree(m.queue, tree, m.sender, m.path, m.id)
  BY <1>1 DEF CommitOK
<1>5. m.queue \in Seq(Proposal) /\ m.path \in BOOLEAN /\ m.id \in Nat
  BY <1>1 DEF Commit
<1>6. m.sender \notin RemovedMembers(m.queue)
  BY <1>4, BuilderChecksOk
<1> HIDE DEF tree
<1>7. OwnKeys(NewTree(m.queue, tree, m.sender, m.path, m.id))
  BY <1>3, <1>4, <1>5, <1>6, NewTreeType
<1> QED BY <1>4, <1>7

\* See AfterCommit.
LEMMA MembersAfter ==
  ASSUME IInv, NEW c \in Clients, IsActive(c), Epoch(c) \in 1..Len(log)
  PROVE  AfterCommit(c, log[Epoch(c)])
<1> DEFINE tree == mem[c].tree
<1>0. PICK m : m = log[Epoch(c)]
  OBVIOUS
<1>1. TypeInv /\ LogInv /\ MemberOK(c) /\ CommitOK(m) /\ m \in Commit
  <2>1. TypeInv /\ LogInv /\ MemberOK(c) /\ CommitsInv
    BY ClientFacts DEF IInv
  <2>2. m \in commits /\ commits \in SUBSET Commit
    BY SMTT(30), <1>0, <2>1 DEF TypeInv
  <2> QED BY <2>1, <2>2 DEF CommitsInv
<1>2. tree = TreeAt(Len(m.context)) /\ Len(m.context) \in 1..(Len(log) + 1) /\ c \in DOMAIN tree
  <2>1. m.context = TranscriptAt(Epoch(c))
    BY <1>0, <1>1 DEF LogInv
  <2>2. tree = TreeAt(Epoch(c)) /\ mem[c].transcript = TranscriptAt(Epoch(c)) /\ c \in DOMAIN tree
    BY <1>1 DEF MemberOK, InHistory, IsActive, Epoch
  <2> QED BY <1>1, <2>1, <2>2 DEF CommitOK, InHistory, Epoch
<1>3. tree \in Trees /\ OwnKeys(tree)
  BY <1>1, <1>2, TranscriptFacts DEF LogInv
<1>4. /\ m.sender \in DOMAIN tree /\ BuilderChecks(m.queue, tree, m.sender, NoKey) = "Ok"
      /\ m.tree = NewTree(m.queue, tree, m.sender, m.path, m.id)
  BY <1>1, <1>2 DEF CommitOK
<1>5. m.queue \in Seq(Proposal) /\ m.path \in BOOLEAN /\ m.id \in Nat
  BY <1>1 DEF Commit
<1>6. m.sender \notin RemovedMembers(m.queue)
  BY <1>4, BuilderChecksOk
<1> HIDE DEF tree
<1>7. DOMAIN NewTree(m.queue, tree, m.sender, m.path, m.id) = NewMembers(m.queue, tree)
  BY SMTT(30), <1>3, <1>4, <1>5, <1>6, NewTreeType
<1>8. DOMAIN m.tree = (DOMAIN tree \ RemovedMembers(m.queue)) \cup AddedBy(m.queue)
  BY <1>4, <1>7 DEF NewMembers
<1>9. c \notin RemovedMembers(m.queue) => c \notin AddedBy(m.queue)
  BY <1>2, <1>3, <1>4, <1>5, MembersAreNotAdded
<1>10. c \in AddedBy(m.queue) <=> \E add \in Added(m) : add[1] = c
  BY AddedClients
<1> QED BY <1>0, <1>2, <1>8, <1>9, <1>10 DEF AfterCommit

\* A commit adds a client with one key package, and that is its leaf.
LEMMA AddedOnce ==
  ASSUME IInv, NEW j \in 1..Len(log), NEW c \in Clients, NEW add \in Added(log[j]), add[1] = c
  PROVE  /\ c \in DOMAIN TreeAt(j + 1) /\ TreeAt(j + 1)[c].leaf = add[2] /\ add[2] \in Int
         /\ \A other \in Added(log[j]) : other[1] = c => other[2] = add[2]
<1>1. TypeInv /\ LogInv /\ Len(log) \in Nat /\ j \in Nat /\ j \in 1..(Len(log) + 1) /\ j <= Len(log)
  BY SMTT(30) DEF IInv, TypeInv
<1>2. PICK m \in commits : m = log[j]
  BY SMTT(30), <1>1 DEF TypeInv
<1> DEFINE tree == TreeAt(j)
           queue == m.queue
<1>3. tree \in Trees /\ OwnKeys(tree) /\ TreeAt(j + 1) = m.tree
  BY <1>1, <1>2, TranscriptFacts DEF LogInv
<1>4. m \in Commit /\ CommitOK(m) /\ Len(m.context) = j
  <2>1. m.context = TranscriptAt(j)
    BY <1>1, <1>2 DEF LogInv
  <2>2. Len(m.context) = j
    BY <1>1, <2>1, TranscriptFacts
  <2> QED BY <1>1, <2>2 DEF IInv, TypeInv, CommitsInv
<1>5. /\ queue \in Seq(Proposal) /\ m.path \in BOOLEAN /\ m.id \in Nat
  BY <1>4 DEF Commit
<1>6. /\ m.sender \in DOMAIN tree /\ BuilderChecks(queue, tree, m.sender, NoKey) = "Ok"
      /\ m.tree = NewTree(queue, tree, m.sender, m.path, m.id)
      /\ \A i \in OfType(queue, "Update") : queue[i].sender \in DOMAIN tree \ RemovedMembers(queue)
  BY <1>4 DEF CommitOK
<1>7. m.sender \notin RemovedMembers(queue) /\ DistinctSubjects(queue, "Add")
  BY <1>6, BuilderChecksOk DEF ValidateKeyUniqueness
<1> HIDE DEF tree
<1>8. c \in AddedBy(queue)
  BY <1>2, AddedClients
<1>9. c \notin DOMAIN tree \ RemovedMembers(queue)
  BY <1>3, <1>5, <1>6, <1>8, MembersAreNotAdded
<1>10. PICK i \in OfType(queue, "Add") : add = <<queue[i].target, queue[i].id>>
  BY <1>2 DEF Added
<1>11. i \in DOMAIN queue /\ queue[i] \in Proposal /\ queue[i].target = c /\ queue[i].id = add[2]
  BY SMTT(30), <1>5, <1>10 DEF OfType
<1>12. \A k \in OfType(queue, "Add") : queue[k].target = c => k = i
  <2>1. SUFFICES ASSUME NEW k \in OfType(queue, "Add"), queue[k].target = c
                 PROVE  k = i
    OBVIOUS
  <2>2. queue[k] \in Proposal /\ queue[k].type = "Add" /\ queue[i].type = "Add"
    BY SMTT(30), <1>5 DEF OfType
  <2>3. queue[k].subject = Key[c] /\ queue[i].subject = Key[c]
    BY <1>11, <2>1, <2>2 DEF Proposal, Subject
  <2> QED BY <1>7, <2>3 DEF DistinctSubjects
<1>13. LeavesFor(queue, c) = {add[2]}
  <2>1. \A k \in DOMAIN queue : queue[k].type \in {"Add", "Update"} /\ queue[k].target = c => k = i
    <3>1. SUFFICES ASSUME NEW k \in DOMAIN queue, queue[k].type = "Update", queue[k].target = c
                   PROVE  FALSE
      BY <1>12 DEF OfType
    <3>2. k \in OfType(queue, "Update") /\ queue[k] \in Proposal
      BY SMTT(30), <1>5, <3>1 DEF OfType
    <3>3. queue[k].sender = c
      BY <3>1, <3>2 DEF Proposal
    <3> QED BY <1>6, <1>9, <3>2, <3>3
  <2>2. queue[i].type = "Add"
    BY DEF OfType
  <2> QED BY <1>11, <2>1, <2>2 DEF LeavesFor
<1> DEFINE A == Applied(queue, tree)
<1>14. A[c] = [key |-> Key[c], leaf |-> add[2]] /\ c \in DOMAIN A /\ m.sender \in DOMAIN A
  <2>1. c \in DOMAIN A /\ m.sender \in DOMAIN A
    BY <1>6, <1>7, <1>8 DEF Applied
  <2>2. A[c] = [key |-> Key[c], leaf |-> CHOOSE k \in LeavesFor(queue, c) : TRUE]
    BY <1>8, <1>13 DEF Applied
  <2> QED BY <1>13, <2>1, <2>2
<1>15. c # m.sender
  BY <1>6, <1>7, <1>9
<1>16. DOMAIN m.tree = DOMAIN A /\ m.tree[c] = A[c]
  BY SMTT(30), <1>5, <1>6, <1>14, <1>15, PathLeaf
<1> HIDE DEF A
<1>17. c \in DOMAIN m.tree /\ m.tree[c].leaf = add[2]
  BY SMTT(30), <1>14, <1>16
<1>18. add[2] \in Int
  BY SMTT(30), <1>11 DEF Proposal
<1>19. \A other \in Added(log[j]) : other[1] = c => other[2] = add[2]
  <2>1. SUFFICES ASSUME NEW other \in Added(m), other[1] = c
                 PROVE  other[2] = add[2]
    BY <1>2
  <2>2. PICK k \in OfType(queue, "Add") : other = <<queue[k].target, queue[k].id>>
    BY DEF Added
  <2> QED BY <1>11, <1>12, <2>1, <2>2
<1> QED BY <1>3, <1>17, <1>18, <1>19

\* That is what a Welcome's group relies on.
LEMMA WelcomesFit ==
  ASSUME IInv, NEW c \in Clients, NEW j \in 1..Len(log)
  PROVE  AddedOK(c, j)
BY AddedOnce DEF AddedOK

-----------------------------------------------------------------------------
(* Processing a commit.                                                    *)

\* A member that knows the proposals rebuilds the committer's list; a member that
\* misses one cannot process the commit.
LEMMA StagedFromQueue ==
  ASSUME IInv, NEW c \in Clients, IsActive(c), NEW m \in Pending(c)
  PROVE  StagedFrom(c, m) =
           IF KnowsList(m.queue, mem[c].proposals) THEN StagedWith(c, m, m.queue) ELSE {}
<1> DEFINE store == mem[c].proposals
<1>1. /\ m \in Commit /\ CommitOK(m) /\ MemberOK(c)
      /\ mem[c].tree = TreeAt(Len(m.context))
  BY PendingCommit, ClientFacts
<1>2. m.queue \in Seq(Proposal) /\ DistinctIds(m.queue)
  BY <1>1 DEF Commit, CommitOK
<1>3. \A i \in DOMAIN m.queue : m.queue[i].byRef =>
        \A j \in DOMAIN store : store[j].id = m.queue[i].id => store[j] = m.queue[i]
  <2>1. \A i \in DOMAIN m.queue : m.queue[i].byRef => m.queue[i] \in proposals
    BY <1>1 DEF CommitOK, EntryOK
  <2>2. \A j \in DOMAIN store : store[j] \in proposals
    BY <1>1 DEF MemberOK
  <2>3. \A p, q \in proposals : p.id = q.id => p = q
    BY DEF IInv, IdsInv
  <2> QED BY <2>1, <2>2, <2>3
<1>4. /\ \A i \in OfType(m.queue, "Remove") : m.queue[i].subject # m.sender
      /\ ValidatePreSharedKeyProposals(m.queue)
  <2>1. m.sender \notin RemovedMembers(m.queue) /\ ValidatePreSharedKeyProposals(m.queue)
    BY <1>1, BuilderChecksOk DEF CommitOK
  <2> QED BY <2>1 DEF RemovedMembers, SubjectsOf
<1>5. CommittedProposalsError(SentList(m), store, m.sender) = "Ok" <=> KnowsList(m.queue, store)
  BY <1>2, <1>3, <1>4, CommittedProposalsOk DEF SentList
<1>6. KnowsList(m.queue, store) => FromCommittedProposals(SentList(m), store) = m.queue
  BY <1>2, RebuiltQueue DEF SentList
<1>7. CASE KnowsList(m.queue, store)
  <2>1. StagedFrom(c, m) = UNION {StagedWith(c, m, queue) : queue \in {m.queue}}
    BY <1>5, <1>6, <1>7 DEF StagedFrom
  <2> QED BY <1>7, <2>1
<1>8. CASE ~KnowsList(m.queue, store)
  BY <1>5, <1>8 DEF StagedFrom
<1> QED BY <1>7, <1>8

\* A StagedCommit is that of the commit the delivery service has for the epoch; its
\* tree has the member's leaf, of which the member has the private key.
LEMMA StagedIsNext ==
  ASSUME IInv, NEW c \in Clients, IsActive(c), NEW m \in Pending(c), NEW s \in StagedWith(c, m, m.queue)
  PROVE  /\ s \in Staged /\ IsNext(c, s)
         /\ s.kind = "GroupMember" => s.tree[c].leaf \in AvailableKeys(c, s)
<1> DEFINE leafKeys == keystore[c].leaf_keypairs \cap mem[c].own_leaf_nodes
           new == NewTree(m.queue, mem[c].tree, m.sender, m.path, m.id)
           staged == [id |-> m.id, kind |-> "GroupMember", transcript |-> Append(mem[c].transcript, m.id),
                      tree |-> new, new_keypairs |-> {}, reinit |-> OfType(m.queue, "ReInit") # {},
                      new_leaf_keypair |-> {}]
           leaf == leafKeys \cap {new[c].leaf}
           Removed == c \in RemovedMembers(m.queue)
           Found == new[c].leaf \in EpochKeys(c) \cup leafKeys
<1>1. /\ Removed => s = [staged EXCEPT !.kind = "PublicState"]
      /\ ~Removed /\ ~m.path => s = staged
      /\ ~Removed /\ m.path => Found /\ s = [staged EXCEPT !.new_leaf_keypair = leaf]
  BY DEF StagedWith
<1>2. /\ Epoch(c) \in 1..Len(log) /\ m = log[Epoch(c)] /\ m \in commits /\ m \in Commit
      /\ CommitOK(m) /\ m.context = mem[c].transcript
      /\ mem[c].tree = TreeAt(Len(m.context)) /\ mem[c].tree \in Trees /\ OwnKeys(mem[c].tree)
      /\ m.tree = new
  BY PendingCommit
<1>3. /\ MemberOK(c) /\ KeysOK(c) /\ mem[c] \in Group /\ keystore[c] \in KeyStore
  BY ClientFacts
<1>4. m.id \in Nat \ {0} /\ m.tree \in Trees /\ m.queue \in Seq(Proposal) /\ m.path \in BOOLEAN
  <2>1. \E n \in 1..Cardinality(commits) : m.id = CommitId(n)
    BY <1>2 DEF IInv, IdsInv
  <2>2. Cardinality(commits) \in Nat
    BY FS_CardinalityType DEF IInv, TypeInv
  <2> QED BY SMTT(30), <1>2, <2>1, <2>2 DEF Commit, CommitId
<1>5. Append(mem[c].transcript, m.id) \in Seq(Nat)
  BY SMTT(30), <1>3, <1>4 DEF Group
<1>6. leaf \in SUBSET Int
  BY <1>3 DEF KeyStore
<1>7. /\ staged \in Staged /\ staged.id = m.id /\ staged.kind = "GroupMember" /\ staged.tree = m.tree
      /\ staged.transcript = Append(mem[c].transcript, m.id) /\ staged.new_leaf_keypair = {}
  <2>1. (OfType(m.queue, "ReInit") # {}) \in BOOLEAN
    OBVIOUS
  <2> HIDE DEF new
  <2> QED BY <1>2, <1>4, <1>5, <2>1 DEF Staged
<1> HIDE DEF staged, leaf, Removed, new
<1>8. /\ s \in Staged /\ s.id = m.id /\ s.tree = m.tree /\ s.transcript = Append(mem[c].transcript, m.id)
      /\ s.kind = "PublicState" <=> Removed
      /\ ~Removed /\ m.path => s.new_leaf_keypair = leaf
  <2>1. CASE Removed
    BY <1>1, <1>7, <2>1 DEF Staged
  <2>2. CASE ~Removed /\ ~m.path
    BY <1>1, <1>7, <2>2
  <2>3. CASE ~Removed /\ m.path
    BY <1>1, <1>6, <1>7, <2>3 DEF Staged
  <2> QED BY <1>4, <2>1, <2>2, <2>3
<1>9. IsNext(c, s)
  BY <1>2, <1>8 DEF IsNext, Removed
<1>10. ASSUME ~Removed
       PROVE  s.tree[c].leaf \in AvailableKeys(c, s)
  <2>1. c \in DOMAIN mem[c].tree \ RemovedMembers(m.queue) /\ mem[c].tree[c].leaf \in EpochKeys(c)
    BY <1>3, <1>10 DEF MemberOK, KeysOK, Removed
  <2>2. KeptLeaf(c, m.queue, mem[c].tree, m.sender, m.path, m.id)
    BY <1>2, <1>4, <2>1, LeavesOfMembers DEF CommitOK
  <2>3. CASE ~m.path
    <3>1. ~PathRequired(m.queue)
      BY <1>2, <2>3 DEF CommitOK
    <3>2. m.tree[c] = mem[c].tree[c]
      BY <1>2, <2>2, <2>3, <3>1 DEF KeptLeaf, new
    <3> QED BY <1>8, <2>1, <3>2 DEF AvailableKeys
  <2>4. CASE m.path
    <3>1. new[c].leaf \in EpochKeys(c) \/ new[c].leaf \in leaf
      BY <1>1, <1>10, <2>4 DEF leaf
    <3> QED BY <1>2, <1>8, <1>10, <2>4, <3>1 DEF AvailableKeys
  <2> QED BY <1>4, <2>3, <2>4
<1>11. s.kind = "GroupMember" => ~Removed
  BY <1>8
<1> QED BY <1>8, <1>9, <1>10, <1>11

\* Processing a commit changes nothing but what the application holds.
LEMMA ProcessCommitStep ==
  ASSUME IInv, NEW c \in Clients, ProcessCommit(c)
  PROVE  IInv'
<1>0. PICK m \in Pending(c) : \E s \in StagedFrom(c, m) : app' = [app EXCEPT ![c] = s]
  BY DEF ProcessCommit
<1>1. PICK s \in StagedFrom(c, m) : IsActive(c) /\ app' = [app EXCEPT ![c] = s]
  BY <1>0 DEF ProcessCommit
<1>2. UNCHANGED <<mem, disk, keystore, proposals, commits, log>>
  BY DEF ProcessCommit
<1>3. s \in StagedWith(c, m, m.queue)
  BY <1>1, StagedFromQueue
<1>4. /\ s \in Staged /\ IsNext(c, s)
      /\ s.kind = "GroupMember" => s.tree[c].leaf \in AvailableKeys(c, s)
  BY <1>1, <1>3, StagedIsNext
<1>5. /\ TypeInv /\ MemberOK(c) /\ StagedOK(c) /\ KeysOK(c) /\ UpdatesOK(c)
  BY ClientFacts
<1>6. app'[c] = s /\ \A d \in Clients \ {c} : app'[d] = app[d]
  BY <1>1, <1>5 DEF TypeInv
<1>7. TypeInv'
  BY <1>1, <1>2, <1>4, <1>5, <1>6 DEF TypeInv
<1>8. /\ IsActive(c)' /\ Epoch(c)' = Epoch(c) /\ EpochKeys(c)' = EpochKeys(c)
      /\ \A n : TranscriptAt(n)' = TranscriptAt(n) /\ TreeAt(n)' = TreeAt(n)
  BY <1>1, <1>2 DEF IsActive, Epoch, EpochKeys, TranscriptAt, TreeAt
<1>9. MemberOK(c)'
  BY <1>1, <1>2, <1>5, <1>8 DEF MemberOK, InHistory
<1>10. StagedOK(c)'
  <2>1. IsNext(c, s)'
    BY <1>2, <1>4, <1>8 DEF IsNext
  <2> QED BY <1>2, <1>5, <1>6, <2>1 DEF StagedOK
<1>11. KeysOK(c)'
  <2>1. \A t \in StagedAt(c)' : t = s \/ t \in StagedAt(c)
    BY <1>2, <1>6 DEF StagedAt
  <2>2. \A t : AvailableKeys(c, t)' = AvailableKeys(c, t)
    BY <1>8 DEF AvailableKeys
  <2>3. \A t \in StagedAt(c)' : t.kind = "GroupMember" => t.tree[c].leaf \in AvailableKeys(c, t)
    BY <1>4, <1>5, <2>1 DEF KeysOK
  <2>4. \A l : Added(l)' = Added(l)
    BY DEF Added
  <2> QED BY <1>1, <1>2, <1>5, <1>8, <2>2, <2>3, <2>4 DEF KeysOK
<1>12. UpdatesOK(c)'
  BY <1>1, <1>2, <1>5, <1>8, UpdatesFrame
<1> QED BY <1>2, <1>6, <1>7, <1>9, <1>10, <1>11, <1>12, ClientStep

\* A staged commit that the application held, or the own pending one.
LEMMA MergeStagedCommitStep ==
  ASSUME IInv, NEW c \in Clients, MergeStagedCommit(c)
  PROVE  IInv' /\ IsActive(c) /\ app[c] \in Staged /\ IsNext(c, app[c])
<1>1. app[c] # NoCommit /\ Merge(c, app[c])
  BY DEF MergeStagedCommit
<1>2. MemberOK(c) /\ StagedOK(c) /\ app[c] \in {NoCommit} \cup Staged
  BY ClientFacts
<1>3. IsActive(c) /\ IsNext(c, app[c]) /\ app[c] \in Staged
  BY <1>1, <1>2 DEF MemberOK, StagedOK
<1>4. AfterCommit(c, log[Epoch(c)])
  BY <1>3, MembersAfter DEF IsNext
<1> QED BY <1>1, <1>3, <1>4, MergeStep

\* The own pending commit that the delivery service accepted is the next one.
LEMMA MergePendingCommitStep ==
  ASSUME IInv, NEW c \in Clients, MergePendingCommit(c)
  PROVE  IInv' /\ IsActive(c) /\ mem[c].pending \in Staged /\ IsNext(c, mem[c].pending)
<1>1. mem[c].state = "PendingCommit" /\ Merge(c, mem[c].pending)
  BY DEF MergePendingCommit
<1>2. PICK m \in Pending(c) : IsOwnPendingCommit(c, m)
  BY DEF MergePendingCommit
<1>3. IsActive(c)
  BY <1>1 DEF IsActive
<1>4. MemberOK(c) /\ StagedOK(c) /\ mem[c] \in Group /\ mem[c].pending # NoCommit
  BY <1>1, ClientFacts DEF MemberOK
<1>5. mem[c].pending \in Staged
  BY <1>4 DEF Group
<1>6. PICK l \in commits : l.sender = c /\ l.context = mem[c].transcript /\ mem[c].pending = OwnStaged(l)
  BY <1>4 DEF StagedOK
<1>7. /\ Epoch(c) \in 1..Len(log) /\ m = log[Epoch(c)] /\ m \in commits /\ CommitOK(m)
  BY <1>3, PendingCommit
<1>8. l = m
  <2>1. mem[c].pending.id = l.id /\ mem[c].pending.id = m.id
    BY SMTT(30), <1>2, <1>6 DEF OwnStaged, IsOwnPendingCommit
  <2> QED BY <1>7, <2>1 DEF IInv, IdsInv
<1>9. c \notin RemovedMembers(m.queue)
  BY SMTT(30), <1>6, <1>7, <1>8, BuilderChecksOk DEF CommitOK
<1>10. IsNext(c, mem[c].pending)
  BY SMTT(30), <1>6, <1>7, <1>8, <1>9 DEF IsNext, OwnStaged
<1>11. AfterCommit(c, log[Epoch(c)])
  BY <1>3, <1>7, MembersAfter
<1> QED BY <1>1, <1>3, <1>5, <1>10, <1>11, MergeStep

-----------------------------------------------------------------------------
(* Proposals and commits.                                                  *)

\* The list that a committer commits to: it consists of proposals of the epoch, no
\* two with the same reference, and its Updates are those of members that stay.
LEMMA CommittedList ==
  ASSUME IInv, NEW c \in Clients, IsActive(c), NEW n \in Nat, NEW own \in Inline(c, InlineId(n)),
         NEW queue \in FilterProposals(mem[c].proposals \o own, c),
         BuilderChecks(queue, mem[c].tree, c, NoKey) = "Ok"
  PROVE  /\ queue \in Seq(Proposal) /\ DistinctIds(queue)
         /\ \A i \in DOMAIN queue : /\ queue[i].context = mem[c].transcript
                                    /\ queue[i].byRef => queue[i] \in proposals
                                    /\ ~queue[i].byRef => queue[i].type # "Update"
         /\ \A i \in OfType(queue, "Update") :
              queue[i].sender \in DOMAIN mem[c].tree \ RemovedMembers(queue)
<1> DEFINE store == mem[c].proposals
           all == store \o own
<1>1. /\ TypeInv /\ MemberOK(c) /\ mem[c] \in Group
  BY ClientFacts
<1>2. store \in Seq(Proposal) /\ mem[c].transcript \in Seq(Nat) /\ InlineId(n) \in Nat
  BY SMTT(30), <1>1 DEF Group, InlineId
<1>3. /\ own \in Seq(Proposal)
      /\ \A i \in DOMAIN own : /\ own[i].id = InlineId(n) /\ own[i].byRef = FALSE
                               /\ own[i].type # "Update" /\ own[i].context = mem[c].transcript
      /\ \A i, j \in DOMAIN own : i = j
  <2>1. InlineOK(own, InlineId(n), mem[c].transcript)
    BY <1>2, InlineEntries
  <2> QED BY <2>1 DEF InlineOK
<1>4. \A i \in DOMAIN store : store[i] \in proposals /\ store[i].context = mem[c].transcript
  BY <1>1 DEF MemberOK
<1>5. all \in Seq(Proposal)
  BY SMTT(30), <1>2, <1>3
<1>6. \A k \in DOMAIN all :
        \/ all[k] \in proposals /\ all[k].context = mem[c].transcript
        \/ \E i \in DOMAIN own : all[k] = own[i]
  BY SMTT(30), <1>2, <1>3, <1>4, ConcatEntries
<1> HIDE DEF all, store
<1>7. \A p \in proposals : p.byRef /\ p.id # InlineId(n)
  <2>1. \A k \in Nat : ProposalId(k) # InlineId(n)
    BY SMTT(30) DEF ProposalId, InlineId
  <2>2. \A p \in proposals : p.byRef /\ \E k \in 1..Cardinality(proposals) : p.id = ProposalId(k)
    BY DEF IInv, IdsInv
  <2>3. \A k \in 1..Cardinality(proposals) : k \in Nat
    BY SMTT(30)
  <2> QED BY <2>1, <2>2, <2>3
<1>8. IdsName(all)
  <2>1. \A p, q \in proposals : p.id = q.id => p = q
    BY DEF IInv, IdsInv
  <2> QED BY SMTT(30), <1>3, <1>6, <1>7, <2>1 DEF IdsName
<1>9. /\ queue \in Seq(Proposal) /\ DistinctIds(queue) /\ OnePerMember(queue)
      /\ \A k \in DOMAIN queue : \E i \in DOMAIN all : queue[k] = all[i]
  <2>1. queue \in FilterProposals(all, c)
    BY DEF all, store
  <2> QED BY SMTT(30), <1>5, <1>8, <2>1, FilteredEntries
<1>10. \A k \in DOMAIN queue : /\ queue[k].context = mem[c].transcript
                               /\ queue[k].byRef => queue[k] \in proposals
                               /\ ~queue[k].byRef => queue[k].type # "Update"
  BY SMTT(30), <1>3, <1>6, <1>7, <1>9
<1>11. ASSUME NEW i \in OfType(queue, "Update")
       PROVE  queue[i].sender \in DOMAIN mem[c].tree \ RemovedMembers(queue)
  <2>1. i \in DOMAIN queue /\ queue[i].type = "Update" /\ queue[i] \in Proposal
    BY SMTT(30), <1>9 DEF OfType
  <2>2. queue[i] \in proposals /\ queue[i].context = mem[c].transcript
    BY <1>10, <2>1 DEF Proposal
  <2>3. queue[i].sender \in DOMAIN mem[c].tree
    <3>1. queue[i].sender \in DOMAIN TreeAt(Len(mem[c].transcript))
      BY <2>2 DEF IInv, LogInv
    <3>2. mem[c].tree = TreeAt(Len(mem[c].transcript))
      BY <1>1 DEF MemberOK, IsActive, Epoch
    <3> QED BY <3>1, <3>2
  <2>4. queue[i].sender \notin SubjectsOf(queue, "Remove")
    <3>1. SubjectsOf(queue, "Remove") \cap SendersOf(queue, "Update") = {}
      BY BuilderChecksOk DEF ValidateRemoveProposals
    <3>2. queue[i].sender \in SendersOf(queue, "Update")
      BY DEF SendersOf
    <3> QED BY <3>1, <3>2
  <2>5. queue[i].sender \notin SendersOf(queue, "SelfRemove")
    <3>1. SUFFICES ASSUME NEW j \in OfType(queue, "SelfRemove"), queue[j].sender = queue[i].sender
                   PROVE  FALSE
      BY DEF SendersOf
    <3>2. j \in DOMAIN queue /\ queue[j].type = "SelfRemove"
      BY DEF OfType
    <3>3. Concerned(queue[i]) = Concerned(queue[j])
      BY <2>1, <3>1, <3>2 DEF Concerned
    <3>4. i = j
      BY <1>9, <2>1, <3>2, <3>3 DEF OnePerMember, MemberSpecific
    <3> QED BY <2>1, <3>2, <3>4
  <2> QED BY <2>3, <2>4, <2>5 DEF RemovedMembers
<1> QED BY <1>9, <1>10, <1>11

\* The new commit is one of the client's epoch; the client has the key of its leaf.
LEMMA CreateCommitStep ==
  ASSUME IInv, NEW c \in Clients, NEW force \in BOOLEAN, CreateCommit(c, force)
  PROVE  IInv'
<1>1. PICK n \in Nat : n = Cardinality(commits) + 1
  BY SMTT(30), FS_CardinalityType DEF IInv, TypeInv
<1>2. /\ CanBuild(c) /\ Cardinality(commits) < MaxCommits
      /\ UNCHANGED <<keystore, app, proposals, log>>
  BY DEF CreateCommit
<1> DEFINE Sent(queue, path) ==
             [id |-> CommitId(n), sender |-> c, context |-> mem[c].transcript, path |-> path,
              queue |-> queue, tree |-> NewTree(queue, mem[c].tree, c, path, CommitId(n))]
<1>3. PICK own \in Inline(c, InlineId(n)) :
        \E queue \in FilterProposals(mem[c].proposals \o own, c), path \in BOOLEAN :
          /\ PathRequired(queue) => path
          /\ BuilderChecks(queue, mem[c].tree, c, NoKey) = "Ok"
          /\ commits' = commits \cup {Sent(queue, path)}
          /\ mem' = WritePendingCommit(mem, c, OwnStaged(Sent(queue, path)))
          /\ disk' = WritePendingCommit(disk, c, OwnStaged(Sent(queue, path)))
  BY <1>1 DEF CreateCommit
<1>4. PICK queue \in FilterProposals(mem[c].proposals \o own, c), path \in BOOLEAN :
        /\ PathRequired(queue) => path
        /\ BuilderChecks(queue, mem[c].tree, c, NoKey) = "Ok"
        /\ commits' = commits \cup {Sent(queue, path)}
        /\ mem' = WritePendingCommit(mem, c, OwnStaged(Sent(queue, path)))
        /\ disk' = WritePendingCommit(disk, c, OwnStaged(Sent(queue, path)))
  BY <1>3
<1>5. PICK m : m = Sent(queue, path)
  OBVIOUS
<1>6. /\ m.id = CommitId(n) /\ m.sender = c /\ m.context = mem[c].transcript /\ m.path = path
      /\ m.queue = queue /\ m.tree = NewTree(queue, mem[c].tree, c, path, CommitId(n))
      /\ m = [id |-> m.id, sender |-> m.sender, context |-> m.context, path |-> m.path,
              queue |-> m.queue, tree |-> m.tree]
  BY <1>5
<1>7. /\ commits' = commits \cup {m}
      /\ mem' = WritePendingCommit(mem, c, OwnStaged(m))
      /\ disk' = WritePendingCommit(disk, c, OwnStaged(m))
  BY <1>4, <1>5
<1> HIDE DEF Sent
<1>8. IsActive(c) /\ c \in DOMAIN mem[c].tree
  BY <1>2 DEF CanBuild
<1>9. /\ TypeInv /\ MemberOK(c) /\ StagedOK(c) /\ KeysOK(c) /\ UpdatesOK(c)
      /\ mem[c] \in Group /\ disk = mem
  BY ClientFacts
<1>10. /\ mem \in [Clients -> Group] /\ mem[c].transcript \in Seq(Nat) /\ mem[c].tree \in Trees
  BY <1>9 DEF TypeInv, Group
<1>11. /\ queue \in Seq(Proposal) /\ DistinctIds(queue)
       /\ \A i \in DOMAIN queue : /\ queue[i].context = mem[c].transcript
                                  /\ queue[i].byRef => queue[i] \in proposals
                                  /\ ~queue[i].byRef => queue[i].type # "Update"
       /\ \A i \in OfType(queue, "Update") :
            queue[i].sender \in DOMAIN mem[c].tree \ RemovedMembers(queue)
  BY <1>4, <1>7, <1>8, CommittedList
<1>12. /\ InHistory(mem[c].transcript) /\ mem[c].tree = TreeAt(Epoch(c))
       /\ Epoch(c) = Len(mem[c].transcript) /\ OwnKeys(mem[c].tree)
  <2>1. InHistory(mem[c].transcript) /\ mem[c].tree = TreeAt(Epoch(c))
    BY <1>8, <1>9 DEF MemberOK, IsActive
  <2>2. Epoch(c) = Len(mem[c].transcript) /\ Epoch(c) \in 1..(Len(log) + 1)
    BY <2>1 DEF Epoch, InHistory
  <2> QED BY <2>1, <2>2 DEF IInv, LogInv
<1>13. c \notin RemovedMembers(queue)
  BY <1>4, <1>7, BuilderChecksOk
<1>14. CommitId(n) \in Nat \ {0}
  BY SMTT(30), <1>1, FS_CardinalityType DEF CommitId, IInv, TypeInv
<1>15. m \in Commit
  <2>1. NewTree(queue, mem[c].tree, c, path, CommitId(n)) \in Trees
    BY <1>8, <1>10, <1>11, <1>12, <1>13, <1>14, NewTreeType
  <2> QED BY <1>6, <1>10, <1>11, <1>14, <2>1 DEF Commit
<1> DEFINE staged == OwnStaged(m)
<1>16. /\ staged \in Staged /\ staged.kind = "GroupMember" /\ staged.tree = m.tree /\ staged # NoCommit
       /\ path => CommitId(n) \in staged.new_keypairs
  <2>1. m.tree \in Trees /\ m.id \in Nat \ {0} /\ m.path \in BOOLEAN
    BY <1>6, <1>14, <1>15 DEF Commit
  <2>2. Append(m.context, m.id) \in Seq(Nat)
    BY SMTT(30), <1>6, <1>10, <2>1
  <2>3. (OfType(m.queue, "ReInit") # {}) \in BOOLEAN
    OBVIOUS
  <2>4. staged \in Staged /\ staged.kind = "GroupMember" /\ staged.tree = m.tree /\ staged.id = m.id
    BY SMTT(30), <2>1, <2>2, <2>3 DEF OwnStaged, Staged
  <2>5. path => CommitId(n) \in staged.new_keypairs
    BY <1>6 DEF OwnStaged
  <2>6. staged # NoCommit
    BY SMTT(30), <2>1, <2>4 DEF NoCommit
  <2> QED BY <2>4, <2>5, <2>6
<1> HIDE DEF staged
<1>17. /\ mem'[c] = [mem[c] EXCEPT !.state = "PendingCommit", !.pending = staged]
       /\ \A d \in Clients \ {c} : mem'[d] = mem[d]
       /\ mem' = [mem EXCEPT ![c] = [mem[c] EXCEPT !.state = "PendingCommit", !.pending = staged]]
       /\ disk' = mem'
  BY <1>4, <1>7, <1>9, <1>10 DEF WritePendingCommit, staged
<1>18. /\ mem'[c].state = "PendingCommit" /\ mem'[c].pending = staged
       /\ mem'[c].transcript = mem[c].transcript /\ mem'[c].tree = mem[c].tree
       /\ mem'[c].own_leaf_nodes = mem[c].own_leaf_nodes
       /\ mem'[c].proposals = mem[c].proposals
       /\ mem'[c] \in Group
  <2> DEFINE g == mem[c]
             h == mem'[c]
  <2>1. g \in Group /\ h = [g EXCEPT !.state = "PendingCommit", !.pending = staged] /\ staged \in Staged
    BY <1>9, <1>16, <1>17
  <2> HIDE DEF g, h
  <2>2. /\ h \in Group /\ h.proposals = g.proposals /\ h.own_leaf_nodes = g.own_leaf_nodes
        /\ h.state = "PendingCommit" /\ h.pending = staged
        /\ h.transcript = g.transcript /\ h.tree = g.tree
    BY <2>1 DEF Group
  <2> QED BY <2>2 DEF g, h
<1>19. m \notin commits /\ \A l \in commits : l.id # m.id
  <2>1. \A l \in commits : \E k \in 1..Cardinality(commits) : l.id = CommitId(k)
    BY DEF IInv, IdsInv
  <2>2. \A k \in 1..Cardinality(commits) : CommitId(k) # CommitId(n)
    BY SMTT(30), <1>1, <1>9, FS_CardinalityType DEF CommitId, TypeInv
  <2> QED BY <1>6, <2>1, <2>2
<1>20. IsFiniteSet(commits') /\ Cardinality(commits') = n
  BY SMTT(30), <1>1, <1>4, <1>7, <1>9, <1>19, FS_AddElement DEF TypeInv
<1>21. TypeInv'
  <2>1. mem' \in [Clients -> Group]
    BY <1>10, <1>17, <1>18
  <2>2. commits' \in SUBSET Commit /\ commits \subseteq commits'
    BY <1>4, <1>7, <1>9, <1>15 DEF TypeInv
  <2>3. log \in Seq(commits')
    BY SMTT(30), <1>9, <2>2 DEF TypeInv
  <2> QED BY <1>2, <1>9, <1>17, <1>20, <2>1, <2>2, <2>3 DEF TypeInv
<1>22. /\ IsActive(c)' /\ Epoch(c)' = Epoch(c) /\ EpochKeys(c)' = EpochKeys(c)
       /\ \A k : TranscriptAt(k)' = TranscriptAt(k) /\ TreeAt(k)' = TreeAt(k)
       /\ \A t : InHistory(t)' = InHistory(t)
  <2>1. IsActive(c)' /\ Epoch(c)' = Epoch(c)
    BY <1>18 DEF IsActive, Epoch
  <2>2. EpochKeys(c)' = EpochKeys(c)
    BY <1>2, <2>1 DEF EpochKeys
  <2>3. \A k : TranscriptAt(k)' = TranscriptAt(k) /\ TreeAt(k)' = TreeAt(k)
    BY <1>2 DEF TranscriptAt, TreeAt
  <2>4. \A t : InHistory(t)' = InHistory(t)
    BY <1>2, <2>3 DEF InHistory
  <2> QED BY <2>1, <2>2, <2>3, <2>4
<1>23. IdsInv'
  <2>1. \A l \in commits' : \E k \in 1..Cardinality(commits') : l.id = CommitId(k)
    <3>1. \A k \in 1..Cardinality(commits) : k \in 1..n
      BY SMTT(30), <1>1, <1>9, FS_CardinalityType DEF TypeInv
    <3>2. n \in 1..n
      BY SMTT(30), <1>1, <1>9, FS_CardinalityType DEF TypeInv
    <3> QED BY <1>4, <1>7, <1>6, <1>20, <3>1, <3>2 DEF IInv, IdsInv
  <2>2. \A k, l \in commits' : k.id = l.id => k = l
    BY <1>4, <1>7, <1>19 DEF IInv, IdsInv
  <2>3. Cardinality(commits') <= MaxCommits
    BY SMTT(30), <1>1, <1>2, <1>9, <1>20, FS_CardinalityType, BoundsAssumption DEF TypeInv
  <2> QED BY <1>2, <2>1, <2>2, <2>3 DEF IInv, IdsInv
<1>24. LogInv'
  BY <1>2, <1>22 DEF IInv, LogInv
<1>25. CommitsInv'
  <2>1. CommitOK(m)'
    <3>1. CommitOK(m)
      <4>1. TreeAt(Len(m.context)) = mem[c].tree /\ InHistory(m.context)
        BY <1>6, <1>12
      <4>2. \A i \in DOMAIN m.queue : EntryOK(m.queue[i], m)
        BY <1>6, <1>11 DEF EntryOK
      <4>3. BuilderChecks(m.queue, mem[c].tree, m.sender, NoKey) = "Ok" /\ (PathRequired(m.queue) => m.path)
        BY <1>4, <1>6
      <4>4. m.tree = NewTree(m.queue, mem[c].tree, m.sender, m.path, m.id)
        BY <1>6
      <4>5. \A i \in OfType(m.queue, "Update") :
              m.queue[i].sender \in DOMAIN mem[c].tree \ RemovedMembers(m.queue)
        BY <1>6, <1>11
      <4>6. DistinctIds(m.queue) /\ m.sender \in DOMAIN mem[c].tree
        BY <1>6, <1>8, <1>11
      <4> QED BY <4>1, <4>2, <4>3, <4>4, <4>5, <4>6 DEF CommitOK
    <3> QED BY <1>2, <1>22, <3>1 DEF CommitOK, EntryOK
  <2>2. \A l \in commits : CommitOK(l)'
    BY <1>2, <1>22 DEF IInv, CommitsInv, CommitOK, EntryOK
  <2> QED BY <1>4, <1>7, <2>1, <2>2 DEF CommitsInv
<1>26. MemberOK(c)'
  <2>1. mem[c].tree = TreeAt(Epoch(c)) /\ InHistory(mem[c].transcript)
    BY <1>12
  <2>2. \A i \in DOMAIN mem[c].proposals :
          mem[c].proposals[i] \in proposals /\ mem[c].proposals[i].context = mem[c].transcript
    BY <1>8, <1>9 DEF MemberOK
  <2>3. proposals' = proposals /\ app'[c] = app[c]
    BY <1>2
  <2>4. mem'[c].state # "None" /\ mem'[c].pending # NoCommit
    BY <1>16, <1>18
  <2> QED BY <1>8, <1>18, <1>22, <2>1, <2>2, <2>3, <2>4 DEF MemberOK
<1>27. StagedOK(c)'
  <2>1. m \in commits' /\ m.sender = c /\ m.context = mem'[c].transcript /\ mem'[c].pending = OwnStaged(m)
    BY <1>4, <1>7, <1>6, <1>18 DEF staged
  <2>2. OwnStaged(m)' = OwnStaged(m)
    BY DEF OwnStaged
  <2>3. app[c] # NoCommit => IsNext(c, app[c])
    BY <1>9 DEF StagedOK
  <2>4. IsNext(c, app[c]) => IsNext(c, app[c])'
    BY <1>2, <1>18, <1>22 DEF IsNext
  <2> QED BY <1>2, <2>1, <2>2, <2>3, <2>4 DEF StagedOK
<1>28. KeysOK(c)'
  <2>1. mem[c].tree[c].leaf \in EpochKeys(c)
    BY <1>8, <1>9 DEF KeysOK
  <2>2. staged.tree[c].leaf \in EpochKeys(c) \cup staged.new_keypairs
    <3>1. KeptLeaf(c, queue, mem[c].tree, c, path, CommitId(n))
      BY <1>4, <1>7, <1>8, <1>11, <1>12, <1>13, LeavesOfMembers
    <3>2. \/ path /\ m.tree[c].leaf = CommitId(n)
          \/ m.tree[c] = mem[c].tree[c]
      BY <1>6, <3>1 DEF KeptLeaf
    <3> QED BY <1>16, <2>1, <3>2
  <2>3. \A s \in StagedAt(c)' : s = staged \/ s \in StagedAt(c)
    BY <1>2, <1>18 DEF StagedAt
  <2>4. \A s : AvailableKeys(c, s)' = AvailableKeys(c, s)
    BY <1>22 DEF AvailableKeys
  <2>5. \A s \in StagedAt(c)' : s.kind = "GroupMember" => s.tree[c].leaf \in AvailableKeys(c, s)
    BY <1>9, <2>2, <2>3 DEF KeysOK, AvailableKeys
  <2>6. \A l : Added(l)' = Added(l)
    BY DEF Added
  <2> QED BY <1>2, <1>9, <1>18, <1>22, <2>1, <2>4, <2>5, <2>6 DEF KeysOK
<1>29. UpdatesOK(c)'
  BY <1>2, <1>8, <1>9, <1>18, <1>22, UpdatesFrame
<1>30. ASSUME NEW d \in Clients \ {c}
       PROVE  MemberOK(d)' /\ StagedOK(d)' /\ KeysOK(d)' /\ UpdatesOK(d)'
  <2>1. MemberOK(d) /\ StagedOK(d) /\ KeysOK(d) /\ UpdatesOK(d)
    BY ClientFacts
  <2>2. commits \subseteq commits' /\ proposals' = proposals /\ log' = log
    BY <1>2, <1>4, <1>7
  <2> QED BY <1>2, <1>17, <2>1, <2>2, Frame
<1> QED BY <1>21, <1>23, <1>24, <1>25, <1>26, <1>27, <1>28, <1>29, <1>30
        DEF IInv, MembersInv, KeysInv, UpdatesInv

-----------------------------------------------------------------------------
(* The invariant holds, and what follows from it.                          *)

\* The proposals and the commits so far can be counted.
LEMMA SetsCount ==
  ASSUME IInv
  PROVE  CountsUp(proposals) /\ CountsUp(commits)
<1>1. IsFiniteSet(proposals) /\ IsFiniteSet(commits)
  BY DEF IInv, TypeInv
<1> QED BY <1>1, FS_CardinalityType, FS_AddElement DEF CountsUp

\* Every step of the group preserves the inductive invariant.
LEMMA NextInv ==
  ASSUME IInv, Joining = "fresh", [Next]_vars
  PROVE  IInv'
<1>1. ASSUME NEW c \in Clients, NEW m \in Range(log), JoinFromWelcome(c, m)
      PROVE  IInv'
  <2>1. log \in Seq(commits)
    BY DEF IInv, TypeInv
  <2>2. PICK j \in 1..Len(log) : m = log[j]
    BY SMTT(30), <2>1 DEF Range
  <2> QED BY <1>1, <2>2, WelcomesFit, JoinFromWelcomeStep
<1>2. CASE UNCHANGED vars
  BY <1>2, StutteringStep
<1>3. ASSUME NEW m \in commits, Accept(m)
      PROVE  IInv'
  BY <1>3, CommitKeys, AcceptStep
<1>4. ASSUME NEW c \in Clients, NEW k \in Kinds, Propose(c, k[1], k[2])
      PROVE  IInv'
  BY <1>4, SetsCount, ProposeStep
<1> QED
  BY <1>1, <1>2, <1>3, <1>4, ReceiveProposalStep, CreateCommitStep, ClearPendingProposalsStep,
     ClearPendingCommitStep, ProcessCommitStep, MergeStagedCommitStep, MergePendingCommitStep,
     DeleteStep, LoadStep
  DEF Next

\* IInv is an invariant of the group.
LEMMA GroupInv ==
  ASSUME Joining = "fresh"
  PROVE  Spec => []IInv
<1>1. IInv /\ [Next]_vars => IInv'
  BY NextInv
<1>2. Init => IInv
  BY FS_EmptySet, InitInv
<1> QED BY <1>1, <1>2, PTL DEF Spec

\* Any number of clients follow the accepted commits one after the other and have
\* the leaves of their epoch, through every race of commits, clearing and restart.
THEOREM GroupLockStep ==
  ASSUME Joining = "fresh"
  PROVE  Spec => []LockStep
<1>1. IInv => LockStep
  <2>1. SUFFICES ASSUME IInv, NEW c \in Clients, mem[c].state # "None"
                 PROVE  /\ Epoch(c) \in 1..(Len(log) + 1)
                        /\ mem[c].transcript = TranscriptAt(Epoch(c))
                        /\ mem[c].tree = TreeAt(Epoch(c))
    BY DEF LockStep
  <2> QED BY <2>1, ClientFacts DEF MemberOK, InHistory, Epoch
<1> QED BY <1>1, GroupInv, PTL

\* Nothing that a client holds, in memory, in storage or at the application, is of
\* another epoch than the client itself.
THEOREM GroupNothingStale ==
  ASSUME Joining = "fresh"
  PROVE  Spec => []NothingHeldIsStale
<1>1. IInv => StagedCommitsAreCurrent
  <2>1. SUFFICES ASSUME IInv, NEW c \in Clients, NEW s \in StagedAt(c)
                 PROVE  s.transcript = Append(mem[c].transcript, s.id)
    BY DEF StagedCommitsAreCurrent
  <2>2. StagedOK(c)
    BY <2>1, ClientFacts
  <2>3. CASE s = mem[c].pending
    <3>1. PICK m \in commits : m.context = mem[c].transcript /\ s = OwnStaged(m)
      BY <2>2, <2>3 DEF StagedOK, StagedAt
    <3> QED BY <3>1 DEF OwnStaged
  <2>4. CASE s = app[c]
    BY <2>2, <2>4 DEF StagedOK, StagedAt, IsNext
  <2> QED BY <2>3, <2>4 DEF StagedAt
<1>2. IInv => QueuedProposalsAreCurrent
  <2>1. SUFFICES ASSUME IInv, NEW c \in Clients, IsActive(c),
                        NEW p \in Range(mem[c].proposals \o disk[c].proposals)
                 PROVE  p.context = mem[c].transcript
    BY DEF QueuedProposalsAreCurrent
  <2> DEFINE queue == mem[c].proposals
  <2>2. MemberOK(c) /\ disk = mem /\ queue \in Seq(Proposal)
    BY <2>1, ClientFacts DEF Group
  <2>3. PICK k \in DOMAIN (queue \o queue) : p = (queue \o queue)[k]
    BY <2>2 DEF Range
  <2>4. \E i \in DOMAIN queue : p = queue[i]
    <3> HIDE DEF queue
    <3> QED BY SMTT(30), <2>2, <2>3, ConcatEntries
  <2> QED BY <2>1, <2>2, <2>4 DEF MemberOK
<1>3. IInv => RestartLosesNothing
  BY DEF IInv, TypeInv, RestartLosesNothing
<1> QED BY <1>1, <1>2, <1>3, GroupInv, PTL DEF NothingHeldIsStale

\* Members have the private keys that they need and none of an earlier epoch.
THEOREM GroupKeys ==
  ASSUME Joining = "fresh"
  PROVE  Spec => []KeysFollowTheEpoch
<1>1. IInv => KeysFollowTheEpoch
  BY DEF IInv, KeysInv, KeysOK, KeysFollowTheEpoch, KeyMaterialIsComplete, OldKeysAreDeleted
<1> QED BY <1>1, GroupInv, PTL

\* A member that knows the proposals of the accepted commit can process the commit,
\* unless it is its own: the checks agree, and the private key of its leaf is there.
LEMMA CommitIsProcessable ==
  ASSUME IInv, NEW c \in Clients, IsActive(c), NEW m \in Pending(c),
         ~(m.sender = c /\ m.path), KnowsList(m.queue, mem[c].proposals)
  PROVE  StagedFrom(c, m) # {}
<1> DEFINE new == NewTree(m.queue, mem[c].tree, m.sender, m.path, m.id)
           leafKeys == keystore[c].leaf_keypairs \cap mem[c].own_leaf_nodes
           pathKey == IF m.path THEN Key[m.sender] ELSE NoKey
<1>1. StagedFrom(c, m) = StagedWith(c, m, m.queue)
  BY StagedFromQueue
<1>2. /\ m \in Commit /\ CommitOK(m) /\ m.context = mem[c].transcript
      /\ mem[c].tree = TreeAt(Len(m.context)) /\ mem[c].tree \in Trees /\ OwnKeys(mem[c].tree)
      /\ m.tree = new
  BY PendingCommit
<1>3. /\ m.queue \in Seq(Proposal) /\ m.path \in BOOLEAN /\ m.sender \in DOMAIN mem[c].tree
      /\ BuilderChecks(m.queue, mem[c].tree, m.sender, NoKey) = "Ok"
      /\ PathRequired(m.queue) => m.path
  BY <1>2 DEF Commit, CommitOK
<1>4. ValidateCommit(m.queue, mem[c].tree, m.sender, pathKey) = "Ok"
  BY <1>2, <1>3, ReceiverAccepts
<1>5. c \in RemovedMembers(m.queue) \/ ~m.path \/ new[c].leaf \in EpochKeys(c) \cup leafKeys
  <2>1. SUFFICES ASSUME c \notin RemovedMembers(m.queue), m.path
                 PROVE  new[c].leaf \in EpochKeys(c) \cup leafKeys
    OBVIOUS
  <2>2. MemberOK(c) /\ KeysOK(c) /\ UpdatesOK(c)
    BY ClientFacts
  <2>3. c \in DOMAIN mem[c].tree \ RemovedMembers(m.queue) /\ mem[c].tree[c].leaf \in EpochKeys(c)
    BY <2>1, <2>2 DEF MemberOK, KeysOK
  <2>4. KeptLeaf(c, m.queue, mem[c].tree, m.sender, m.path, m.id)
    BY <1>2, <1>3, <2>3, LeavesOfMembers
  <2>5. \/ new[c] = mem[c].tree[c]
        \/ \E i \in OfType(m.queue, "Update") : m.queue[i].sender = c /\ new[c].leaf = m.queue[i].id
    BY <2>1, <2>4 DEF KeptLeaf
  <2>6. ASSUME NEW i \in OfType(m.queue, "Update"), m.queue[i].sender = c
        PROVE  m.queue[i].id \in leafKeys
    <3>1. i \in DOMAIN m.queue /\ m.queue[i].type = "Update" /\ m.queue[i] \in Proposal
      BY SMTT(30), <1>3 DEF OfType
    <3>2. m.queue[i] \in proposals /\ m.queue[i].context = mem[c].transcript
      BY <1>2, <3>1 DEF CommitOK, EntryOK, Proposal
    <3> QED BY <2>2, <2>6, <3>1, <3>2 DEF UpdatesOK
  <2> QED BY <2>3, <2>5, <2>6
<1> QED BY <1>1, <1>2, <1>4, <1>5 DEF StagedWith

\* A commit that the delivery service accepted can be processed by every member of
\* its epoch that has the proposals, except by a committer that dropped it.
THEOREM GroupProcessable ==
  ASSUME Joining = "fresh"
  PROVE  Spec => []AcceptedCommitsAreProcessable
<1>1. IInv => AcceptedCommitsAreProcessable
  <2>1. SUFFICES ASSUME IInv, NEW c \in Clients, IsActive(c), NEW m \in Pending(c),
                        ~IsOwnPendingCommit(c, m), ~LostOwnCommit(c, m),
                        \A e \in Range(SentList(m)) : IsKnown(e, mem[c].proposals)
                 PROVE  StagedFrom(c, m) # {}
    BY DEF AcceptedCommitsAreProcessable
  <2>2. ~(m.sender = c /\ m.path)
    BY <2>1 DEF LostOwnCommit
  <2>3. KnowsList(m.queue, mem[c].proposals)
    <3>1. CommitOK(m) /\ MemberOK(c) /\ \A p, q \in proposals : p.id = q.id => p = q
      BY <2>1, PendingCommit, ClientFacts DEF IInv, IdsInv
    <3>2. \A i \in DOMAIN m.queue : m.queue[i].byRef => m.queue[i] \in proposals
      BY <3>1 DEF CommitOK, EntryOK
    <3>3. \A j \in DOMAIN mem[c].proposals : mem[c].proposals[j] \in proposals
      BY <2>1, <3>1 DEF MemberOK
    <3>4. ASSUME NEW i \in DOMAIN m.queue, m.queue[i].byRef
          PROVE  \E j \in DOMAIN mem[c].proposals : mem[c].proposals[j].id = m.queue[i].id
      <4>1. /\ SentList(m)[i] \in Range(SentList(m)) /\ SentList(m)[i].byRef
            /\ SentList(m)[i].id = m.queue[i].id
        BY <3>4 DEF SentList, CommitList, Range
      <4> QED BY SMTT(30), <2>1, <4>1 DEF IsKnown, Range
    <3> QED BY <3>1, <3>2, <3>3, <3>4 DEF KnowsList
  <2> QED BY <2>1, <2>2, <2>3, CommitIsProcessable
<1> QED BY <1>1, GroupInv, PTL

\* Every step of the group is a step of the history or invisible.
LEMMA RefinesNext ==
  ASSUME IInv, Joining = "fresh", [Next]_vars
  PROVE  [History!Next]_(History!vars)
<1>1. ASSUME NEW c \in Clients, NEW m \in Range(log), JoinFromWelcome(c, m)
      PROVE  [History!Next]_(History!vars)
  <2>1. log \in Seq(commits)
    BY DEF IInv, TypeInv
  <2>2. PICK j \in 1..Len(log) : m = log[j]
    BY SMTT(30), <2>1 DEF Range
  <2> QED BY <1>1, <2>2, WelcomesFit, RefinesJoin
<1>2. ASSUME NEW c \in Clients, MergeStagedCommit(c)
      PROVE  History!Next
  BY <1>2, MergeStagedCommitStep, RefinesMerge DEF MergeStagedCommit
<1>3. ASSUME NEW c \in Clients, MergePendingCommit(c)
      PROVE  History!Next
  BY <1>3, MergePendingCommitStep, RefinesMerge DEF MergePendingCommit
<1>4. CASE UNCHANGED vars
  BY <1>4, Invisible DEF vars
<1>5. ASSUME NEW m \in commits, Accept(m)
      PROVE  History!Next
  BY <1>5, SetsCount, RefinesAccept
<1> QED BY <1>1, <1>2, <1>3, <1>4, <1>5, WithinEpoch, RefinesDelete DEF Next

\* The group implements GroupHistory: one history of commits that every client
\* follows commit by commit, starting where it was added.
THEOREM GroupImplementsHistory ==
  ASSUME Joining = "fresh"
  PROVE  Spec => ImplementsHistory
<1>1. IInv /\ [Next]_vars => [History!Next]_(History!vars)
  BY RefinesNext
<1> QED BY <1>1, RefinesInit, GroupInv, PTL DEF Spec, ImplementsHistory, History!Spec
=============================================================================
